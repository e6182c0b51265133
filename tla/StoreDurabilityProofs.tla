----------------------- MODULE StoreDurabilityProofs -----------------------
(***************************************************************************)
(* What the disk holds.  First, the snapshot and the WAL together hold     *)
(* every live entry of a running node, except the ones that a mutation     *)
(* logged before a snapshot and applied after it has put there, provided   *)
(* no write is torn.  Second, with torn writes too: no crash and no        *)
(* restart brings an older Set of a key back.                              *)
(***************************************************************************)
EXTENDS StoreSafetyProofs

USE DEF memory, thread, reaper, snapper, disk, history

\* No piece of the log w is torn.
FullLog(w) == \A i \in DOMAIN w : w[i].frag = "full"
Untorn == FullLog(wal)

\* A whole set record of the log w makes the entry e for k.
LoggedIn(w, k, e) ==
    \E i \in DOMAIN w : w[i].frag = "full" /\ w[i].rec.key = k /\ Makes(w[i].rec, e)

KeptIn(w, s, k, e) == s[k] = e \/ LoggedIn(w, k, e)

\* The inductive invariant.  A thread that is about to apply a Set finds its
\* record in the log unless a snapshot has cut it off; what recovery has put in
\* the map so far comes from the disk; from the dump on, when all shards are
\* locked, the temporary file and then the snapshot hold every live entry, so
\* that truncating the log loses nothing.
DInv ==
    /\ \A t \in Threads : (pc[t] = "apply" /\ t \notin straddled /\ req[t].type = "set")
                             => LoggedIn(wal, req[t].key, EntryOf(req[t]))
    /\ mode = "replay" => \A k \in Keys : db[k] # Nil => KeptIn(wal, snap, k, db[k])
    /\ snapPc = "rename" => \A k \in Keys : Live(db[k], now) => tmp[k] = db[k]
    /\ snapPc = "truncate" => \A k \in Keys : Live(db[k], now) => snap[k] = db[k]
    /\ Running => \A k \in Keys \ unlogged :
                     Live(db[k], now) => KeptIn(wal, snap, k, db[k])

\* An entry that is live was live before.
LEMMA LiveEarlier ==
    ASSUME NEW e \in Entry \cup {Nil}, NEW t1 \in Nat, NEW t2 \in Nat, t1 <= t2,
           Live(e, t2)
    PROVE  Live(e, t1)
BY DEF Live, Entry

\* A set record makes its own entry, and the one with the TTL started anew.
LEMMA RecordMakes ==
    ASSUME NEW r \in Request, r.type = "set"
    PROVE  /\ Makes(r, EntryOf(r))
           /\ \A d \in Nat : Makes(r, EntryOf(Restarted(r, d)))
<1>1. Makes(r, EntryOf(r))
  BY Zenon DEF Makes, EntryOf
<1>2. ASSUME NEW d \in Nat PROVE Makes(r, EntryOf(Restarted(r, d)))
  <2> DEFINE e == EntryOf(Restarted(r, d))
  <2>1. /\ e.val = r.val /\ e.ver = r.ver
        /\ e.exp = IF r.exp = 0 THEN 0 ELSE r.exp + d
    BY RestartedType, Zenon DEF EntryOf
  <2>2. r.exp \in Nat
    BY Zenon DEF Request
  <2> HIDE DEF e
  <2>3. r.exp = e.exp \/ (0 < r.exp /\ r.exp < e.exp)
    BY <2>1, <2>2
  <2> QED
    BY <2>1, <2>3, Zenon DEF Makes, e
<1> QED
  BY <1>1, <1>2, Zenon

\* Appending keeps what the log holds and adds the record.
LEMMA LogGrows ==
    ASSUME NEW w \in Seq(Piece), NEW r \in Request,
           NEW f \in {"none", "hdr", "body", "full"}
    PROVE  /\ (FullLog(w) /\ f \in {"none", "full"}) => FullLog(w \o Written(r, f))
           /\ \A k \in Keys, e \in Entry :
                 LoggedIn(w, k, e) => LoggedIn(w \o Written(r, f), k, e)
           /\ (f = "full" /\ r.type = "set")
                 => LoggedIn(w \o Written(r, f), r.key, EntryOf(r))
<1> DEFINE w2 == w \o Written(r, f)
<1>1. CASE f = "none"
  BY <1>1 DEF Written
<1>2. CASE f # "none"
  <2> DEFINE p == [rec |-> r, frag |-> f]
  <2>1. /\ w2 = w \o <<p>> /\ p \in Piece
        /\ p.rec = r /\ p.frag = f
    BY <1>2, Zenon DEF Written, Piece
  <2> HIDE DEF p, w2
  <2>2. /\ DOMAIN w = 1 .. Len(w) /\ Len(w) \in Nat
        /\ DOMAIN w2 = 1 .. (Len(w) + 1)
        /\ \A i \in 1 .. Len(w) : w2[i] = w[i]
        /\ w2[Len(w) + 1] = p
    BY <2>1
  <2>3. FullLog(w) /\ f \in {"none", "full"} => FullLog(w2)
    BY <1>2, <2>1, <2>2 DEF FullLog
  <2>4. \A k \in Keys, e \in Entry : LoggedIn(w, k, e) => LoggedIn(w2, k, e)
    BY <2>2 DEF LoggedIn
  <2>5. f = "full" /\ r.type = "set" => LoggedIn(w2, r.key, EntryOf(r))
    BY <2>1, <2>2, RecordMakes DEF LoggedIn
  <2> QED
    BY <2>3, <2>4, <2>5, Zenon DEF w2
<1> QED
  BY <1>1, <1>2, Zenon

\* Steps outside recovery that leave the snapshot file alone and do not shorten
\* the log: what they put in the map is on disk or listed as unlogged.
LEMMA DFrame ==
    ASSUME SInv, SInv', DInv, snap' = snap, mode' # "replay",
           \A k \in Keys, e \in Entry : LoggedIn(wal, k, e) => LoggedIn(wal', k, e),
           \A u \in Threads : (pc'[u] = "apply" /\ u \notin straddled') =>
              \/ pc[u] = "apply" /\ u \notin straddled /\ req'[u] = req[u]
              \/ req'[u].type = "set" => LoggedIn(wal', req'[u].key, EntryOf(req'[u])),
           snapPc' \in {"rename", "truncate"} =>
              /\ snapPc' = snapPc /\ tmp' = tmp
              /\ \A k \in Keys : db'[k] \in {db[k], Nil},
           Running' => Running /\ now' >= now,
           Running' => \A k \in Keys \ unlogged' :
              \/ db'[k] = Nil
              \/ db'[k] = db[k] /\ k \notin unlogged
              \/ KeptIn(wal', snap', k, db'[k])
    PROVE  DInv'
<1>1. /\ now \in Nat /\ now' \in Nat
      /\ db \in [Keys -> Entry \cup {Nil}] /\ db' \in [Keys -> Entry \cup {Nil}]
      /\ req' \in [Threads -> Request \cup {Nil}]
      /\ \A u \in Threads : pc'[u] = "apply" => req'[u] \in Request
  BY Zenon DEF SInv, TInv, TypeOK
<1>2. \A t \in Threads : (pc'[t] = "apply" /\ t \notin straddled' /\ req'[t].type = "set")
                            => LoggedIn(wal', req'[t].key, EntryOf(req'[t]))
  <2> SUFFICES ASSUME NEW t \in Threads, pc'[t] = "apply", t \notin straddled',
                      req'[t].type = "set"
               PROVE  LoggedIn(wal', req'[t].key, EntryOf(req'[t]))
    OBVIOUS
  <2>1. req'[t].key \in Keys /\ EntryOf(req'[t]) \in Entry
    BY <1>1, EntryOfType, Zenon DEF Request
  <2> QED
    BY <2>1, Zenon DEF DInv
<1>3. snapPc' \in {"rename", "truncate"} => Running'
  BY Zenon DEF SInv, QuietInv
<1>4. snapPc' = "rename" => \A k \in Keys : Live(db'[k], now') => tmp'[k] = db'[k]
  BY <1>1, <1>3, LiveEarlier, Zenon DEF DInv, Live
<1>5. snapPc' = "truncate" => \A k \in Keys : Live(db'[k], now') => snap'[k] = db'[k]
  BY <1>1, <1>3, LiveEarlier, Zenon DEF DInv, Live
<1>6. Running' => \A k \in Keys \ unlogged' :
                     Live(db'[k], now') => KeptIn(wal', snap', k, db'[k])
  <2> SUFFICES ASSUME Running', NEW k \in Keys \ unlogged', Live(db'[k], now')
               PROVE  KeptIn(wal', snap', k, db'[k])
    OBVIOUS
  <2>1. CASE db'[k] = db[k] /\ k \notin unlogged
    <3>1. Live(db[k], now) /\ db[k] \in Entry
      BY <2>1, <1>1, LiveEarlier, Zenon DEF Live
    <3>2. KeptIn(wal, snap, k, db[k])
      BY <3>1, <2>1, Zenon DEF DInv
    <3> QED
      BY <3>1, <3>2, <2>1, Zenon DEF KeptIn
  <2> QED
    BY <2>1, Zenon DEF Live
<1> QED
  BY <1>2, <1>4, <1>5, <1>6, Zenon DEF DInv

\* A call that begins changes its own thread only, and has nothing to apply yet.
LEMMA BeginShape ==
    ASSUME SInv, NEW t \in Threads, NEW r, Begin(t, r)
    PROVE  /\ pc' = [pc EXCEPT ![t] = pc'[t]] /\ pc'[t] # "apply"
           /\ \A u \in Threads : u # t => req'[u] = req[u]
BY Zenon DEF Begin, Go, SInv, TInv, TypeOK

\* The steps of a thread that touch neither the log nor the map.
LEMMA QuietThreadDurable ==
    ASSUME SInv, SInv', DInv, NEW t \in Threads,
           \/ BeginSet(t) \/ BeginDelete(t) \/ BeginGet(t) \/ NextVersion(t)
           \/ GetCheck(t)
    PROVE  DInv'
<1>1. /\ UNCHANGED <<now, mode, db, wal, snap, snapPc, tmp, straddled, unlogged>>
      /\ Running
  BY DEF BeginSet, BeginDelete, Begin, BeginGet, NextVersion, GetCheck, Running, Modes
<1>2. /\ pc' = [pc EXCEPT ![t] = pc'[t]] /\ pc'[t] # "apply"
      /\ \A u \in Threads : u # t => req'[u] = req[u]
  <2>1. CASE BeginSet(t) \/ BeginDelete(t)
    BY <2>1, BeginShape, Zenon DEF BeginSet, BeginDelete
  <2>2. CASE BeginGet(t)
    BY <2>2, Zenon DEF BeginGet, Go, SInv, TInv, TypeOK
  <2>3. CASE NextVersion(t)
    BY <2>3, Zenon DEF NextVersion, Go, SInv, TInv, TypeOK
  <2>4. CASE GetCheck(t)
    BY <2>4 DEF GetCheck, Go, Return, SInv, TInv, TypeOK
  <2> QED
    BY <2>1, <2>2, <2>3, <2>4, Zenon
<1>4. \A u \in Threads : pc'[u] = "apply" => pc[u] = "apply" /\ req'[u] = req[u]
  BY <1>2, Zenon DEF SInv, TInv, TypeOK
<1>5. now' >= now /\ mode' # "replay"
  BY <1>1 DEF SInv, TInv, TypeOK, Running
<1> QED
  BY <1>1, <1>4, <1>5, DFrame, Zenon

\* WAL.Append keeps DInv: the record of the thread is in the log.
LEMMA AppendDurable ==
    ASSUME SInv, SInv', DInv, NEW t \in Threads, WALAppend(t) \/ WALAppendFails(t)
    PROVE  DInv'
<1>1. /\ UNCHANGED <<now, mode, db, snap, snapPc, tmp, straddled, unlogged>>
      /\ Running /\ req[t] \in Request /\ wal \in Seq(Piece)
  BY Zenon DEF WALAppend, WALAppendFails, SInv, TInv, TypeOK
<1>2. now' >= now /\ mode' # "replay"
  BY <1>1 DEF SInv, TInv, TypeOK, Running
<1>3. CASE WALAppend(t)
  <2>1. /\ wal' = wal \o Written(req[t], "full") /\ req' = req
        /\ pc' = [pc EXCEPT ![t] = "apply"]
    BY <1>3, Zenon DEF WALAppend, Go
  <2>2. /\ \A k \in Keys, e \in Entry : LoggedIn(wal, k, e) => LoggedIn(wal', k, e)
        /\ req[t].type = "set" => LoggedIn(wal', req[t].key, EntryOf(req[t]))
    BY <1>1, <2>1, LogGrows, Zenon
  <2>3. \A u \in Threads : u # t => pc'[u] = pc[u]
    BY <2>1, Zenon DEF SInv, TInv, TypeOK
  <2>4. \A u \in Threads : (pc'[u] = "apply" /\ u \notin straddled') =>
           \/ pc[u] = "apply" /\ u \notin straddled /\ req'[u] = req[u]
           \/ req'[u].type = "set" => LoggedIn(wal', req'[u].key, EntryOf(req'[u]))
    BY <1>1, <2>1, <2>2, <2>3, Zenon
  <2> QED
    BY <1>1, <1>2, <2>2, <2>4, DFrame, Zenon
<1>4. CASE WALAppendFails(t)
  <2>1. PICK f \in Tails : wal' = wal \o Written(req[t], f)
    BY <1>4, Zenon DEF WALAppendFails
  <2>2. f \in {"none", "hdr", "body", "full"}
    BY SwitchAssumption
  <2>5. \A k \in Keys, e \in Entry : LoggedIn(wal, k, e) => LoggedIn(wal', k, e)
    BY <1>1, <2>1, <2>2, LogGrows, Zenon
  <2>3. pc' = [pc EXCEPT ![t] = "idle"] /\ req' = [req EXCEPT ![t] = Nil]
    BY <1>4, Zenon DEF WALAppendFails, Return, Go
  <2>4. \A u \in Threads : pc'[u] = "apply" => pc[u] = "apply" /\ req'[u] = req[u]
    BY <2>3, Zenon DEF SInv, TInv, TypeOK
  <2> QED
    BY <1>1, <1>2, <2>4, <2>5, DFrame, Zenon
<1> QED
  BY <1>3, <1>4, Zenon

\* A shard that can be locked is not held, so no snapshot has been dumped.
LEMMA FreeShardNoDump ==
    ASSUME SInv, NEW i \in Shards, ShardFree(i)
    PROVE  snapPc \notin {"dump", "rename", "truncate"}
BY ShardFacts DEF SInv, TInv, LockInv, ShardFree, Shards

\* The map update of Set and Delete keeps DInv.
LEMMA ApplyDurable ==
    ASSUME SInv, SInv', DInv, NEW t \in Threads, Apply(t)
    PROVE  DInv'
<1> DEFINE r == req[t]
<1>1. /\ UNCHANGED <<now, mode, wal, snap, snapPc, tmp>> /\ Running
      /\ pc[t] = "apply" /\ r \in Request /\ r.key \in Keys
      /\ r.type \in {"set", "del"}
  BY Zenon DEF Apply, SInv, TInv, TypeOK, CallInv, Request
<1>2. now' >= now /\ mode' # "replay"
  BY <1>1 DEF SInv, TInv, TypeOK, Running
<1>3. snapPc' \notin {"rename", "truncate"}
  BY <1>1, ShardFacts, FreeShardNoDump, Zenon DEF Apply
<1>4. \A u \in Threads : pc'[u] = "apply" /\ u \notin straddled'
                            => pc[u] = "apply" /\ u \notin straddled /\ req'[u] = req[u]
  BY Zenon DEF Apply, Return, Go, SInv, TInv, TypeOK
<1>5. \A k \in Keys : k # r.key => db'[k] = db[k]
  BY <1>1, Zenon DEF Apply, ApplyRecord, ApplySet, ApplyDelete, SInv, TInv, TypeOK
<1>6. \/ db'[r.key] = Nil \/ db' = db
      \/ r.type = "set" /\ db'[r.key] = EntryOf(r)
  BY <1>1 DEF Apply, ApplyRecord, ApplySet, ApplyDelete, SInv, TInv, TypeOK
<1>7. unlogged' = IF db' = db THEN unlogged
                  ELSE IF t \in straddled THEN unlogged \cup {r.key}
                  ELSE unlogged \ {r.key}
  BY Zenon DEF Apply
<1>8. \A k \in Keys \ unlogged' : \/ db'[k] = Nil
                                  \/ db'[k] = db[k] /\ k \notin unlogged
                                  \/ KeptIn(wal', snap', k, db'[k])
  <2> SUFFICES ASSUME NEW k \in Keys \ unlogged', db'[k] # Nil,
                      ~(db'[k] = db[k] /\ k \notin unlogged)
               PROVE  KeptIn(wal', snap', k, db'[k])
    OBVIOUS
  <2>1. db' # db /\ t \notin straddled /\ k = r.key
    BY <1>5, <1>7, Zenon
  <2>2. r.type = "set" /\ db'[k] = EntryOf(r)
    BY <1>6, <2>1, Zenon
  <2>3. LoggedIn(wal, r.key, EntryOf(r))
    BY <1>1, <2>1, <2>2, Zenon DEF DInv
  <2> QED
    BY <1>1, <2>1, <2>2, <2>3, Zenon DEF KeptIn
<1> QED
  BY <1>1, <1>2, <1>3, <1>4, <1>8, DFrame, Zenon

\* Reaping, lazy or by the reaper, keeps DInv: it only removes entries.
LEMMA ReapDurable ==
    ASSUME SInv, SInv', DInv,
           ReapStart \/ ReapShard \/ \E t \in Threads : LazyReap(t)
    PROVE  DInv'
<1>1. /\ UNCHANGED <<now, mode, wal, snap, snapPc, tmp, straddled, unlogged>>
      /\ Running
  BY Zenon DEF ReapStart, ReapShard, LazyReap
<1>2. now' >= now /\ mode' # "replay"
  BY <1>1 DEF SInv, TInv, TypeOK, Running
<1>3. \A k \in Keys : db'[k] \in {db[k], Nil}
  BY SMTT(30) DEF ReapStart, ReapShard, LazyReap, SInv, TInv, TypeOK
<1>4. \A u \in Threads : pc'[u] = "apply" => pc[u] = "apply" /\ req'[u] = req[u]
  <2>1. CASE ReapStart \/ ReapShard
    BY <2>1, Zenon DEF ReapStart, ReapShard
  <2>2. ASSUME NEW t \in Threads, LazyReap(t)
        PROVE  pc' = [pc EXCEPT ![t] = "idle"] /\ req' = [req EXCEPT ![t] = Nil]
    BY <2>2, Zenon DEF LazyReap, Return, Go
  <2> QED
    BY <2>1, <2>2 DEF SInv, TInv, TypeOK
<1> QED
  BY <1>1, <1>2, <1>3, <1>4, DFrame, Zenon

\* Every step of CreateSnapshot, and its failure, keeps DInv.
LEMMA SnapDurable ==
    ASSUME SInv, SInv', DInv, SnapStep
    PROVE  DInv'
<1>1. /\ UNCHANGED <<now, db, pc, req>> /\ Running /\ Running' /\ mode' # "replay"
      /\ now' >= now /\ db \in [Keys -> Entry \cup {Nil}]
  <2>1. UNCHANGED <<now, db, pc, req>>
    BY ZenonT(30) DEF SnapStep, CompactorSnapshot, FinalSnapshot, SnapLockWAL, SnapLockShard,
                SnapDump, SnapRename, SnapTruncate, SnapFail
  <2>2. Running /\ Running' /\ mode' # "replay"
    <3>1. Running \/ mode = "final"
      BY Zenon DEF SnapStep, CompactorSnapshot, FinalSnapshot, SnapLockShard,
                   SnapDump, SnapRename, SnapTruncate, SnapFail
    <3>2. mode' = mode \/ mode' \in {"finalsnap", "closing"}
      BY Zenon DEF SnapStep, CompactorSnapshot, FinalSnapshot, SnapLockShard,
                   SnapDump, SnapRename, SnapTruncate, SnapFail, AfterSnapshot
    <3>3. QED
      BY <3>1, <3>2 DEF Running, Modes
  <2>3. now \in Nat /\ db \in [Keys -> Entry \cup {Nil}]
    BY Zenon DEF SInv, TInv, TypeOK
  <2>4. QED
    BY <2>1, <2>2, <2>3
<1>2. CASE CompactorSnapshot \/ FinalSnapshot \/ SnapLockShard \/ SnapFail
  <2>1. UNCHANGED <<wal, snap, straddled, unlogged>> /\ snapPc' \in {"idle", "lock", "dump"}
    BY <1>2, Zenon DEF CompactorSnapshot, FinalSnapshot, SnapLockWAL, SnapLockShard,
                SnapFail, Unlock
  <2> QED
    BY <1>1, <2>1, DFrame, Zenon
<1>3. CASE SnapDump
  <2>1. /\ UNCHANGED <<wal, snap, straddled, unlogged, mode>> /\ snapPc' = "rename"
        /\ tmp' = [k \in Keys |-> IF db[k] # Nil /\ ~IsExpired(db[k], now)
                                  THEN db[k] ELSE Nil]
    BY <1>3, Zenon DEF SnapDump
  <2>2. \A k \in Keys : Live(db[k], now) => tmp'[k] = db[k]
    BY <1>1, <2>1, SMTT(30) DEF Live, IsExpired, SInv, TInv, TypeOK, Entry
  <2> QED
    BY <1>1, <2>1, <2>2, Zenon DEF DInv, Running
<1>4. CASE SnapRename
  <2>1. /\ UNCHANGED <<wal, straddled, mode>> /\ snapPc = "rename"
        /\ snapPc' = "truncate" /\ snap' = tmp /\ unlogged' = {}
    BY <1>4, Zenon DEF SnapRename
  <2>2. \A k \in Keys : Live(db[k], now) => snap'[k] = db[k]
    BY <2>1, Zenon DEF DInv
  <2> QED
    BY <1>1, <2>1, <2>2, Zenon DEF DInv, Running, KeptIn
<1>5. CASE SnapTruncate
  <2>1. /\ snap' = snap /\ snapPc = "truncate" /\ snapPc' = "idle" /\ wal' = <<>>
        /\ straddled' = {t \in Threads : pc[t] = "apply"}
    BY <1>5, Zenon DEF SnapTruncate, Unlock
  <2>2. \A k \in Keys : Live(db[k], now) => KeptIn(wal', snap', k, db[k])
    BY <2>1, Zenon DEF DInv, KeptIn
  <2> QED
    BY <1>1, <2>1, <2>2, Zenon DEF DInv
<1> QED
  BY <1>2, <1>3, <1>4, <1>5, Zenon DEF SnapStep

\* The end of the process establishes DInv, whatever is on disk.
LEMMA VanishDurable == ASSUME Vanish PROVE DInv'
BY Zenon DEF Vanish, Unlock, DInv, Running

\* LoadSnapshot and Replay keep DInv: what they load is on disk.
LEMMA RecoveryDurable ==
    ASSUME SInv, SInv', DInv, LoadSnapshot \/ ReplayRecord \/ ReplayDone
    PROVE  DInv'
<1>1. /\ UNCHANGED <<pc, req, snapPc, tmp, wal, snap, straddled, unlogged>>
      /\ snapPc = "idle"
      /\ \A u \in Threads : pc[u] = "idle"
  BY Zenon DEF LoadSnapshot, ReplayRecord, ReplayDone, SInv, QuietInv, Running
<1>2. CASE LoadSnapshot
  BY <1>1, <1>2, Zenon DEF LoadSnapshot, DInv, KeptIn, Running
<1>3. CASE ReplayRecord
  <2> DEFINE r == wal[replayPos].rec
  <2>1. r \in Request /\ r.key \in Keys
    BY <1>3, ReplayedType, Zenon DEF SInv, Request
  <2>2. /\ mode = "replay" /\ mode' = "replay" /\ replayPos <= Len(wal)
        /\ wal[replayPos].frag = "full"
    BY <1>3, Zenon DEF ReplayRecord
  <2>3. /\ wal \in Seq(Piece) /\ replayPos \in Nat \ {0}
        /\ db \in [Keys -> Entry \cup {Nil}]
    BY Zenon DEF SInv, TInv, TypeOK
  <2>4. replayPos \in DOMAIN wal
    BY <2>2, <2>3
  <2> HIDE DEF r
  <2>5. \/ db' = db
        \/ \E d \in Nat : r.type = "set" /\ db' = [db EXCEPT ![r.key] = EntryOf(Restarted(r, d))]
        \/ db' = [db EXCEPT ![r.key] = Nil]
    <3>1. db' = db \/ \E d \in Nat : ApplyRecord(Restarted(r, d))
      BY <1>3, ReplayedStep, Zenon DEF SInv, r
    <3>2. \A d \in Nat : Restarted(r, d).type = r.type /\ Restarted(r, d).key = r.key
      BY <2>1, RestartedType, Zenon
    <3> QED
      BY <3>1, <3>2, Zenon DEF ApplyRecord, ApplySet, ApplyDelete
  <2>6. \A d \in Nat : r.type = "set" => LoggedIn(wal, r.key, EntryOf(Restarted(r, d)))
    BY <2>1, <2>2, <2>4, RecordMakes, Zenon DEF LoggedIn, r
  <2>7. \A k \in Keys : db'[k] # Nil => KeptIn(wal, snap, k, db'[k])
    BY <2>1, <2>2, <2>3, <2>5, <2>6, Zenon DEF DInv, KeptIn
  <2> QED
    BY <1>1, <2>2, <2>7, Zenon DEF DInv, Running
<1>4. CASE ReplayDone
  <2>1. mode = "replay" /\ mode' = "up" /\ db' = db
    BY <1>4, Zenon DEF ReplayDone
  <2> QED
    BY <1>1, <2>1, Zenon DEF DInv, Running, Live
<1> QED
  BY <1>2, <1>3, <1>4, Zenon

\* The steps of start-up and shutdown, and the clock, keep DInv.
LEMMA LifeCycleDurable ==
    ASSUME SInv, SInv', DInv, LifeCycleStep
    PROVE  DInv'
<1>1. CASE Shutdown \/ Drained \/ DrainTimeout \/ StopReaper
  <2>1. /\ UNCHANGED <<now, db, pc, req, snapPc, tmp, wal, snap, straddled, unlogged>>
        /\ Running /\ mode' # "replay"
    BY <1>1, Zenon DEF Shutdown, Drained, DrainTimeout, StopReaper, Running, Modes
  <2>2. now' >= now
    BY <2>1 DEF SInv, TInv, TypeOK
  <2> QED
    BY <2>1, <2>2, DFrame, Zenon
<1>2. CASE Exit \/ ReplayFatal \/ Crash
  BY <1>2, VanishDurable, Zenon DEF Exit, ReplayFatal, Crash
<1>4. CASE Start
  <2>1. /\ UNCHANGED <<pc, snapPc, wal>> /\ mode' = "load" /\ snapPc = "idle"
        /\ \A u \in Threads : pc[u] = "idle"
    BY <1>4, Zenon DEF Start, SInv, QuietInv, Running
  <2> QED
    BY <2>1, Zenon DEF DInv, Running
<1> QED
  BY <1>1, <1>2, <1>4, RecoveryDurable, Zenon DEF LifeCycleStep

\* DInv holds when the node is first started.
LEMMA DInvInit == Init => DInv
BY DEF Init, DInv, Running

\* DInv is inductive.
LEMMA DNext ==
    ASSUME SInv, SInv', DInv, [Next]_vars
    PROVE  DInv'
<1>1. ASSUME NEW t \in Threads, ThreadStep(t) PROVE DInv'
  BY <1>1, QuietThreadDurable, AppendDurable, ApplyDurable, ReapDurable, Zenon
  DEF ThreadStep
<1>2. CASE Tick
  <2>1. /\ UNCHANGED <<mode, db, pc, req, snapPc, tmp, wal, snap, straddled, unlogged>>
        /\ now' = now + 1 /\ now \in Nat
    BY <1>2, Zenon DEF Tick, SInv, TInv, TypeOK
  <2>2. now' >= now
    BY <2>1
  <2>3. CASE mode = "replay"
    <3>1. snapPc = "idle" /\ \A u \in Threads : pc[u] = "idle"
      BY <2>3, Zenon DEF SInv, QuietInv, Running
    <3> QED
      BY <2>1, <2>2, <2>3, <3>1, Zenon DEF DInv, Running
  <2>4. CASE mode # "replay"
    <3>1. Running' => Running
      BY <2>1, Zenon DEF Running
    <3> QED
      BY <2>1, <2>2, <2>4, <3>1, DFrame, Zenon
  <2> QED
    BY <2>3, <2>4, Zenon
<1>3. CASE UNCHANGED vars
  BY <1>3, Zenon DEF vars, DInv, Running
<1> QED
  BY <1>1, <1>2, <1>3, ReapDurable, SnapDurable, LifeCycleDurable DEF Next

\* When no write is torn, every piece of the log is a whole record.
LEMMA FullLogNext ==
    ASSUME Tails \subseteq {"none", "full"}, SInv, Untorn, [Next]_vars
    PROVE  Untorn'
<1>1. wal \in Seq(Piece)
  BY Zenon DEF SInv, TInv, TypeOK
<1>2. ASSUME NEW t \in Threads, pc[t] = "append", NEW f \in {"none", "full"},
             wal' = wal \o Written(req[t], f)
      PROVE  Untorn'
  <2>1. req[t] \in Request
    BY <1>2, Zenon DEF SInv, TInv, TypeOK
  <2> QED
    BY <1>1, <1>2, <2>1, LogGrows, Zenon DEF Untorn
<1>3. CASE wal' = wal
  BY <1>3, Zenon DEF Untorn
<1>4. CASE wal' = <<>>
  BY <1>4 DEF Untorn, FullLog
<1>5. \/ wal' \in {wal, <<>>}
      \/ \E t \in Threads, f \in {"none", "full"} :
            pc[t] = "append" /\ wal' = wal \o Written(req[t], f)
  <2>1. ASSUME NEW t \in Threads, ThreadStep(t)
        PROVE  \/ wal' = wal
               \/ \E f \in {"none", "full"} :
                     pc[t] = "append" /\ wal' = wal \o Written(req[t], f)
    BY <2>1, Zenon DEF ThreadStep, BeginSet, BeginDelete, Begin, BeginGet, NextVersion,
          WALAppend, WALAppendFails, Apply, GetCheck, LazyReap
  <2>2. CASE SnapStep
    BY <2>2, Zenon DEF SnapStep, CompactorSnapshot, FinalSnapshot, SnapLockWAL,
          SnapLockShard, SnapDump, SnapRename, SnapTruncate, SnapFail
  <2>3. CASE LifeCycleStep
    BY <2>3, Zenon DEF LifeCycleStep, Shutdown, Drained, DrainTimeout, StopReaper, Exit,
          Crash, Start, LoadSnapshot, ReplayRecord, ReplayDone, ReplayFatal
  <2>4. CASE ReapStart \/ ReapShard \/ Tick \/ UNCHANGED vars
    BY <2>4, Zenon DEF ReapStart, ReapShard, Tick, vars
  <2> QED
    BY <2>1, <2>2, <2>3, <2>4, Zenon DEF Next
<1> QED
  BY <1>2, <1>3, <1>4, <1>5, Zenon

\* When a write either reaches the file whole or not at all, every live entry of
\* a running node is in the snapshot or in the WAL: at every step of a snapshot,
\* after a failed one, and after any number of crashes.  Only entries that a Set
\* logged before a snapshot and applied after it are excepted.
THEOREM LiveEntriesDurable ==
    ASSUME Tails \subseteq {"none", "full"} PROVE Spec => []Durable
<1>1. Init => SInv /\ DInv /\ Untorn
  BY DInvInit, SInvInit DEF Init, Untorn, FullLog
<1>2. SInv /\ DInv /\ Untorn /\ [Next]_vars => SInv' /\ DInv' /\ Untorn'
  BY SInvNext, DNext, FullLogNext, Zenon
<1>3. SInv /\ DInv /\ Untorn => Durable
  <2> SUFFICES ASSUME SInv, DInv, Untorn, Running,
                      NEW k \in Keys \ unlogged, Live(db[k], now)
               PROVE  OnDisk(k, db[k])
    BY Zenon DEF Durable
  <2>1. wal \in Seq(Piece) /\ KeptIn(wal, snap, k, db[k])
    BY Zenon DEF SInv, TInv, TypeOK, DInv
  <2>2. \A i \in DOMAIN wal : Readable(i)
    BY <2>1 DEF Readable, Untorn, FullLog
  <2> QED
    BY <2>1, <2>2, Zenon DEF KeptIn, LoggedIn, OnDisk
<1> QED
  BY <1>1, <1>2, <1>3, PTL DEF Spec

------------------------------------------------------------------------------
(***************************************************************************)
(* The last write wins across crashes, restarts, failed and torn writes    *)
(* and snapshots, for Sets without a TTL.  Deletes leave no version behind *)
(* and an expired record is not replayed; with them an older Set can come  *)
(* back, which the code accepts.                                           *)
(***************************************************************************)

\* The entry e is there and its version is at least v.
Holds(e, v) == e # Nil /\ e.ver >= v

\* From position p on, the log w has a whole record of k with a version of at
\* least v.
RecordFrom(w, p, k, v) ==
    \E i \in DOMAIN w : /\ i >= p /\ w[i].frag = "full"
                        /\ w[i].rec.key = k /\ w[i].rec.ver >= v

Stored(w, s, k, v) == Holds(s[k], v) \/ RecordFrom(w, 1, k, v)

Lasts(m) == \A k \in Keys : m[k] # Nil => m[k].exp = 0

PlainLog(w) == \A i \in DOMAIN w : w[i].rec.type = "set" /\ w[i].rec.exp = 0

Extends(w, w2) == DOMAIN w \subseteq DOMAIN w2 /\ \A i \in DOMAIN w : w2[i] = w[i]

\* Nothing but Sets without a TTL is under way, logged or in a map.
Plain ==
    /\ \A t \in Threads : pc[t] \in {"version", "append", "apply"}
                             => req[t].type = "set" /\ req[t].exp = 0
    /\ PlainLog(wal) /\ Lasts(db) /\ Lasts(tmp) /\ Lasts(snap)

\* The inductive invariant.  While the process is gone the highest version is on
\* disk; while Replay runs it is in the map already or still ahead in the log.
NewestInv ==
    /\ Running => \A k \in Keys : newest[k] # Nil => Holds(db[k], newest[k].ver)
    /\ ~Running => \A k \in Keys : newest[k] # Nil => Stored(wal, snap, k, newest[k].ver)
    /\ mode \in {"down", "load"} => replayPos = 1
    /\ mode = "replay" => \A k \in Keys : newest[k] # Nil =>
          \/ Holds(db[k], newest[k].ver)
          \/ RecordFrom(wal, replayPos, k, newest[k].ver)

NInv == SInv /\ DInv /\ Plain /\ NewestInv

------------------------------------------------------------------------------
(* Only Sets without a TTL.                                                  *)

\* Appending a record of a Set without a TTL, whole or in part.
LEMMA PlainLogGrows ==
    ASSUME NEW w \in Seq(Piece), NEW r \in Request, r.type = "set", r.exp = 0,
           PlainLog(w), NEW f \in {"none", "hdr", "body", "full"}
    PROVE  PlainLog(w \o Written(r, f)) /\ Extends(w, w \o Written(r, f))
<1> DEFINE w2 == w \o Written(r, f)
<1>1. CASE f = "none"
  BY <1>1 DEF Written, Extends
<1>2. CASE f # "none"
  <2>1. PICK p \in Piece : p.rec = r /\ w2 = w \o <<p>>
    BY <1>2, Zenon DEF Written, Piece
  <2> HIDE DEF w2
  <2>2. /\ DOMAIN w = 1 .. Len(w) /\ Len(w) \in Nat
        /\ DOMAIN w2 = 1 .. (Len(w) + 1)
        /\ \A i \in 1 .. Len(w) : w2[i] = w[i]
        /\ w2[Len(w) + 1] = p
    BY <2>1
  <2>3. \A i \in DOMAIN w2 : i \in DOMAIN w \/ w2[i] = p
    BY <2>2
  <2>4. DOMAIN w \subseteq DOMAIN w2
    BY <2>2
  <2> QED
    BY <2>1, <2>2, <2>3, <2>4, Zenon DEF PlainLog, Extends, w2
<1> QED
  BY <1>1, <1>2, Zenon

\* What a step appends to the log, if it appends.
Appends ==
    \E t \in Threads, f \in {"none", "hdr", "body", "full"} :
       pc[t] = "append" /\ wal' = wal \o Written(req[t], f)

\* The log after an append: still plain, and what was in it stays in place.
LEMMA AppendsPlain ==
    ASSUME SInv, Plain, Appends
    PROVE  PlainLog(wal') /\ Extends(wal, wal')
<1>1. PICK t \in Threads, f \in {"none", "hdr", "body", "full"} :
         pc[t] = "append" /\ wal' = wal \o Written(req[t], f)
  BY Zenon DEF Appends
<1>2. /\ wal \in Seq(Piece) /\ req[t] \in Request
      /\ req[t].type = "set" /\ req[t].exp = 0 /\ PlainLog(wal)
  BY <1>1, Zenon DEF SInv, TInv, TypeOK, Plain
<1> QED
  BY <1>1, <1>2, PlainLogGrows, Zenon

\* A call that begins is a Get or a Set without a TTL.
LEMMA BeginPlain ==
    ASSUME "del" \notin Calls, TTLs \subseteq {0}, SInv, Plain, NEW t \in Threads,
           BeginSet(t) \/ BeginDelete(t) \/ BeginGet(t) \/ NextVersion(t)
    PROVE  Plain'
<1>1. UNCHANGED <<wal, db, tmp, snap>>
  BY DEF BeginSet, BeginDelete, Begin, BeginGet, NextVersion
<1>2. CASE BeginSet(t)
  <2>1. PICK k \in Keys, v \in Values, ttl \in TTLs, ver \in Versions :
          Begin(t, [type |-> "set", key |-> k, val |-> v, ver |-> ver,
                    exp |-> IF ttl > 0 THEN now + ttl ELSE 0])
    BY <1>2, Zenon DEF BeginSet
  <2>2. PICK r : r = [type |-> "set", key |-> k, val |-> v, ver |-> ver,
                      exp |-> IF ttl > 0 THEN now + ttl ELSE 0]
    OBVIOUS
  <2>3. r.type = "set" /\ r.exp = 0
    BY <2>2
  <2>4. req' = [req EXCEPT ![t] = r] /\ \A u \in Threads \ {t} : pc'[u] = pc[u]
    BY <2>1, <2>2, Zenon DEF Begin, Go, SInv, TInv, TypeOK
  <2> QED
    BY <1>1, <2>3, <2>4, Zenon DEF Plain, SInv, TInv, TypeOK
<1>3. CASE BeginDelete(t)
  <2>1. PICK k \in Keys, ver \in Versions :
          Begin(t, [type |-> "del", key |-> k, val |-> Nil, ver |-> ver, exp |-> 0])
    BY <1>3, Zenon DEF BeginDelete
  <2>2. "del" \in Calls
    BY <2>1 DEF Begin
  <2> QED
    BY <2>2
<1>4. CASE BeginGet(t)
  <2>1. PICK r : req' = [req EXCEPT ![t] = r]
    BY <1>4, Zenon DEF BeginGet
  <2>2. pc' = [pc EXCEPT ![t] = "check"]
    BY <1>4, Zenon DEF BeginGet, Go
  <2> QED
    BY <1>1, <2>1, <2>2, Zenon DEF Plain, SInv, TInv, TypeOK
<1>5. CASE NextVersion(t)
  <2>1. /\ req[t] \in Request /\ req' = [req EXCEPT ![t].ver = lastVersion']
        /\ pc' = [pc EXCEPT ![t] = "append"] /\ pc[t] = "version"
    BY <1>5, Zenon DEF NextVersion, Go, SInv, TInv, TypeOK
  <2>2. \A u \in Threads : req'[u].type = req[u].type /\ req'[u].exp = req[u].exp
    BY <2>1, Zenon DEF SInv, TInv, TypeOK, Request
  <2> QED
    BY <1>1, <2>1, <2>2, Zenon DEF Plain, SInv, TInv, TypeOK
<1> QED
  BY <1>2, <1>3, <1>4, <1>5, Zenon

\* A record of a Set and the map: the map keeps at least the versions it had,
\* and holds the record's version where the record is the newest.
LEMMA Merge ==
    ASSUME db \in [Keys -> Entry \cup {Nil}], newest \in [Keys -> Request \cup {Nil}],
           NEW r \in Request, r.type = "set", ApplyRecord(r),
           newest' = Newest(newest, r)
    PROVE  /\ \A k \in Keys, v \in Nat : Holds(db[k], v) => Holds(db'[k], v)
           /\ \A k \in Keys : \/ newest'[k] = newest[k]
                              \/ k = r.key /\ newest'[k] = r /\ Holds(db'[k], r.ver)
           /\ Holds(db'[r.key], r.ver)
           /\ r.exp = 0 /\ Lasts(db) => Lasts(db')
<1>1. r.key \in Keys /\ r.ver \in Nat /\ EntryOf(r) \in Entry /\ EntryOf(r).ver = r.ver
      /\ EntryOf(r).exp = r.exp /\ EntryOf(r) # Nil
  BY EntryOfType, NilAssumption, Zenon DEF Request, EntryOf
<1>2. IF Wins(r.ver, db[r.key]) THEN db' = [db EXCEPT ![r.key] = EntryOf(r)]
                                ELSE db' = db
  BY Zenon DEF ApplyRecord, ApplySet
<1>3. \A k \in Keys : db'[k] = db[k] \/ (k = r.key /\ db'[k] = EntryOf(r))
  BY <1>1, <1>2, Zenon
<1>4. Holds(db'[r.key], r.ver)
  BY <1>1, <1>2 DEF Holds, Wins, Entry
<1>5. \A v \in Nat : Holds(db[r.key], v) => Holds(db'[r.key], v)
  BY <1>1, <1>2 DEF Holds, Wins, Entry
<1>6. \A k \in Keys : newest'[k] = newest[k] \/ (k = r.key /\ newest'[k] = r)
  BY <1>1, Zenon DEF Newest
<1> QED
  BY <1>1, <1>3, <1>4, <1>5, <1>6, Zenon DEF Lasts

\* Reaping removes nothing when no entry has an expiry.
LEMMA NothingReaped ==
    ASSUME SInv, Plain, ReapShard \/ \E t \in Threads : LazyReap(t)
    PROVE  db' = db
<1>1. \A k \in Keys, x \in Nat : db[k] # Nil => ~IsExpired(db[k], x)
  BY Zenon DEF Plain, Lasts, IsExpired
<1>2. db \in [Keys -> Entry \cup {Nil}] /\ now \in Nat /\ reapAt \in Nat
  BY Zenon DEF SInv, TInv, TypeOK
<1>3. ASSUME NEW t \in Threads, LazyReap(t) PROVE db' = db
  <2>1. req[t].key \in Keys
    BY <1>3, Zenon DEF LazyReap, SInv, TInv, TypeOK, Request
  <2> QED
    BY <1>1, <1>2, <1>3, <2>1, Zenon DEF LazyReap
<1>4. CASE ReapShard
  <2>1. \A k \in Keys : k \notin Expired(reapShard, reapAt)
    BY <1>1, <1>2, Zenon DEF Expired, Present
  <2>2. db' = [k \in Keys |-> IF k \in Expired(reapShard, reapAt) THEN Nil ELSE db[k]]
    BY <1>4, Zenon DEF ReapShard
  <2> QED
    BY <1>2, <2>1, <2>2
<1> QED
  BY <1>3, <1>4, Zenon

\* Steps that begin no call.
LEMMA PlainFrame ==
    ASSUME Plain, PlainLog(wal'), Lasts(db'), Lasts(tmp'), Lasts(snap'),
           \A u \in Threads : pc'[u] \in {"version", "append", "apply"} =>
              pc[u] \in {"version", "append", "apply"} /\ req'[u] = req[u]
    PROVE  Plain'
BY Zenon DEF Plain

\* A step of a call keeps Plain.
LEMMA ThreadPlain ==
    ASSUME "del" \notin Calls, TTLs \subseteq {0}, SInv, Plain,
           NEW t \in Threads, ThreadStep(t)
    PROVE  Plain'
<1>1. CASE BeginSet(t) \/ BeginDelete(t) \/ BeginGet(t) \/ NextVersion(t)
  BY <1>1, BeginPlain, Zenon
<1>2. CASE WALAppend(t) \/ WALAppendFails(t) \/ Apply(t) \/ GetCheck(t) \/ LazyReap(t)
  <2>1. \A u \in Threads : pc'[u] \in {"version", "append", "apply"} =>
           pc[u] \in {"version", "append", "apply"} /\ req'[u] = req[u]
    <3>1. CASE WALAppend(t)
      BY <3>1, Zenon DEF WALAppend, Go, SInv, TInv, TypeOK
    <3>2. CASE GetCheck(t)
      BY <3>2 DEF GetCheck, Go, Return, SInv, TInv, TypeOK
    <3>3. CASE WALAppendFails(t) \/ Apply(t) \/ LazyReap(t)
      <4>1. pc' = [pc EXCEPT ![t] = "idle"] /\ req' = [req EXCEPT ![t] = Nil]
        BY <3>3, Zenon DEF WALAppendFails, Apply, LazyReap, Return, Go
      <4> QED
        BY <4>1, Zenon DEF SInv, TInv, TypeOK
    <3> QED
      BY <1>2, <3>1, <3>2, <3>3, Zenon
  <2>2. UNCHANGED <<tmp, snap>>
    BY <1>2, Zenon DEF WALAppend, WALAppendFails, Apply, GetCheck, LazyReap
  <2>3. PlainLog(wal')
    <3>1. CASE WALAppend(t) \/ WALAppendFails(t)
      <4>1. Appends
        BY <3>1, SwitchAssumption, Zenon DEF WALAppend, WALAppendFails, Appends
      <4> QED
        BY <4>1, AppendsPlain, Zenon
    <3>2. CASE Apply(t) \/ GetCheck(t) \/ LazyReap(t)
      BY <3>2, Zenon DEF Apply, GetCheck, LazyReap, Plain
    <3> QED
      BY <1>2, <3>1, <3>2, Zenon
  <2>4. Lasts(db')
    <3>1. CASE Apply(t)
      <4>1. /\ req[t] \in Request /\ req[t].type = "set" /\ req[t].exp = 0
            /\ ApplyRecord(req[t]) /\ newest' = Newest(newest, req[t])
            /\ db \in [Keys -> Entry \cup {Nil}]
            /\ newest \in [Keys -> Request \cup {Nil}] /\ Lasts(db)
        BY <3>1, Zenon DEF Apply, SInv, TInv, TypeOK, Plain
      <4> QED
        BY <4>1, Merge, Zenon
    <3>2. CASE LazyReap(t)
      BY <3>2, NothingReaped, Zenon DEF Plain
    <3>3. CASE WALAppend(t) \/ WALAppendFails(t) \/ GetCheck(t)
      BY <3>3, Zenon DEF WALAppend, WALAppendFails, GetCheck, Plain
    <3> QED
      BY <1>2, <3>1, <3>2, <3>3, Zenon
  <2> QED
    BY <2>1, <2>2, <2>3, <2>4, PlainFrame, Zenon DEF Plain
<1> QED
  BY <1>1, <1>2, Zenon DEF ThreadStep

\* A snapshot step keeps Plain: it only copies entries.
LEMMA SnapPlain ==
    ASSUME SInv, Plain, SnapStep
    PROVE  Plain'
<1>1. UNCHANGED <<db, pc, req>>
  BY ZenonT(30) DEF SnapStep, CompactorSnapshot, FinalSnapshot, SnapLockWAL,
     SnapLockShard, SnapDump, SnapRename, SnapTruncate, SnapFail
<1>2. wal' \in {wal, <<>>}
  BY ZenonT(30) DEF SnapStep, CompactorSnapshot, FinalSnapshot, SnapLockWAL,
     SnapLockShard, SnapDump, SnapRename, SnapTruncate, SnapFail
<1>3. snap' \in {snap, tmp}
  BY ZenonT(30) DEF SnapStep, CompactorSnapshot, FinalSnapshot, SnapLockWAL,
     SnapLockShard, SnapDump, SnapRename, SnapTruncate, SnapFail
<1>4. \A k \in Keys : tmp'[k] \in {tmp[k], db[k], Nil}
  <2>1. CASE SnapDump
    BY <2>1, Zenon DEF SnapDump
  <2>2. CASE SnapTruncate \/ SnapFail
    BY <2>2, Zenon DEF SnapTruncate, SnapFail, Unlock, EmptyMap
  <2>3. CASE CompactorSnapshot \/ FinalSnapshot \/ SnapLockShard \/ SnapRename
    BY <2>3, Zenon DEF CompactorSnapshot, FinalSnapshot, SnapLockWAL, SnapLockShard,
       SnapRename
  <2> QED
    BY <2>1, <2>2, <2>3, Zenon DEF SnapStep
<1>5. PlainLog(<<>>)
  BY DEF PlainLog
<1>6. PlainLog(wal') /\ Lasts(snap') /\ Lasts(db')
  BY <1>1, <1>2, <1>3, <1>5, Zenon DEF Plain
<1>7. Lasts(tmp')
  BY <1>4, Zenon DEF Plain, Lasts
<1> QED
  BY <1>1, <1>6, <1>7, PlainFrame, Zenon

\* What the log is after the process has ended.
LEMMA VanishLog ==
    ASSUME SInv, Plain, Exit \/ ReplayFatal \/ Crash
    PROVE  PlainLog(wal') /\ Extends(wal, wal') /\ snap' = snap /\ Vanish
<1>1. snap' = snap /\ Vanish
  BY Zenon DEF Exit, ReplayFatal, Crash
<1>2. wal' = wal \/ Appends
  BY SwitchAssumption, Zenon DEF Exit, ReplayFatal, Crash, Appends
<1>3. wal' = wal => Extends(wal, wal')
  BY Zenon DEF Extends
<1> QED
  BY <1>1, <1>2, <1>3, AppendsPlain, Zenon DEF Plain

\* The record that Replay applies.
LEMMA ReplayedPlain ==
    ASSUME SInv, Plain, ReplayRecord
    PROVE  /\ replayPos \in DOMAIN wal /\ wal[replayPos].frag = "full"
           /\ wal[replayPos].rec \in Request /\ wal[replayPos].rec.type = "set"
           /\ wal[replayPos].rec.exp = 0
           /\ ApplyRecord(wal[replayPos].rec)
           /\ newest' = Newest(newest, wal[replayPos].rec)
<1>1. wal \in Seq(Piece) /\ replayPos \in Nat \ {0}
  BY Zenon DEF SInv, TInv, TypeOK
<1>2. replayPos <= Len(wal) /\ wal[replayPos].frag = "full"
  BY Zenon DEF ReplayRecord
<1>3. replayPos \in DOMAIN wal
  BY <1>1, <1>2
<1>4. wal[replayPos].rec.type = "set" /\ wal[replayPos].rec.exp = 0
  BY <1>3, Zenon DEF Plain, PlainLog
<1>5. wal[replayPos].rec \in Request
  BY ReplayedType, Zenon DEF SInv
<1>6. \A d \in Nat : Restarted(wal[replayPos].rec, d) = wal[replayPos].rec
  BY <1>4, <1>5, RestartedType, Zenon
<1>7. /\ ApplyRecord(wal[replayPos].rec)
      /\ newest' = Newest(newest, wal[replayPos].rec)
  BY <1>4, <1>6, ReplayedStep, Zenon DEF SInv
<1> QED
  BY <1>2, <1>3, <1>4, <1>5, <1>7, Zenon

\* The steps of start-up and shutdown keep Plain.
LEMMA LifeCyclePlain ==
    ASSUME SInv, Plain, LifeCycleStep
    PROVE  Plain'
<1>1. CASE Shutdown \/ Drained \/ DrainTimeout \/ StopReaper \/ Start \/ ReplayDone
  <2>1. UNCHANGED <<db, pc, req, tmp, wal, snap>>
    BY <1>1, Zenon DEF Shutdown, Drained, DrainTimeout, StopReaper, Start, ReplayDone
  <2> QED
    BY <2>1, Zenon DEF Plain
<1>2. CASE Exit \/ ReplayFatal \/ Crash
  <2>1. /\ db' = EmptyMap /\ tmp' = EmptyMap /\ pc' = [t \in Threads |-> "idle"]
        /\ PlainLog(wal') /\ snap' = snap
    BY <1>2, VanishLog, Zenon DEF Vanish, Unlock
  <2>2. Lasts(EmptyMap)
    BY DEF Lasts, EmptyMap
  <2>3. Lasts(db') /\ Lasts(tmp') /\ Lasts(snap')
    BY <2>1, <2>2, Zenon DEF Plain
  <2>4. \A u \in Threads : pc'[u] = "idle"
    BY <2>1, Zenon
  <2> QED
    BY <2>1, <2>3, <2>4, PlainFrame, Zenon
<1>3. CASE LoadSnapshot
  <2>1. UNCHANGED <<pc, req, tmp, wal, snap>> /\ db' = snap
    BY <1>3, Zenon DEF LoadSnapshot
  <2> QED
    BY <2>1, PlainFrame, Zenon DEF Plain
<1>4. CASE ReplayRecord
  <2>1. UNCHANGED <<pc, req, tmp, wal, snap>>
    BY <1>4, Zenon DEF ReplayRecord
  <2>2. Lasts(db')
    BY <1>4, ReplayedPlain, Merge, Zenon DEF SInv, TInv, TypeOK, Plain
  <2> QED
    BY <2>1, <2>2, PlainFrame, Zenon DEF Plain
<1> QED
  BY <1>1, <1>2, <1>3, <1>4, Zenon DEF LifeCycleStep

\* Plain is inductive.
LEMMA PlainNext ==
    ASSUME "del" \notin Calls, TTLs \subseteq {0}, SInv, Plain, [Next]_vars
    PROVE  Plain'
<1>1. CASE ReapStart \/ ReapShard \/ Tick \/ UNCHANGED vars
  <2>1. UNCHANGED <<pc, req, tmp, wal, snap>>
    BY <1>1, Zenon DEF ReapStart, ReapShard, Tick, vars
  <2>2. db' = db
    BY <1>1, NothingReaped, Zenon DEF ReapStart, Tick, vars
  <2> QED
    BY <2>1, <2>2, Zenon DEF Plain
<1> QED
  BY <1>1, ThreadPlain, SnapPlain, LifeCyclePlain, Zenon DEF Next

------------------------------------------------------------------------------
(* The highest version.                                                      *)

\* A record stays in a log that is extended.
LEMMA StoredGrows ==
    ASSUME NEW w, NEW w2, Extends(w, w2), NEW s, NEW k, NEW v, Stored(w, s, k, v)
    PROVE  Stored(w2, s, k, v)
BY Zenon DEF Extends, Stored, RecordFrom

\* Steps of a running process that change neither the map nor the newest
\* mutations.
LEMMA RunningNewest ==
    ASSUME NewestInv, Running, Running', db' = db, newest' = newest
    PROVE  NewestInv'
BY Zenon DEF NewestInv, Running

\* The map update of a Set.
LEMMA ApplyNewest ==
    ASSUME SInv, Plain, NewestInv, NEW t \in Threads, Apply(t)
    PROVE  NewestInv'
<1>1. /\ req[t] \in Request /\ req[t].type = "set" /\ Running /\ mode' = mode
      /\ ApplyRecord(req[t]) /\ newest' = Newest(newest, req[t])
      /\ db \in [Keys -> Entry \cup {Nil}]
      /\ newest \in [Keys -> Request \cup {Nil}]
  BY Zenon DEF Apply, SInv, TInv, TypeOK, Plain
<1>2. /\ \A k \in Keys, v \in Nat : Holds(db[k], v) => Holds(db'[k], v)
      /\ \A k \in Keys : \/ newest'[k] = newest[k]
                         \/ newest'[k] = req[t] /\ Holds(db'[k], req[t].ver)
  BY <1>1, Merge, Zenon
<1>3. \A k \in Keys : newest[k] # Nil => newest[k].ver \in Nat /\ Holds(db[k], newest[k].ver)
  BY <1>1, Zenon DEF NewestInv, Request
<1>4. \A k \in Keys : newest'[k] # Nil => Holds(db'[k], newest'[k].ver)
  BY <1>2, <1>3, Zenon
<1> QED
  BY <1>1, <1>4, Zenon DEF NewestInv, Running

\* An entry that is on disk is there with its version.
LEMMA KeptStored ==
    ASSUME NEW k \in Keys, NEW v \in Nat, db \in [Keys -> Entry \cup {Nil}],
           wal \in Seq(Piece), Holds(db[k], v), KeptIn(wal, snap, k, db[k])
    PROVE  Stored(wal, snap, k, v)
<1>1. CASE snap[k] = db[k]
  BY <1>1, Zenon DEF Stored
<1>2. CASE LoggedIn(wal, k, db[k])
  <2>1. PICK i \in DOMAIN wal : /\ wal[i].frag = "full" /\ wal[i].rec.key = k
                                /\ wal[i].rec.ver = db[k].ver
    BY <1>2, Zenon DEF LoggedIn, Makes
  <2>2. DOMAIN wal = 1 .. Len(wal) /\ Len(wal) \in Nat
    OBVIOUS
  <2>3. i >= 1
    BY <2>2
  <2>4. wal[i].rec.ver >= v
    BY <2>1, Zenon DEF Holds
  <2> QED
    BY <2>1, <2>3, <2>4, Zenon DEF Stored, RecordFrom
<1> QED
  BY <1>1, <1>2, Zenon DEF KeptIn

\* When the process ends, the highest versions are on disk.
LEMMA VanishNewest ==
    ASSUME SInv, DInv, Plain, NewestInv, Exit \/ ReplayFatal \/ Crash
    PROVE  NewestInv'
<1>1. Extends(wal, wal') /\ snap' = snap /\ Vanish
  BY VanishLog, Zenon
<1>2. /\ mode' = "down" /\ replayPos' = 1
      /\ newest' = [k \in Keys |-> IF k \in unlogged THEN Nil ELSE newest[k]]
  BY <1>1, Zenon DEF Vanish
<1>3. /\ db \in [Keys -> Entry \cup {Nil}] /\ wal \in Seq(Piece)
      /\ newest \in [Keys -> Request \cup {Nil}]
  BY Zenon DEF SInv, TInv, TypeOK
<1>4. \A k \in Keys \ unlogged : newest[k] # Nil =>
         Stored(wal, snap, k, newest[k].ver)
  <2> SUFFICES ASSUME NEW k \in Keys \ unlogged, newest[k] # Nil, Running
               PROVE  Stored(wal, snap, k, newest[k].ver)
    BY Zenon DEF NewestInv
  <2>1. newest[k].ver \in Nat /\ Holds(db[k], newest[k].ver)
    BY <1>3, Zenon DEF NewestInv, Request
  <2>2. Live(db[k], now)
    BY <2>1, Zenon DEF Holds, Live, Plain, Lasts
  <2>3. KeptIn(wal, snap, k, db[k])
    BY <2>2, Zenon DEF DInv
  <2> QED
    BY <1>3, <2>1, <2>3, KeptStored, Zenon
<1>5. \A k \in Keys : newest'[k] # Nil => Stored(wal', snap', k, newest'[k].ver)
  BY <1>1, <1>2, <1>4, StoredGrows, Zenon
<1> QED
  BY <1>2, <1>5, Zenon DEF NewestInv, Running

\* A record from p on is at p or after it.
LEMMA RecordAtOrAfter ==
    ASSUME NEW w \in Seq(Piece), NEW p \in Nat, NEW k, NEW v, RecordFrom(w, p, k, v),
           ~RecordFrom(w, p + 1, k, v)
    PROVE  w[p].rec.key = k /\ w[p].rec.ver >= v /\ w[p].frag = "full" /\ p \in DOMAIN w
<1>1. PICK i \in DOMAIN w : /\ i >= p /\ w[i].frag = "full"
                            /\ w[i].rec.key = k /\ w[i].rec.ver >= v
  BY Zenon DEF RecordFrom
<1>2. i = p \/ i >= p + 1
  BY <1>1
<1> QED
  BY <1>1, <1>2, Zenon DEF RecordFrom

\* A record that Replay applies.
LEMMA ReplayNewest ==
    ASSUME SInv, Plain, NewestInv, ReplayRecord
    PROVE  NewestInv'
<1> DEFINE r == wal[replayPos].rec
<1>1. /\ replayPos \in DOMAIN wal /\ wal[replayPos].frag = "full"
      /\ r \in Request /\ r.type = "set"
      /\ ApplyRecord(r) /\ newest' = Newest(newest, r)
  BY ReplayedPlain, Zenon
<1>2. /\ db \in [Keys -> Entry \cup {Nil}] /\ wal \in Seq(Piece)
      /\ newest \in [Keys -> Request \cup {Nil}] /\ replayPos \in Nat
  BY Zenon DEF SInv, TInv, TypeOK
<1>3. /\ UNCHANGED <<wal, snap>> /\ mode = "replay" /\ mode' = "replay"
      /\ replayPos' = replayPos + 1
  BY Zenon DEF ReplayRecord
<1> HIDE DEF r
<1>4. /\ \A k \in Keys, v \in Nat : Holds(db[k], v) => Holds(db'[k], v)
      /\ \A k \in Keys : \/ newest'[k] = newest[k]
                         \/ k = r.key /\ newest'[k] = r /\ Holds(db'[k], r.ver)
      /\ Holds(db'[r.key], r.ver)
  BY <1>1, <1>2, Merge, Zenon
<1>5. r.key \in Keys /\ r.ver \in Nat
  BY <1>1, Zenon DEF Request
<1>6. Stored(wal, snap, r.key, r.ver)
  <2>1. replayPos >= 1 /\ r.ver >= r.ver
    BY <1>1, <1>2, <1>5
  <2> QED
    BY <1>1, <2>1, Zenon DEF Stored, RecordFrom, r
<1>7. \A k \in Keys : newest'[k] # Nil => Stored(wal, snap, k, newest'[k].ver)
  BY <1>3, <1>4, <1>6, Zenon DEF NewestInv, Running
<1>8. ASSUME NEW k \in Keys, newest'[k] # Nil,
             ~RecordFrom(wal, replayPos + 1, k, newest'[k].ver)
      PROVE  Holds(db'[k], newest'[k].ver)
  <2>1. CASE newest'[k] = newest[k]
    <3>1. newest[k].ver \in Nat
      BY <1>2, <1>8, <2>1, Zenon DEF Request
    <3>2. CASE RecordFrom(wal, replayPos, k, newest[k].ver)
      <4>1. r.key = k /\ r.ver >= newest[k].ver
        <5>1. ~RecordFrom(wal, replayPos + 1, k, newest[k].ver)
          BY <1>8, <2>1, Zenon
        <5> QED
          BY <1>2, <3>2, <5>1, RecordAtOrAfter, Zenon DEF r
      <4>2. keyCount \in Int /\ db' \in [Keys -> Entry \cup {Nil}]
        BY <1>1, <1>2, ApplyRecordType, Zenon DEF SInv, TInv, TypeOK
      <4>3. db'[k] # Nil /\ db'[k].ver \in Nat /\ db'[k].ver >= r.ver
        BY <1>4, <4>1, <4>2, Zenon DEF Holds, Entry
      <4> QED
        BY <2>1, <3>1, <4>1, <4>3, <1>5 DEF Holds
    <3> QED
      BY <1>3, <1>4, <1>8, <2>1, <3>1, <3>2, Zenon DEF NewestInv
  <2> QED
    BY <1>4, <2>1, Zenon
<1> QED
  BY <1>3, <1>7, <1>8, Zenon DEF NewestInv, Running

\* Start, LoadSnapshot and the end of Replay.
LEMMA RecoveryNewest ==
    ASSUME SInv, NewestInv, Start \/ LoadSnapshot \/ ReplayDone
    PROVE  NewestInv'
<1>1. UNCHANGED <<wal, snap, newest, replayPos>>
  BY Zenon DEF Start, LoadSnapshot, ReplayDone
<1>2. CASE Start
  BY <1>1, <1>2, Zenon DEF Start, NewestInv, Running
<1>3. CASE LoadSnapshot
  <2>1. mode = "load" /\ mode' = "replay" /\ db' = snap
    BY <1>3, Zenon DEF LoadSnapshot
  <2> QED
    BY <1>1, <2>1, Zenon DEF NewestInv, Running, Stored
<1>4. CASE ReplayDone
  <2>1. mode = "replay" /\ mode' = "up" /\ db' = db /\ OnlyHeaderBytesLeft
    BY <1>4, Zenon DEF ReplayDone
  <2>2. wal \in Seq(Piece) /\ replayPos \in Nat
    BY Zenon DEF SInv, TInv, TypeOK
  <2>3. \A i \in DOMAIN wal : i >= replayPos => i \in replayPos .. Len(wal)
    BY <2>2
  <2>4. \A k \in Keys : newest[k] # Nil => ~RecordFrom(wal, replayPos, k, newest[k].ver)
    BY <2>1, <2>3, Zenon DEF RecordFrom, OnlyHeaderBytesLeft, HeaderCutShort
  <2> QED
    BY <1>1, <2>1, <2>4, Zenon DEF NewestInv, Running, Modes
<1> QED
  BY <1>2, <1>3, <1>4, Zenon

\* NewestInv is inductive.
LEMMA NewestNext ==
    ASSUME SInv, DInv, Plain, NewestInv, [Next]_vars
    PROVE  NewestInv'
<1>1. ASSUME NEW t \in Threads, ThreadStep(t) PROVE NewestInv'
  <2>1. CASE Apply(t)
    BY <2>1, ApplyNewest, Zenon
  <2>2. CASE LazyReap(t)
    <3>1. db' = db
      BY <2>2, NothingReaped, Zenon
    <3> QED
      BY <2>2, <3>1, RunningNewest, Zenon DEF LazyReap, Running
  <2>3. CASE \/ BeginSet(t) \/ BeginDelete(t) \/ BeginGet(t) \/ NextVersion(t)
             \/ WALAppend(t) \/ WALAppendFails(t) \/ GetCheck(t)
    <3>1. UNCHANGED <<mode, db, newest>>
      BY <2>3, Zenon DEF BeginSet, BeginDelete, Begin, BeginGet, NextVersion, WALAppend,
                         WALAppendFails, GetCheck
    <3>2. Running \/ mode = "up"
      BY <2>3, Zenon DEF BeginSet, BeginDelete, Begin, BeginGet, NextVersion, WALAppend,
                         WALAppendFails, GetCheck
    <3> QED
      BY <3>1, <3>2, RunningNewest, Zenon DEF Running, Modes
  <2> QED
    BY <1>1, <2>1, <2>2, <2>3, Zenon DEF ThreadStep
<1>2. CASE ReapStart \/ ReapShard
  <2>1. db' = db
    BY <1>2, NothingReaped, Zenon DEF ReapStart
  <2> QED
    BY <1>2, <2>1, RunningNewest, Zenon DEF ReapStart, ReapShard, Running
<1>3. CASE SnapStep
  <2>1. UNCHANGED <<db, newest>>
    BY <1>3, ZenonT(30) DEF SnapStep, CompactorSnapshot, FinalSnapshot, SnapLockWAL,
       SnapLockShard, SnapDump, SnapRename, SnapTruncate, SnapFail
  <2>2. Running \/ mode = "final"
    BY <1>3, Zenon DEF SnapStep, CompactorSnapshot, FinalSnapshot, SnapLockShard,
                       SnapDump, SnapRename, SnapTruncate, SnapFail
  <2>3. mode' = mode \/ mode' \in {"finalsnap", "closing"}
    BY <1>3, Zenon DEF SnapStep, CompactorSnapshot, FinalSnapshot, SnapLockShard,
                       SnapDump, SnapRename, SnapTruncate, SnapFail, AfterSnapshot
  <2> QED
    BY <2>1, <2>2, <2>3, RunningNewest, Zenon DEF Running, Modes
<1>4. CASE Shutdown \/ Drained \/ DrainTimeout \/ StopReaper
  <2>1. UNCHANGED <<db, newest>> /\ Running /\ Running'
    BY <1>4, Zenon DEF Shutdown, Drained, DrainTimeout, StopReaper, Running, Modes
  <2> QED
    BY <2>1, RunningNewest, Zenon
<1>5. CASE Tick \/ UNCHANGED vars
  <2>1. UNCHANGED <<mode, db, newest, wal, snap, replayPos>>
    BY <1>5, Zenon DEF Tick, vars
  <2> QED
    BY <2>1, Zenon DEF NewestInv, Running
<1> QED
  BY <1>1, <1>2, <1>3, <1>4, <1>5, VanishNewest, RecoveryNewest, ReplayNewest, Zenon
  DEF Next, LifeCycleStep

\* Last write wins for Sets without a TTL, whatever versions peers send, however
\* the clock is set, and across any crashes, torn or failed writes and snapshots
\* (failed ones included): the highest version that was applied to a key, and
\* that no crash took from memory before it was on disk, is what the map of a
\* running node holds, or a higher one.
THEOREM NewestSetWins ==
    ASSUME "del" \notin Calls, TTLs \subseteq {0} PROVE Spec => []NewestWins
<1>1. Init => NInv
  <2>1. Init => Plain
    BY DEF Init, Plain, PlainLog, Lasts, EmptyMap
  <2>2. Init => NewestInv
    BY DEF Init, NewestInv, Running, EmptyMap
  <2> QED
    BY <2>1, <2>2, SInvInit, DInvInit, Zenon DEF NInv
<1>2. NInv /\ [Next]_vars => NInv'
  BY SInvNext, DNext, PlainNext, NewestNext, Zenon DEF NInv
<1>3. NInv => NewestWins
  BY Zenon DEF NInv, NewestInv, NewestWins, Holds
<1> QED
  BY <1>1, <1>2, <1>3, PTL DEF Spec
=============================================================================
