------------------------------- MODULE KVData -------------------------------
(***************************************************************************)
(* The data of the storage engine (internal/store): entries of the         *)
(* in-memory map, mutation records as the write-ahead log (WAL) frames     *)
(* them, and the two pure decisions every other module rests on: when an   *)
(* entry has expired and which of two versions of a key wins.              *)
(*                                                                         *)
(* Times and versions are naturals read from one clock, as in the code     *)
(* (both are UnixNano).  0 is "no expiry" (the zero time.Time) and "no     *)
(* version given" (the caller asks for a fresh one).                       *)
(***************************************************************************)
EXTENDS Integers, Sequences, FiniteSets

CONSTANTS
    Keys,      \* keys
    Values,    \* values a client may write
    Nil        \* no entry, no value, no request

\* An entry of the map: value, version and expiry.
Entry == [val : Values \cup {Nil}, ver : Nat, exp : Nat]

\* A call in progress.  A "set" or "del" request is also the payload that
\* the WAL logs; a "get" request carries the entry that was read.
Request == [type : {"set", "del", "get"}, key : Keys,
            val : Values \cup {Nil}, ver : Nat, exp : Nat]

\* What one Append leaves in the file: a whole frame, fewer than the 8 header
\* bytes ("hdr"), or a whole header with only a part of the payload ("body").
Piece == [rec : Request, frag : {"full", "hdr", "body"}]

ASSUME KeysAssumption == IsFiniteSet(Keys)
ASSUME NilAssumption == Nil \notin Entry

\* Entry.IsExpired: the expiry is set and strictly in the past.
IsExpired(e, t) == e.exp # 0 /\ t > e.exp

EntryOf(r) == [val |-> r.val, ver |-> r.ver, exp |-> r.exp]

\* Last write wins: a mutation prevails over the current entry of its key
\* when its version is not smaller.
Wins(ver, cur) == cur = Nil \/ ver >= cur.ver

\* The keys that have an entry in the map d.
Present(d) == {k \in Keys : d[k] # Nil}

EmptyMap == [k \in Keys |-> Nil]

Maximum(a, b) == IF a >= b THEN a ELSE b
=============================================================================
