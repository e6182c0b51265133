----------------------------- MODULE ScanProofs -----------------------------
(***************************************************************************)
(* Proofs about Scan, for every finite set of keys, every division into    *)
(* shards, every limit and any clock bound: a listing is ascending without *)
(* repetition, leaves out no key that stayed, lists no key that was not    *)
(* there, and each page but the last moves the cursor up.                  *)
(***************************************************************************)
EXTENDS Scan, FiniteSetTheorems, SequenceTheorems, TLAPS

------------------------------------------------------------------------------
(* The inductive invariant.                                                  *)

Running == pc \in {"gather", "sort"}
Entries(s) == 1 .. Len(s)

\* What goes with each phase of a listing.
Phases ==
    /\ pc = "done" <=> ~Running /\ cursor = NoCursor
    /\ Running /\ cursor = NoCursor => listed = <<>>
    /\ Running => limit \in Nat \ {0}
    /\ ~Running => allKeys = <<>>
    /\ pc = "gather" => scanAt \in Nat /\ scanAt <= now
    /\ pc = "sort" => shard = ShardCount
    /\ pc # "sort" => calls = {}
    /\ calls = {} => i = 0 /\ j = 0

\* The listing is ascending, up to the cursor.
ListedInOrder ==
    /\ Ascending
    /\ cursor # NoCursor => \A n \in Entries(listed) : listed[n] <= cursor

\* The keys that stayed are live, and listed as far as the cursor tells.
StayedSoFar ==
    /\ \A k \in stayed : IsLive(db[k], now)
    /\ cursor # NoCursor => \A k \in stayed : k <= cursor => k \in Range(listed)
    /\ pc = "done" => \A k \in stayed : k \in Range(listed)

\* The keys gathered are distinct and were live during this Scan; they are from
\* the shards visited, and all that stayed of those shards are there.
GatheredSoFar ==
    /\ \A x, y \in Entries(allKeys) : x # y => allKeys[x] # allKeys[y]
    /\ \A n \in Entries(allKeys) : allKeys[n] \in seen /\ ShardOf[allKeys[n]] < shard
    /\ Running => \A k \in stayed : ShardOf[k] < shard => k \in Range(allKeys)
    /\ pc = "gather" => \A k \in Matching : IsLive(db[k], scanAt) => k \in seen

\* Positions x and y are in the range c.
Within(c, x, y) == c[1] <= x /\ x <= c[2] /\ c[1] <= y /\ y <= c[2]

\* Every two keys that are out of order lie in a range that is to be sorted.
SortedBut(keys, cs) ==
    \A x, y \in Entries(keys) : x < y => keys[x] < keys[y] \/ \E c \in cs : Within(c, x, y)

\* partition's invariant for the range c: the keys up to a are smaller than the
\* pivot, those behind a and before b are greater.
Partitioned(keys, c, a, b) ==
    /\ a \in Int /\ b \in Int /\ c[1] - 1 <= a /\ a < b /\ b <= c[2]
    /\ \A x \in c[1] .. a : keys[x] < keys[c[2]]
    /\ \A x \in a + 1 .. b - 1 : keys[c[2]] < keys[x]

\* Ranges are parts of 1 .. n with at least two positions, and do not overlap.
Ranges(cs, n) ==
    /\ \A c \in cs : c \in (1 .. n) \X (1 .. n) /\ c[1] < c[2]
    /\ \A c, d \in cs : c # d => c[2] < d[1] \/ d[2] < c[1]

SortedSoFar ==
    /\ Ranges(calls, Len(allKeys))
    /\ pc = "sort" => SortedBut(allKeys, calls)
    /\ \A c \in calls : Leftmost(c, calls) => Partitioned(allKeys, c, i, j)

ScanInv ==
    TypeOK /\ Phases /\ ListedInOrder /\ StayedSoFar /\ GatheredSoFar /\ SortedSoFar

------------------------------------------------------------------------------
(* Sequences.                                                                *)

\* Keys are positive integers.
LEMMA KeysPositive == Matching \subseteq Nat \ {0}
BY ScanAssumption, Zenon

\* The elements of a sequence of keys are keys.
LEMMA KeysOf ==
    ASSUME NEW s \in Seq(Matching)
    PROVE  /\ Len(s) \in Nat /\ DOMAIN s = Entries(s)
           /\ \A n \in Entries(s) : n \in Nat /\ s[n] \in Matching /\ s[n] \in Nat
<1>1. Len(s) \in Nat /\ DOMAIN s = Entries(s) /\ s \in [Entries(s) -> Matching]
    BY LenProperties, Zenon DEF Entries
<1>2. \A n \in Entries(s) : n \in Nat /\ s[n] \in Matching
    BY <1>1 DEF Entries
<1> QED BY <1>1, <1>2, KeysPositive, Zenon

\* The orders in which GatherShard may find the keys of a finite set have each
\* of them exactly once.
LEMMA Orders ==
    ASSUME NEW S, IsFiniteSet(S), NEW s \in Injection(1 .. Cardinality(S), S)
    PROVE  /\ s \in Seq(S)
           /\ \A x, y \in Entries(s) : x # y => s[x] # s[y]
           /\ \A v \in S : v \in Range(s)
<1> DEFINE D == 1 .. Cardinality(S)
<1>1. Cardinality(S) \in Nat
    BY FS_CardinalityType, Zenon
<1>2. IsFiniteSet(D) /\ Cardinality(D) = Cardinality(S)
    BY <1>1, FS_Interval
<1>3. s \in [D -> S] /\ \A x, y \in D : x # y => s[x] # s[y]
    BY Zenon DEF Injection, IsInjective
<1>4. s \in Seq(S) /\ Len(s) = Cardinality(S)
    BY <1>1, <1>3
<1>5. ASSUME NEW v \in S, \A n \in D : s[n] # v PROVE FALSE
    <2>1. IsFiniteSet(S \ {v}) /\ Cardinality(S \ {v}) = Cardinality(S) - 1
        BY FS_RemoveElement
    <2>2. s \in [D -> S \ {v}]
        BY <1>3, <1>5
    <2>3. \E x, y \in D : x # y /\ s[x] = s[y]
        BY <1>1, <1>2, <2>1, <2>2, FS_PigeonHole
    <2> QED BY <1>3, <2>3, Zenon
<1>6. \A v \in S : v \in Range(s)
    BY <1>3, <1>5, Zenon DEF Range
<1> QED BY <1>3, <1>4, <1>6, Zenon DEF Entries

\* An element of a concatenation is one of the parts.
LEMMA Joined ==
    ASSUME NEW s \in Seq(Matching), NEW t \in Seq(Matching)
    PROVE  /\ s \o t \in Seq(Matching) /\ Len(s \o t) = Len(s) + Len(t)
           /\ \A n \in Entries(s \o t) :
                 \/ n \in Entries(s) /\ (s \o t)[n] = s[n]
                 \/ n > Len(s) /\ n - Len(s) \in Entries(t) /\ (s \o t)[n] = t[n - Len(s)]
           /\ \A k : k \in Range(s) \/ k \in Range(t) => k \in Range(s \o t)
<1>1. Len(s) \in Nat /\ Len(t) \in Nat /\ DOMAIN s = Entries(s) /\ DOMAIN t = Entries(t)
    BY KeysOf, Zenon
<1>2. s \o t \in Seq(Matching) /\ Len(s \o t) = Len(s) + Len(t)
      /\ \A n \in 1 .. Len(s) + Len(t) : (s \o t)[n] =
             IF n <= Len(s) THEN s[n] ELSE t[n - Len(s)]
    BY ConcatProperties, Zenon
<1>3. ASSUME NEW n \in Entries(s \o t)
      PROVE  \/ n \in Entries(s) /\ (s \o t)[n] = s[n]
             \/ n > Len(s) /\ n - Len(s) \in Entries(t) /\ (s \o t)[n] = t[n - Len(s)]
    BY <1>1, <1>2 DEF Entries
<1>4. DOMAIN (s \o t) = Entries(s \o t)
    BY <1>2, KeysOf, Zenon
<1>5. ASSUME NEW k, k \in Range(s) PROVE k \in Range(s \o t)
    <2>1. PICK n \in Entries(s) : k = s[n]
        BY <1>1, <1>5, Zenon DEF Range
    <2>2. n \in Entries(s \o t) /\ (s \o t)[n] = k
        BY <1>1, <1>2, <2>1 DEF Entries
    <2> QED BY <1>4, <2>2, Zenon DEF Range
<1>6. ASSUME NEW k, k \in Range(t) PROVE k \in Range(s \o t)
    <2>1. PICK n \in Entries(t) : k = t[n]
        BY <1>1, <1>6, Zenon DEF Range
    <2>2. n + Len(s) \in Entries(s \o t) /\ (n + Len(s)) - Len(s) = n /\ ~(n + Len(s) <= Len(s))
        BY <1>1, <1>2 DEF Entries
    <2>3. (s \o t)[n + Len(s)] = k
        BY <1>2, <2>1, <2>2, Zenon DEF Entries
    <2> QED BY <1>4, <2>2, <2>3, Zenon DEF Range
<1> QED BY <1>2, <1>3, <1>5, <1>6, Zenon

\* A set of naturals has a least element.
LEMMA LeastNatural ==
    ASSUME NEW S, S \subseteq Nat, S # {}
    PROVE  \E x \in S : \A y \in S : x <= y
<1> DEFINE R == {ss \in Nat \X Nat : ss[1] < ss[2]}
<1>1. IsWellFoundedOn(R, Nat)
    BY NatLessThanWellFounded, Zenon DEF OpToRel
<1>2. \A x, y \in Nat : x < y => <<x, y>> \in R
    OBVIOUS
<1> HIDE DEF R
<1>3. PICK x \in S : \A y \in S : <<y, x>> \notin R
    BY <1>1, WFMin, Zenon
<1>4. ASSUME NEW y \in S PROVE x <= y
    <2>1. x \in Nat /\ y \in Nat /\ <<y, x>> \notin R
        BY <1>3, Zenon
    <2>2. ~(y < x)
        BY <1>2, <2>1, Zenon
    <2> QED BY <2>1, <2>2
<1> QED BY <1>4, Zenon

\* Swap exchanges two elements.
LEMMA SwapElements ==
    ASSUME NEW S, NEW a \in Seq(S), NEW x \in Entries(a), NEW y \in Entries(a)
    PROVE  /\ Swap(a, x, y) \in Seq(S)
           /\ Len(Swap(a, x, y)) = Len(a)
           /\ \A n \in Entries(a) :
                 Swap(a, x, y)[n] = IF n = y THEN a[x] ELSE IF n = x THEN a[y] ELSE a[n]
<1>1. DOMAIN a = Entries(a) /\ a \in [Entries(a) -> S] /\ Len(a) \in Nat
    BY LenProperties, Zenon DEF Entries
<1>2. Swap(a, x, y) \in [Entries(a) -> S]
    BY <1>1, Zenon DEF Swap
<1>3. Swap(a, x, y) \in Seq(S) /\ Len(Swap(a, x, y)) = Len(a)
    BY <1>1, <1>2 DEF Entries
<1> QED BY <1>1, <1>3, Zenon DEF Swap

\* Swap keeps the set of elements, and distinct elements distinct.
LEMMA SwapKeeps ==
    ASSUME NEW S, NEW a \in Seq(S), NEW x \in Entries(a), NEW y \in Entries(a)
    PROVE  /\ Range(Swap(a, x, y)) = Range(a)
           /\ (\A m, n \in Entries(a) : m # n => a[m] # a[n])
              => \A m, n \in Entries(a) : m # n => Swap(a, x, y)[m] # Swap(a, x, y)[n]
<1> DEFINE b == Swap(a, x, y)
<1>1. b \in Seq(S) /\ Len(b) = Len(a)
      /\ \A n \in Entries(a) : b[n] = IF n = y THEN a[x] ELSE IF n = x THEN a[y] ELSE a[n]
    BY SwapElements
<1>2. DOMAIN a = Entries(a) /\ DOMAIN b = Entries(a)
    BY <1>1, LenProperties, Zenon DEF Entries
<1> HIDE DEF b
<1>3. Range(b) = Range(a)
    <2>1. \A n \in Entries(a) : b[n] \in Range(a)
        BY <1>1, <1>2, Zenon DEF Range
    <2>2. \A n \in Entries(a) : a[n] \in Range(b)
        <3> TAKE n \in Entries(a)
        <3>1. b[x] = a[y] /\ b[y] = a[x]
            BY <1>1, Zenon
        <3> QED BY <1>1, <1>2, <3>1, Zenon DEF Range
    <2> QED BY <1>2, <2>1, <2>2, Zenon DEF Range
<1> QED BY <1>1, <1>3, Zenon DEF b

------------------------------------------------------------------------------
(* The quicksort.                                                            *)

\* Two ranges to be sorted that share a position are the same.
LEMMA NoOverlap ==
    ASSUME NEW n, NEW cs, Ranges(cs, n), NEW c \in cs, NEW d \in cs,
           NEW x \in Int, NEW y \in Int, NEW z \in Int, Within(c, x, y), Within(d, x, z)
    PROVE  c = d
BY DEF Ranges, Within

\* Only one range is the leftmost.
LEMMA OneLeftmost ==
    ASSUME NEW n \in Nat, NEW cs, Ranges(cs, n),
           NEW c, NEW d, Leftmost(c, cs), Leftmost(d, cs)
    PROVE  c = d
BY DEF Ranges, Leftmost

\* Exchanging two keys of a range that is to be sorted puts no others out of order.
LEMMA SwapInRange ==
    ASSUME NEW keys \in Seq(Matching), NEW cs, Ranges(cs, Len(keys)),
           SortedBut(keys, cs), NEW c \in cs,
           NEW x \in Int, NEW y \in Int, Within(c, x, y)
    PROVE  SortedBut(Swap(keys, x, y), cs)
<1> DEFINE b == Swap(keys, x, y)
           In(m) == c[1] <= m /\ m <= c[2]
<1>1. c \in Entries(keys) \X Entries(keys) /\ c[1] < c[2] /\ Len(keys) \in Nat
    BY DEF Ranges, Entries
<1>2. x \in Entries(keys) /\ y \in Entries(keys)
    BY <1>1 DEF Within, Entries
<1>3. Len(b) = Len(keys)
      /\ \A n \in Entries(keys) :
            b[n] = IF n = y THEN keys[x] ELSE IF n = x THEN keys[y] ELSE keys[n]
    BY <1>2, SwapElements
<1> HIDE DEF b
<1>4. ASSUME NEW m \in Entries(keys), In(m)
      PROVE  \E k \in Entries(keys) : In(k) /\ b[m] = keys[k]
    BY <1>2, <1>3, <1>4, Zenon DEF Within
<1>5. ASSUME NEW m \in Entries(keys), ~In(m)
      PROVE  b[m] = keys[m]
    BY <1>2, <1>3, <1>5, Zenon DEF Within
<1>6. SUFFICES ASSUME NEW m \in Entries(keys), NEW n \in Entries(keys), m < n
               PROVE  b[m] < b[n] \/ \E d \in cs : Within(d, m, n)
    BY <1>3, Zenon DEF SortedBut, Entries, b
<1> m \in Int /\ n \in Int
    BY DEF Entries
<1>7. CASE In(m) /\ In(n)
    BY <1>7, Zenon DEF Within
<1>8. CASE In(m) /\ ~In(n)
    <2>1. PICK k \in Entries(keys) : In(k) /\ b[m] = keys[k]
        BY <1>4, <1>8, Zenon
    <2>2. k < n /\ k \in Int
        BY <1>1, <1>6, <1>8, <2>1 DEF Entries
    <2>3. keys[k] < keys[n] \/ \E d \in cs : Within(d, k, n)
        BY <2>2, Zenon DEF SortedBut
    <2>4. ASSUME NEW d \in cs, Within(d, k, n) PROVE FALSE
        <3>1. Within(c, k, k)
            BY <2>1, Zenon DEF Within
        <3>2. c = d
            BY <2>2, <2>4, <3>1, NoOverlap
        <3> QED BY <1>8, <2>4, <3>2, Zenon DEF Within
    <2> QED BY <1>5, <1>8, <2>1, <2>3, <2>4
<1>9. CASE ~In(m) /\ In(n)
    <2>1. PICK k \in Entries(keys) : In(k) /\ b[n] = keys[k]
        BY <1>4, <1>9, Zenon
    <2>2. m < k /\ k \in Int
        BY <1>1, <1>6, <1>9, <2>1 DEF Entries
    <2>3. keys[m] < keys[k] \/ \E d \in cs : Within(d, m, k)
        BY <2>2, Zenon DEF SortedBut
    <2>4. ASSUME NEW d \in cs, Within(d, m, k) PROVE FALSE
        <3>1. Within(c, k, k) /\ Within(d, k, m)
            BY <2>1, <2>4, Zenon DEF Within
        <3>2. c = d
            BY <2>2, <3>1, NoOverlap, Zenon
        <3> QED BY <1>9, <2>4, <3>2, Zenon DEF Within
    <2> QED BY <1>5, <1>9, <2>1, <2>3, <2>4
<1>10. CASE ~In(m) /\ ~In(n)
    BY <1>5, <1>6, <1>10, Zenon DEF SortedBut
<1> QED BY <1>7, <1>8, <1>9, <1>10, Zenon

\* The ranges on both sides of the pivot at position p take the place of c.
Halves(cs, c, p) == (cs \ {c}) \cup QuickSort(c[1], p - 1) \cup QuickSort(p + 1, c[2])

\* They are disjoint ranges again.
LEMMA HalvesRanges ==
    ASSUME NEW n \in Nat, NEW cs, Ranges(cs, n), NEW c \in cs, NEW p \in c[1] .. c[2]
    PROVE  Ranges(Halves(cs, c, p), n)
<1>1. c \in (1 .. n) \X (1 .. n) /\ c[1] < c[2]
    BY Zenon DEF Ranges
<1>2. ASSUME NEW d \in Halves(cs, c, p)
      PROVE  \/ d \in cs /\ d # c
             \/ d = <<c[1], p - 1>> /\ c[1] < p - 1
             \/ d = <<p + 1, c[2]>> /\ p + 1 < c[2]
    BY <1>1, Zenon DEF Halves, QuickSort
<1>3. ASSUME NEW d \in Halves(cs, c, p)
      PROVE  d \in (1 .. n) \X (1 .. n) /\ d[1] < d[2]
    <2>1. CASE d \in cs
        BY <2>1, Zenon DEF Ranges
    <2>2. CASE d = <<c[1], p - 1>> /\ c[1] < p - 1
        BY <1>1, <2>2
    <2>3. CASE d = <<p + 1, c[2]>> /\ p + 1 < c[2]
        BY <1>1, <2>3
    <2> QED BY <1>2, <2>1, <2>2, <2>3, Zenon
<1>4. ASSUME NEW d \in Halves(cs, c, p), NEW e \in Halves(cs, c, p), d # e
      PROVE  d[2] < e[1] \/ e[2] < d[1]
    <2>1. d[1] \in Int /\ d[2] \in Int /\ e[1] \in Int /\ e[2] \in Int
        BY <1>3
    <2>2. CASE d \in cs /\ d # c /\ e \in cs /\ e # c
        BY <1>4, <2>2, Zenon DEF Ranges
    <2>3. CASE d \in cs /\ d # c /\ ~(e \in cs /\ e # c)
        <3>1. c[1] <= e[1] /\ e[2] <= c[2]
            BY <1>1, <1>2, <2>3
        <3>2. d[2] < c[1] \/ c[2] < d[1]
            BY <2>3, Zenon DEF Ranges
        <3> QED BY <1>1, <2>1, <3>1, <3>2
    <2>4. CASE ~(d \in cs /\ d # c) /\ e \in cs /\ e # c
        <3>1. c[1] <= d[1] /\ d[2] <= c[2]
            BY <1>1, <1>2, <2>4
        <3>2. e[2] < c[1] \/ c[2] < e[1]
            BY <2>4, Zenon DEF Ranges
        <3> QED BY <1>1, <2>1, <3>1, <3>2
    <2>5. CASE ~(d \in cs /\ d # c) /\ ~(e \in cs /\ e # c)
        BY <1>1, <1>2, <1>4, <2>5
    <2> QED BY <2>2, <2>3, <2>4, <2>5
<1> QED BY <1>3, <1>4, Zenon DEF Ranges

\* With the pivot in its place, only keys on the same side of it can be out of order.
LEMMA HalvesSorted ==
    ASSUME NEW keys \in Seq(Matching), NEW cs, Ranges(cs, Len(keys)),
           SortedBut(keys, cs), NEW c \in cs, NEW p \in c[1] .. c[2],
           \A x \in c[1] .. p - 1 : keys[x] < keys[p],
           \A x \in p + 1 .. c[2] : keys[p] < keys[x]
    PROVE  SortedBut(keys, Halves(cs, c, p))
<1>1. c \in Entries(keys) \X Entries(keys) /\ c[1] < c[2] /\ Len(keys) \in Nat
    BY DEF Ranges, Entries
<1>2. SUFFICES ASSUME NEW m \in Entries(keys), NEW n \in Entries(keys), m < n,
                      ~(keys[m] < keys[n])
               PROVE  \E d \in Halves(cs, c, p) : Within(d, m, n)
    BY Zenon DEF SortedBut
<1>3. PICK d \in cs : Within(d, m, n)
    BY <1>2, Zenon DEF SortedBut
<1>4. CASE d # c
    BY <1>3, <1>4, Zenon DEF Halves
<1>5. CASE d = c
    <2>1. \A k \in Entries(keys) : k \in Int /\ keys[k] \in Int
        BY KeysOf
    <2>2. /\ c[1] \in Int /\ c[2] \in Int /\ p \in Int /\ m \in Int /\ n \in Int /\ m < n
          /\ c[1] <= m /\ n <= c[2] /\ c[1] <= p /\ p <= c[2] /\ p \in Entries(keys)
        <3>1. c[1] \in 1 .. Len(keys) /\ c[2] \in 1 .. Len(keys)
            BY <1>1, Zenon DEF Entries
        <3>2. p \in Int /\ c[1] <= p /\ p <= c[2]
            BY <3>1
        <3> QED BY <1>2, <1>3, <1>5, <2>1, <3>1, <3>2 DEF Within, Entries
    <2>3. CASE n < p
        <3>1. <<c[1], p - 1>> \in Halves(cs, c, p)
            BY <2>2, <2>3 DEF Halves, QuickSort
        <3>2. Within(<<c[1], p - 1>>, m, n)
            BY <2>2, <2>3 DEF Within
        <3> QED BY <3>1, <3>2, Zenon
    <2>4. CASE p < m
        <3>1. <<p + 1, c[2]>> \in Halves(cs, c, p)
            BY <2>2, <2>4 DEF Halves, QuickSort
        <3>2. Within(<<p + 1, c[2]>>, m, n)
            BY <2>2, <2>4 DEF Within
        <3> QED BY <3>1, <3>2, Zenon
    <2>5. CASE m <= p /\ p <= n
        <3>1. m = p \/ keys[m] < keys[p]
            BY <2>2, <2>5
        <3>2. n = p \/ keys[p] < keys[n]
            BY <2>2, <2>5
        <3> QED BY <1>2, <2>1, <2>2, <3>1, <3>2
    <2> QED BY <2>1, <2>2, <2>3, <2>4, <2>5
<1> QED BY <1>4, <1>5, Zenon

------------------------------------------------------------------------------
(* The page.                                                                 *)

Sorted(s) == \A x, y \in Entries(s) : x < y => s[x] < s[y]

\* From returns the rest of the keys, beginning with the first one in S.
LEMMA FromSuffix ==
    ASSUME NEW keys \in Seq(Matching), NEW S, \E n \in Entries(keys) : keys[n] \in S
    PROVE  \E f \in Entries(keys) :
             /\ keys[f] \in S /\ \A n \in Entries(keys) : keys[n] \in S => f <= n
             /\ From(keys, S) \in Seq(Matching)
             /\ Len(From(keys, S)) = Len(keys) - f + 1
             /\ \A n \in Entries(From(keys, S)) : From(keys, S)[n] = keys[f + n - 1]
<1> DEFINE at == {n \in 1 .. Len(keys) : keys[n] \in S}
           first == CHOOSE f \in at : \A n \in at : f <= n
<1>1. at \subseteq Nat /\ at # {} /\ Len(keys) \in Nat
    BY KeysOf, Zenon DEF Entries
<1>2. first \in at /\ \A n \in at : first <= n
    BY <1>1, LeastNatural, Zenon
<1>3. PICK f \in Entries(keys) : f = first
    BY <1>2, Zenon DEF Entries
<1>4. keys[f] \in S /\ \A n \in Entries(keys) : keys[n] \in S => f <= n
    BY <1>2, <1>3, Zenon DEF Entries
<1>5. From(keys, S) = SubSeq(keys, f, Len(keys))
    BY <1>1, <1>3, Zenon DEF From
<1>6. f \in Int /\ 1 <= f /\ f <= Len(keys) /\ Len(keys) \in Int
    BY <1>1 DEF Entries
<1>7. \A n \in f .. Len(keys) : keys[n] \in Matching
    BY <1>6, KeysOf DEF Entries
<1>8. /\ SubSeq(keys, f, Len(keys)) \in Seq(Matching)
      /\ Len(SubSeq(keys, f, Len(keys))) = Len(keys) - f + 1
      /\ \A n \in 1 .. Len(keys) - f + 1 : SubSeq(keys, f, Len(keys))[n] = keys[f + n - 1]
    BY <1>6, <1>7, SubSeqProperties
<1> QED BY <1>4, <1>5, <1>8, Zenon DEF Entries

\* Of sorted keys, AfterCursor leaves exactly those greater than the cursor.
LEMMA AfterCursorRest ==
    ASSUME NEW keys \in Seq(Matching), Sorted(keys), cursor \in Matching \cup {NoCursor}
    PROVE  /\ AfterCursor(keys) \in Seq(Matching) /\ Sorted(AfterCursor(keys))
           /\ \A n \in Entries(AfterCursor(keys)) :
                 AfterCursor(keys)[n] > cursor /\ AfterCursor(keys)[n] \in Range(keys)
           /\ \A k \in Range(keys) : k > cursor => k \in Range(AfterCursor(keys))
<1> DEFINE S == {k \in Keys : k > cursor}
           rest == AfterCursor(keys)
<1>1. Matching \subseteq Keys /\ cursor \in Nat
    BY KeysPositive, ScanAssumption DEF NoCursor
<1>2. CASE cursor = NoCursor
    <2>1. rest = keys
        BY <1>2, Zenon DEF AfterCursor
    <2>2. \A n \in Entries(keys) : keys[n] > cursor /\ keys[n] \in Range(keys)
        BY <1>2, KeysOf, KeysPositive DEF NoCursor, Range
    <2> QED BY <2>1, <2>2, Zenon
<1>3. CASE cursor # NoCursor /\ \E n \in Entries(keys) : keys[n] \in S
    <2>1. PICK f \in Entries(keys) :
             /\ keys[f] \in S /\ \A n \in Entries(keys) : keys[n] \in S => f <= n
             /\ From(keys, S) \in Seq(Matching)
             /\ Len(From(keys, S)) = Len(keys) - f + 1
             /\ \A n \in Entries(From(keys, S)) : From(keys, S)[n] = keys[f + n - 1]
        BY <1>3, FromSuffix, Zenon
    <2>2. rest = From(keys, S)
        BY <1>3, Zenon DEF AfterCursor
    <2> HIDE DEF rest, S
    <2>3. Len(keys) \in Nat /\ f \in Nat /\ 1 <= f /\ f <= Len(keys)
        BY KeysOf DEF Entries
    <2>4. \A n \in Entries(rest) : /\ n \in Nat /\ f + n - 1 \in Entries(keys)
                                   /\ rest[n] = keys[f + n - 1]
        BY <2>1, <2>2, <2>3 DEF Entries
    <2>5. Sorted(rest)
        <3> SUFFICES ASSUME NEW x \in Entries(rest), NEW y \in Entries(rest), x < y
                     PROVE  rest[x] < rest[y]
            BY Zenon DEF Sorted
        <3>1. f + x - 1 < f + y - 1
            BY <2>3, <2>4
        <3> QED BY <2>4, <3>1, Zenon DEF Sorted
    <2>6. \A n \in Entries(rest) : rest[n] > cursor /\ rest[n] \in Range(keys)
        <3> TAKE n \in Entries(rest)
        <3>1. f = f + n - 1 \/ f < f + n - 1
            BY <2>3, <2>4 DEF Entries
        <3>2. keys[f] = rest[n] \/ keys[f] < rest[n]
            BY <2>4, <3>1, Zenon DEF Sorted
        <3>3. keys[f] > cursor /\ keys[f] \in Nat /\ rest[n] \in Nat
            BY <2>1, <2>4, KeysOf, Zenon DEF S
        <3>4. rest[n] \in Range(keys)
            BY <2>4, KeysOf, Zenon DEF Range
        <3> QED BY <1>1, <3>2, <3>3, <3>4
    <2>7. ASSUME NEW k \in Range(keys), k > cursor PROVE k \in Range(rest)
        <3>1. PICK n \in Entries(keys) : k = keys[n]
            BY KeysOf, Zenon DEF Range
        <3>2. keys[n] \in S
            BY <1>1, <2>7, <3>1, KeysOf DEF S
        <3>3. f <= n /\ n \in Nat /\ n <= Len(keys)
            BY <2>1, <3>2 DEF Entries
        <3>4. n - f + 1 \in Entries(rest) /\ f + (n - f + 1) - 1 = n
            BY <2>1, <2>2, <2>3, <3>3 DEF Entries
        <3>5. rest[n - f + 1] = k
            BY <2>4, <3>1, <3>4
        <3>6. DOMAIN rest = Entries(rest)
            BY <2>1, <2>2, KeysOf
        <3> QED BY <3>4, <3>5, <3>6, Zenon DEF Range
    <2> QED BY <2>1, <2>2, <2>5, <2>6, <2>7, Zenon DEF rest
<1>4. CASE cursor # NoCursor /\ ~\E n \in Entries(keys) : keys[n] \in S
    <2>1. rest = <<>>
        BY <1>4, Zenon DEF AfterCursor, From, Entries
    <2>2. ~\E k \in Range(keys) : k > cursor
        BY <1>1, <1>4, KeysOf DEF Range
    <2> HIDE DEF rest
    <2>3. rest \in Seq(Matching) /\ Entries(rest) = {}
        BY <2>1 DEF Entries
    <2> QED BY <2>2, <2>3, Zenon DEF Sorted, rest
<1> QED BY <1>2, <1>3, <1>4, Zenon

\* The page is the beginning of the rest, cut at the limit.
LEMMA PageCut ==
    ASSUME NEW rest \in Seq(Matching), NEW lim \in Nat
    PROVE  LET pg == SubSeq(rest, 1, IF Len(rest) > lim THEN lim ELSE Len(rest))
           IN  /\ pg \in Seq(Matching)
               /\ Len(pg) = IF Len(rest) > lim THEN lim ELSE Len(rest)
               /\ \A n \in Entries(pg) : n \in Entries(rest) /\ pg[n] = rest[n]
<1> DEFINE q == IF Len(rest) > lim THEN lim ELSE Len(rest)
           pg == SubSeq(rest, 1, q)
<1>1. Len(rest) \in Nat
    BY KeysOf, Zenon
<1>2. q \in Nat /\ q <= Len(rest)
    BY <1>1
<1> HIDE DEF q
<1>3. \A n \in 1 .. q : rest[n] \in Matching
    BY <1>1, <1>2, KeysOf DEF Entries
<1>4. pg \in Seq(Matching) /\ Len(pg) = q /\ \A n \in 1 .. q : pg[n] = rest[n]
    BY <1>2, <1>3, SubSeqProperties
<1>5. \A n \in Entries(pg) : n \in Entries(rest) /\ pg[n] = rest[n]
    BY <1>1, <1>2, <1>4 DEF Entries
<1> QED BY <1>4, <1>5 DEF q

------------------------------------------------------------------------------
(* The steps.                                                                *)

\* The invariant holds in the beginning.
LEMMA ScanInvInit == Init => ScanInv
<1> SUFFICES ASSUME Init PROVE ScanInv
    OBVIOUS
<1> USE ScanAssumption DEF Init
<1>1. Entries(allKeys) = {} /\ Entries(listed) = {} /\ ~Running
      /\ allKeys \in Seq(Matching) /\ listed \in Seq(Matching) /\ Len(allKeys) = 0
    BY DEF Entries, Running
<1>2. TypeOK
    BY <1>1 DEF TypeOK, Absent, NoCursor
<1>3. Phases
    BY <1>1, Zenon DEF Phases
<1>4. ListedInOrder
    BY <1>1, Zenon DEF ListedInOrder, Ascending, Entries
<1>5. StayedSoFar
    BY Zenon DEF StayedSoFar
<1>6. GatheredSoFar
    BY <1>1, Zenon DEF GatheredSoFar
<1>7. SortedSoFar
    BY Zenon DEF SortedSoFar, Ranges
<1> QED BY <1>2, <1>3, <1>4, <1>5, <1>6, <1>7 DEF ScanInv

\* An expiry is a time, or 0.
LEMMA ExpiriesAreTimes == TypeOK => Expiries \subseteq Int
BY ScanAssumption DEF TypeOK, Expiries

\* The calls that change the map leave the page alone.  A key stays in stayed
\* only while it is live, and a key that becomes live is seen.
LEMMA MapStepKeeps ==
    ASSUME ScanInv,
           \/ \E k \in Keys : (\E exp \in Expiries : Set(k, exp)) \/ Delete(k) \/ Reap(k)
           \/ Tick
    PROVE  ScanInv'
<1> USE ScanAssumption
<1>1. UNCHANGED <<pc, page>> /\ UNCHANGED <<pc, scanAt, shard, allKeys, calls, i, j, limit, cursor, listed>>
    BY Zenon DEF Set, Delete, Reap, Tick, page
<1>2. /\ now' \in 1 .. MaxTime /\ now <= now' /\ db' \in [Keys -> Int]
      /\ stayed' \subseteq stayed
      /\ seen \subseteq seen' /\ seen' \subseteq Matching
    <2>1. ASSUME NEW k \in Keys, NEW exp \in Expiries, Set(k, exp) PROVE <1>2
        <3>1. now' = now /\ stayed' \subseteq stayed /\ seen \subseteq seen'
              /\ seen' \subseteq seen \cup Matching /\ db' = [db EXCEPT ![k] = exp]
            BY <2>1, Zenon DEF Set
        <3>2. exp \in Int
            BY ExpiriesAreTimes, Zenon DEF ScanInv
        <3>3. db' \in [Keys -> Int]
            BY <3>1, <3>2, Zenon DEF ScanInv, TypeOK
        <3> QED BY <3>1, <3>3 DEF ScanInv, TypeOK
    <2>2. ASSUME NEW k \in Keys, Delete(k) \/ Reap(k) PROVE <1>2
        <3>1. now' = now /\ seen' = seen /\ stayed' \subseteq stayed
              /\ db' = [db EXCEPT ![k] = -1]
            BY <2>2, Zenon DEF Delete, Reap, Absent
        <3>2. db' \in [Keys -> Int]
            BY <3>1 DEF ScanInv, TypeOK
        <3> QED BY <3>1, <3>2 DEF ScanInv, TypeOK
    <2>3. CASE Tick
        <3>1. now \in 1 .. MaxTime /\ now < MaxTime /\ now' = now + 1
            BY <2>3, Zenon DEF ScanInv, TypeOK, Tick
        <3>2. now' \in 1 .. MaxTime /\ now <= now'
            BY <3>1
        <3>3. db' = db /\ seen' = seen /\ stayed' \subseteq stayed
            BY <2>3, Zenon DEF Tick
        <3> QED BY <3>2, <3>3, Zenon DEF ScanInv, TypeOK
    <2> QED BY <2>1, <2>2, <2>3, Zenon
<1>3. TypeOK'
    BY <1>1, <1>2, Zenon DEF ScanInv, TypeOK
<1>4. Phases'
    BY <1>1, <1>2 DEF ScanInv, TypeOK, Phases, Running
<1>5. ListedInOrder'
    BY <1>1, Zenon DEF ScanInv, ListedInOrder, Ascending
<1>6. \A k \in stayed' : IsLive(db'[k], now')
    <2>1. \A k \in stayed : IsLive(db[k], now) /\ k \in Keys
        BY Zenon DEF ScanInv, StayedSoFar, TypeOK
    <2>2. ASSUME NEW k \in Keys, NEW exp \in Expiries, Set(k, exp) PROVE <1>6
        <3>1. now' = now /\ stayed' = IF IsLive(exp, now) THEN stayed ELSE stayed \ {k}
            BY <2>2, Zenon DEF Set
        <3>2. db'[k] = exp /\ \A l \in Keys : l # k => db'[l] = db[l]
            BY <2>2, Zenon DEF Set, ScanInv, TypeOK
        <3> QED BY <2>1, <3>1, <3>2, Zenon
    <2>3. ASSUME NEW k \in Keys, Delete(k) \/ Reap(k) PROVE <1>6
        <3>1. now' = now /\ stayed' \subseteq stayed /\ k \notin stayed'
            BY <2>1, <2>3, Zenon DEF Delete, Reap
        <3>2. \A l \in Keys : l # k => db'[l] = db[l]
            BY <2>3, Zenon DEF Delete, Reap, ScanInv, TypeOK
        <3> QED BY <2>1, <3>1, <3>2, Zenon
    <2>4. CASE Tick
        BY <2>4, Zenon DEF Tick
    <2> QED BY <2>2, <2>3, <2>4, Zenon
<1>7. StayedSoFar'
    BY <1>1, <1>2, <1>6, Zenon DEF ScanInv, StayedSoFar
<1>8. pc = "gather" => \A k \in Matching : IsLive(db'[k], scanAt) => k \in seen'
    <2> SUFFICES ASSUME pc = "gather", NEW l \in Matching, IsLive(db'[l], scanAt)
                 PROVE  l \in seen'
        OBVIOUS
    <2>1. IsLive(db[l], scanAt) => l \in seen'
        BY <1>2, Zenon DEF ScanInv, GatheredSoFar
    <2>2. ASSUME NEW k \in Keys, NEW exp \in Expiries, Set(k, exp) PROVE l \in seen'
        BY <2>1, <2>2, Zenon DEF Set, ScanInv, TypeOK
    <2>3. ASSUME NEW k \in Keys, Delete(k) \/ Reap(k) PROVE l \in seen'
        BY <2>1, <2>3, Zenon DEF Delete, Reap, ScanInv, TypeOK, IsLive
    <2>4. CASE Tick
        BY <2>1, <2>4, Zenon DEF Tick
    <2> QED BY <2>2, <2>3, <2>4, Zenon
<1>9. GatheredSoFar'
    BY <1>1, <1>2, <1>8, Zenon DEF ScanInv, GatheredSoFar, Running
<1>10. SortedSoFar'
    BY <1>1, Zenon DEF ScanInv, SortedSoFar
<1> QED BY <1>3, <1>4, <1>5, <1>7, <1>9, <1>10 DEF ScanInv

\* BeginPage starts with no keys and a limit that is at least 1.
LEMMA BeginPageKeeps == ASSUME ScanInv, BeginPage PROVE ScanInv'
<1> USE ScanAssumption
<1>0. /\ pc' = "gather" /\ scanAt' = now /\ shard' = 0 /\ allKeys' = <<>> /\ seen' = LiveKeys
    BY Zenon DEF BeginPage
<1>1. Entries(allKeys') = {} /\ Running' /\ ~Running /\ allKeys' \in Seq(Matching)
      /\ Len(allKeys') = 0
    BY DEF BeginPage, Entries, Running
<1>2. limit' \in Nat \ {0}
    BY DEF BeginPage, EffectiveLimit
<1>3. LiveKeys \subseteq Matching /\ \A k \in LiveKeys : IsLive(db[k], now)
    BY Zenon DEF LiveKeys
<1>4. UNCHANGED <<now, db, calls, i, j, cursor>> /\ calls = {} /\ i = 0 /\ j = 0
    BY <1>1, Zenon DEF BeginPage, ScanInv, Phases
<1>5. \/ pc = "done" /\ cursor = NoCursor /\ listed' = <<>> /\ stayed' = LiveKeys
      \/ pc # "done" /\ cursor # NoCursor /\ UNCHANGED <<listed, stayed>>
    BY <1>1, Zenon DEF BeginPage, ScanInv, Phases
<1>6. TypeOK'
    <2>1. listed' \in Seq(Matching) /\ stayed' \subseteq Matching
        <3>1. listed \in Seq(Matching) /\ stayed \subseteq Matching /\ <<>> \in Seq(Matching)
            BY DEF ScanInv, TypeOK
        <3> QED BY <1>3, <1>5, <3>1, Zenon
    <2> QED BY <1>0, <1>1, <1>3, <1>4, <2>1 DEF ScanInv, TypeOK
<1>7. Phases'
    BY <1>0, <1>1, <1>2, <1>4, <1>5 DEF ScanInv, Phases, TypeOK, Running
<1>8. ListedInOrder'
    BY <1>4, <1>5 DEF ScanInv, ListedInOrder, Ascending, Entries
<1>9. StayedSoFar'
    BY <1>0, <1>3, <1>4, <1>5, Zenon DEF ScanInv, StayedSoFar
<1>10. GatheredSoFar'
    <2>1. \A k \in stayed' : k \in Keys
        BY <1>6, Zenon DEF TypeOK
    <2>2. \A k \in Keys : ShardOf[k] \in Nat
        OBVIOUS
    <2>3. \A k \in stayed' : ~(ShardOf[k] < shard')
        <3> TAKE k \in stayed'
        <3>1. ShardOf[k] \in Nat
            BY <2>1, <2>2, Zenon
        <3> QED BY <1>0, <3>1
    <2>4. \A k \in Matching : IsLive(db'[k], scanAt') => k \in seen'
        BY <1>0, <1>4, Zenon DEF LiveKeys
    <2> QED BY <1>1, <2>3, <2>4 DEF GatheredSoFar
<1>11. SortedSoFar'
    BY <1>0, <1>4, Zenon DEF SortedSoFar, Ranges
<1> QED BY <1>6, <1>7, <1>8, <1>9, <1>10, <1>11 DEF ScanInv

\* GatherShard adds the live keys of one shard, each once.
LEMMA GatherShardKeeps == ASSUME ScanInv, GatherShard PROVE ScanInv'
<1> DEFINE L == {k \in Matching : IsLive(db[k], scanAt)}
           S == {k \in L : ShardOf[k] = shard}
<1>1. PICK s \in Injection(1 .. Cardinality(S), S) : allKeys' = allKeys \o s
    BY Zenon DEF GatherShard, Visit
<1>2. /\ pc = "gather" /\ shard < ShardCount /\ shard' = shard + 1
      /\ UNCHANGED <<now, db, pc, scanAt, calls, i, j, limit, cursor, listed, stayed, seen>>
    BY Zenon DEF GatherShard, Visit
<1>3. IsFiniteSet(S) /\ S \subseteq Matching
    <2>1. S \subseteq Keys /\ IsFiniteSet(Keys)
        BY ScanAssumption, Zenon
    <2> QED BY <2>1, FS_Subset, Zenon
<1>4. /\ s \in Seq(S) /\ \A x, y \in Entries(s) : x # y => s[x] # s[y]
      /\ \A v \in S : v \in Range(s)
    BY <1>3, Orders, Zenon
<1>5. s \in Seq(Matching) /\ \A n \in Entries(s) : s[n] \in S
    BY <1>3, <1>4, SeqMonotonic, ElementOfSeq DEF Entries
<1>6. allKeys \in Seq(Matching) /\ calls = {} /\ i = 0 /\ j = 0 /\ shard \in Nat /\ ShardCount \in Nat
    BY <1>2, ScanAssumption DEF ScanInv, TypeOK, Phases
<1> HIDE DEF S
<1>7. /\ allKeys' \in Seq(Matching) /\ Len(allKeys') = Len(allKeys) + Len(s)
      /\ \A n \in Entries(allKeys') :
            \/ n \in Entries(allKeys) /\ allKeys'[n] = allKeys[n]
            \/ n > Len(allKeys) /\ n - Len(allKeys) \in Entries(s)
               /\ allKeys'[n] = s[n - Len(allKeys)]
      /\ \A k : k \in Range(allKeys) \/ k \in Range(s) => k \in Range(allKeys')
    BY <1>1, <1>5, <1>6, Joined, Zenon
<1>8. TypeOK'
    <2>1. shard' \in 0 .. ShardCount /\ 0 \in 0 .. Len(allKeys')
        BY <1>2, <1>6, <1>7, KeysOf
    <2> QED BY <1>2, <1>6, <1>7, <2>1 DEF ScanInv, TypeOK
<1>9. Phases'
    BY <1>2, <1>6, Zenon DEF ScanInv, Phases, Running
<1>10. ListedInOrder'
    BY <1>2, Zenon DEF ScanInv, ListedInOrder, Ascending
<1>11. StayedSoFar'
    BY <1>2, Zenon DEF ScanInv, StayedSoFar
<1>12. GatheredSoFar'
    <2>1. \A n \in Entries(allKeys) : allKeys[n] \in seen /\ ShardOf[allKeys[n]] < shard
        BY Zenon DEF ScanInv, GatheredSoFar
    <2>2. \A n \in Entries(s) : s[n] \in seen /\ ShardOf[s[n]] = shard
        BY <1>2, <1>5, Zenon DEF ScanInv, GatheredSoFar, S
    <2>3. \A k \in Matching : ShardOf[k] \in Nat
        BY ScanAssumption
    <2>4. ASSUME NEW n \in Entries(allKeys') PROVE allKeys'[n] \in seen' /\ ShardOf[allKeys'[n]] < shard'
        <3>1. CASE n \in Entries(allKeys) /\ allKeys'[n] = allKeys[n]
            <4>1. ShardOf[allKeys[n]] \in Nat
                BY <1>6, <2>3, <3>1, KeysOf
            <4> QED BY <1>2, <1>6, <2>1, <3>1, <4>1
        <3>2. CASE n - Len(allKeys) \in Entries(s) /\ allKeys'[n] = s[n - Len(allKeys)]
            BY <1>2, <1>6, <2>2, <3>2
        <3> QED BY <1>7, <3>1, <3>2, Zenon
    <2>5. ASSUME NEW x \in Entries(allKeys'), NEW y \in Entries(allKeys'), x # y
          PROVE  allKeys'[x] # allKeys'[y]
        <3> DEFINE Old(n) == n \in Entries(allKeys) /\ allKeys'[n] = allKeys[n]
                   New(n) == n > Len(allKeys) /\ n - Len(allKeys) \in Entries(s)
                             /\ allKeys'[n] = s[n - Len(allKeys)]
        <3>1. x \in Int /\ y \in Int /\ Len(allKeys) \in Nat
            BY <1>6, KeysOf DEF Entries
        <3>2. (Old(x) \/ New(x)) /\ (Old(y) \/ New(y))
            BY <1>7, Zenon
        <3>3. CASE Old(x) /\ Old(y)
            BY <2>5, <3>3, Zenon DEF ScanInv, GatheredSoFar
        <3>4. CASE New(x) /\ New(y)
            <4>1. x - Len(allKeys) # y - Len(allKeys)
                BY <2>5, <3>1
            <4> QED BY <1>4, <3>4, <4>1, Zenon
        <3>5. CASE Old(x) /\ New(y)
            BY <1>6, <2>1, <2>2, <3>5
        <3>6. CASE New(x) /\ Old(y)
            BY <1>6, <2>1, <2>2, <3>6
        <3> QED BY <3>2, <3>3, <3>4, <3>5, <3>6
    <2>6. ASSUME NEW k \in stayed', ShardOf[k] < shard' PROVE k \in Range(allKeys')
        <3>1. k \in stayed /\ k \in Matching /\ IsLive(db[k], now) /\ ShardOf[k] \in Nat
            BY <1>2, <2>3, Zenon DEF ScanInv, TypeOK, StayedSoFar
        <3>2. CASE ShardOf[k] < shard
            BY <1>2, <1>7, <3>1, <3>2 DEF ScanInv, GatheredSoFar, Running
        <3>3. CASE ShardOf[k] = shard
            <4>1. scanAt \in Nat /\ scanAt <= now /\ now \in Nat /\ db[k] \in Int
                BY <1>2, <3>1, ScanAssumption DEF ScanInv, Phases, TypeOK
            <4>2. IsLive(db[k], scanAt)
                BY <3>1, <4>1 DEF IsLive
            <4> QED BY <1>4, <1>7, <3>1, <3>3, <4>2 DEF S
        <3> QED BY <1>2, <1>6, <2>6, <3>1, <3>2, <3>3
    <2>7. \A k \in Matching : IsLive(db'[k], scanAt') => k \in seen'
        BY <1>2, Zenon DEF ScanInv, GatheredSoFar
    <2> QED BY <2>4, <2>5, <2>6, <2>7 DEF GatheredSoFar
<1>13. SortedSoFar'
    BY <1>2, <1>6, Zenon DEF SortedSoFar, Ranges
<1> QED BY <1>8, <1>9, <1>10, <1>11, <1>12, <1>13 DEF ScanInv

\* partition starts with nothing looked at.
LEMMA EnterPartitioned ==
    ASSUME NEW keys \in Seq(Matching), NEW cs, Ranges(cs, Len(keys)), Enter(cs)
    PROVE  /\ calls' = cs /\ i' \in 0 .. Len(keys) /\ j' \in 0 .. Len(keys)
           /\ cs = {} => i' = 0 /\ j' = 0
           /\ \A c \in cs : Leftmost(c, cs) => Partitioned(keys, c, i', j')
<1>1. Len(keys) \in Nat
    BY KeysOf, Zenon
<1>2. CASE cs = {}
    BY <1>1, <1>2 DEF Enter
<1>3. CASE cs # {}
    <2>1. PICK c \in cs : Leftmost(c, cs) /\ i' = c[1] - 1 /\ j' = c[1]
        BY <1>3, Zenon DEF Enter
    <2>2. c[1] \in 1 .. Len(keys) /\ c[2] \in 1 .. Len(keys) /\ c[1] < c[2]
        BY Zenon DEF Ranges
    <2>3. Partitioned(keys, c, i', j')
        BY <1>1, <2>1, <2>2 DEF Partitioned
    <2>4. ASSUME NEW d \in cs, Leftmost(d, cs) PROVE d = c
        BY <1>1, <2>1, <2>4, OneLeftmost
    <2>5. i' \in 0 .. Len(keys) /\ j' \in 0 .. Len(keys)
        BY <1>1, <2>1, <2>2
    <2> QED BY <1>3, <2>3, <2>4, <2>5 DEF Enter
<1> QED BY <1>2, <1>3, Zenon

\* A step of the sort keeps the invariant when it permutes the keys and keeps
\* what is known of their order.
LEMMA SortStepKeeps ==
    ASSUME ScanInv, Running, pc' = "sort", shard = ShardCount, shard' = shard,
           UNCHANGED <<now, db, limit, cursor, listed, stayed, seen>>,
           allKeys' \in Seq(Matching), Range(allKeys') = Range(allKeys),
           \A x, y \in Entries(allKeys') : x # y => allKeys'[x] # allKeys'[y],
           i' \in 0 .. Len(allKeys'), j' \in 0 .. Len(allKeys'),
           calls' = {} => i' = 0 /\ j' = 0,
           SortedSoFar'
    PROVE  ScanInv'
<1>1. TypeOK'
    <2>1. \A c \in calls' : /\ c[1] \in 1 .. Len(allKeys') /\ c[2] \in 1 .. Len(allKeys')
                            /\ c[1] < c[2]
        BY Zenon DEF SortedSoFar, Ranges
    <2> QED BY <2>1, Zenon DEF ScanInv, TypeOK
<1>2. Phases'
    BY Zenon DEF ScanInv, Phases, Running
<1>3. ListedInOrder'
    BY Zenon DEF ScanInv, ListedInOrder, Ascending
<1>4. StayedSoFar'
    BY Zenon DEF ScanInv, StayedSoFar
<1>5. GatheredSoFar'
    <2>1. \A k \in Range(allKeys) : k \in seen /\ ShardOf[k] < shard
        BY KeysOf, Zenon DEF ScanInv, TypeOK, GatheredSoFar, Range
    <2>2. \A n \in Entries(allKeys') : allKeys'[n] \in Range(allKeys')
        BY KeysOf, Zenon DEF Range
    <2>3. \A n \in Entries(allKeys') : allKeys'[n] \in seen' /\ ShardOf[allKeys'[n]] < shard'
        BY <2>1, <2>2, Zenon
    <2>4. \A k \in stayed' : ShardOf[k] < shard' => k \in Range(allKeys')
        BY Zenon DEF ScanInv, GatheredSoFar
    <2> QED BY <2>3, <2>4, Zenon DEF GatheredSoFar
<1> QED BY <1>1, <1>2, <1>3, <1>4, <1>5 DEF ScanInv

\* In the beginning all keys may be out of order.
LEMMA SortStringsKeeps == ASSUME ScanInv, SortStrings PROVE ScanInv'
<1> DEFINE n == Len(allKeys)
           cs == QuickSort(1, n)
<1>1. /\ pc = "gather" /\ shard = ShardCount /\ pc' = "sort" /\ Enter(cs)
      /\ UNCHANGED <<now, db, shard, allKeys, limit, cursor, listed, stayed, seen>>
    BY Zenon DEF SortStrings
<1>2. allKeys \in Seq(Matching) /\ n \in Nat
    BY KeysOf, Zenon DEF ScanInv, TypeOK
<1>3. Ranges(cs, n)
    BY <1>2 DEF QuickSort, Ranges
<1>4. SortedBut(allKeys, cs)
    <2> SUFFICES ASSUME NEW x \in 1 .. n, NEW y \in 1 .. n, x < y
                 PROVE  \E c \in cs : Within(c, x, y)
        BY Zenon DEF SortedBut, Entries
    <2>1. <<1, n>> \in cs
        BY <1>2 DEF QuickSort
    <2>2. Within(<<1, n>>, x, y)
        BY <1>2 DEF Within
    <2> QED BY <2>1, <2>2, Zenon
<1> HIDE DEF cs, n
<1>5. /\ calls' = cs /\ i' \in 0 .. n /\ j' \in 0 .. n
      /\ cs = {} => i' = 0 /\ j' = 0
      /\ \A c \in cs : Leftmost(c, cs) => Partitioned(allKeys, c, i', j')
    BY <1>1, <1>2, <1>3, EnterPartitioned DEF n
<1>6. SortedSoFar'
    BY <1>1, <1>3, <1>4, <1>5 DEF SortedSoFar, n
<1>7. \A x, y \in Entries(allKeys) : x # y => allKeys[x] # allKeys[y]
    BY Zenon DEF ScanInv, GatheredSoFar
<1> QED BY <1>1, <1>2, <1>5, <1>6, <1>7, SortStepKeeps DEF Running, n

\* The range that partition works on, and what is known of it.
LEMMA CurrentRange ==
    ASSUME ScanInv, NEW c \in calls, Leftmost(c, calls)
    PROVE  /\ pc = "sort" /\ shard = ShardCount /\ allKeys \in Seq(Matching) /\ Len(allKeys) \in Nat
           /\ c[1] \in Entries(allKeys) /\ c[2] \in Entries(allKeys) /\ c[1] < c[2]
           /\ Ranges(calls, Len(allKeys)) /\ SortedBut(allKeys, calls)
           /\ Partitioned(allKeys, c, i, j)
           /\ \A x, y \in Entries(allKeys) : x # y => allKeys[x] # allKeys[y]
<1>1. pc = "sort" /\ shard = ShardCount
    BY Zenon DEF ScanInv, Phases
<1>2. allKeys \in Seq(Matching) /\ Len(allKeys) \in Nat
    BY KeysOf, Zenon DEF ScanInv, TypeOK
<1> QED BY <1>1, <1>2, Zenon DEF ScanInv, SortedSoFar, GatheredSoFar, Ranges, Entries

\* partition's loop keeps its invariant.
LEMMA PartitionStepKeeps == ASSUME ScanInv, PartitionStep PROVE ScanInv'
<1>1. PICK c \in calls :
        /\ Leftmost(c, calls) /\ j < c[2]
        /\ IF allKeys[j] < allKeys[c[2]]
           THEN i' = i + 1 /\ allKeys' = Swap(allKeys, i + 1, j)
           ELSE UNCHANGED <<i, allKeys>>
        /\ j' = j + 1
        /\ UNCHANGED <<now, db, pc, scanAt, shard, calls, limit, cursor, listed, stayed, seen>>
    BY Zenon DEF PartitionStep
<1>2. /\ pc = "sort" /\ shard = ShardCount /\ allKeys \in Seq(Matching) /\ Len(allKeys) \in Nat
      /\ c[1] \in Entries(allKeys) /\ c[2] \in Entries(allKeys) /\ c[1] < c[2]
      /\ Ranges(calls, Len(allKeys)) /\ SortedBut(allKeys, calls)
      /\ Partitioned(allKeys, c, i, j)
      /\ \A x, y \in Entries(allKeys) : x # y => allKeys[x] # allKeys[y]
    BY <1>1, CurrentRange, Zenon
<1>3. /\ i \in Int /\ j \in Int /\ c[1] \in Int /\ c[2] \in Int
      /\ 1 <= c[1] /\ c[1] - 1 <= i /\ i < j /\ j < c[2] /\ c[2] <= Len(allKeys)
    BY <1>1, <1>2 DEF Partitioned, Entries
<1>4. i + 1 \in Entries(allKeys) /\ j \in Entries(allKeys) /\ Within(c, i + 1, j)
    BY <1>2, <1>3 DEF Entries, Within
<1>5. /\ allKeys' \in Seq(Matching) /\ Len(allKeys') = Len(allKeys)
      /\ Range(allKeys') = Range(allKeys) /\ SortedBut(allKeys', calls)
      /\ \A x, y \in Entries(allKeys) : x # y => allKeys'[x] # allKeys'[y]
    <2>1. CASE allKeys' = allKeys
        BY <1>2, <2>1, Zenon
    <2>2. CASE allKeys' = Swap(allKeys, i + 1, j)
        <3>1. allKeys' \in Seq(Matching) /\ Len(allKeys') = Len(allKeys)
            BY <1>2, <1>4, <2>2, SwapElements
        <3>2. /\ Range(allKeys') = Range(allKeys)
              /\ \A x, y \in Entries(allKeys) : x # y => allKeys'[x] # allKeys'[y]
            BY <1>2, <1>4, <2>2, SwapKeeps
        <3>3. SortedBut(allKeys', calls)
            BY <1>2, <1>3, <1>4, <2>2, SwapInRange
        <3> QED BY <3>1, <3>2, <3>3, Zenon
    <2> QED BY <1>1, <2>1, <2>2, Zenon
<1>6. Partitioned(allKeys', c, i', j')
    <2>1. /\ \A x \in c[1] .. i : allKeys[x] < allKeys[c[2]]
          /\ \A x \in i + 1 .. j - 1 : allKeys[c[2]] < allKeys[x]
        BY <1>2, Zenon DEF Partitioned
    <2>2. CASE allKeys[j] < allKeys[c[2]]
        <3>1. i' = i + 1 /\ j' = j + 1
            BY <1>1, <2>2, Zenon
        <3>2. \A n \in Entries(allKeys) : allKeys'[n] =
                 IF n = j THEN allKeys[i + 1] ELSE IF n = i + 1 THEN allKeys[j] ELSE allKeys[n]
            BY <1>1, <1>2, <1>4, <2>2, SwapElements
        <3>3. allKeys'[c[2]] = allKeys[c[2]]
            BY <1>2, <1>3, <3>2
        <3>4. ASSUME NEW x \in c[1] .. i' PROVE allKeys'[x] < allKeys'[c[2]]
            <4>1. x \in Entries(allKeys) /\ x \in Int /\ c[1] <= x /\ x <= i + 1
                BY <1>2, <1>3, <3>1 DEF Entries
            <4>2. CASE x = i + 1
                <5>1. allKeys'[x] = allKeys[j]
                    BY <3>2, <4>1, <4>2
                <5> QED BY <2>2, <3>3, <5>1, Zenon
            <4>3. CASE x # i + 1
                <5>1. x \in c[1] .. i /\ x # j
                    BY <1>3, <4>1, <4>3
                <5> QED BY <2>1, <3>2, <3>3, <4>1, <4>3, <5>1
            <4> QED BY <4>2, <4>3, Zenon
        <3>5. ASSUME NEW x \in i' + 1 .. j' - 1 PROVE allKeys'[c[2]] < allKeys'[x]
            <4>1. x \in Entries(allKeys) /\ x \in Int /\ i + 2 <= x /\ x <= j
                BY <1>2, <1>3, <3>1 DEF Entries
            <4>2. CASE x = j
                <5>1. allKeys'[x] = allKeys[i + 1] /\ i + 1 \in i + 1 .. j - 1
                    BY <1>3, <3>2, <4>1, <4>2
                <5> QED BY <2>1, <3>3, <5>1, Zenon
            <4>3. CASE x # j
                <5>1. x \in i + 1 .. j - 1 /\ x # i + 1
                    BY <1>3, <4>1, <4>3
                <5> QED BY <2>1, <3>2, <3>3, <4>1, <4>3, <5>1
            <4> QED BY <4>2, <4>3, Zenon
        <3>6. i' \in Int /\ j' \in Int /\ c[1] - 1 <= i' /\ i' < j' /\ j' <= c[2]
            BY <1>3, <3>1
        <3> QED BY <3>4, <3>5, <3>6 DEF Partitioned
    <2>3. CASE ~(allKeys[j] < allKeys[c[2]])
        <3>1. i' = i /\ j' = j + 1 /\ allKeys' = allKeys
            BY <1>1, <2>3, Zenon
        <3>2. allKeys[c[2]] < allKeys[j]
            <4>1. allKeys[j] \in Nat /\ allKeys[c[2]] \in Nat
                BY <1>2, <1>4, KeysOf
            <4>2. allKeys[j] # allKeys[c[2]]
                BY <1>2, <1>3, <1>4
            <4> QED BY <2>3, <4>1, <4>2
        <3>3. \A x \in i + 1 .. j' - 1 : x = j \/ x \in i + 1 .. j - 1
            BY <1>3, <3>1
        <3>4. i' \in Int /\ j' \in Int /\ c[1] - 1 <= i' /\ i' < j' /\ j' <= c[2]
            BY <1>3, <3>1
        <3> QED BY <2>1, <3>1, <3>2, <3>3, <3>4 DEF Partitioned
    <2> QED BY <2>2, <2>3, Zenon
<1>7. ASSUME NEW d \in calls, Leftmost(d, calls) PROVE d = c
    BY <1>1, <1>2, <1>7, OneLeftmost
<1>8. SortedSoFar'
    <2>1. Ranges(calls', Len(allKeys')) /\ SortedBut(allKeys', calls')
        BY <1>1, <1>2, <1>5
    <2>2. \A d \in calls' : Leftmost(d, calls') => Partitioned(allKeys', d, i', j')
        BY <1>1, <1>6, <1>7
    <2> QED BY <2>1, <2>2, Zenon DEF SortedSoFar
<1>9. i' \in 0 .. Len(allKeys') /\ j' \in 0 .. Len(allKeys')
    <2>1. i' \in Int /\ j' \in Int /\ c[1] - 1 <= i' /\ i' < j' /\ j' <= c[2]
        BY <1>6, Zenon DEF Partitioned
    <2> QED BY <1>2, <1>3, <1>5, <2>1
<1>10. Entries(allKeys') = Entries(allKeys) /\ calls' # {} /\ pc' = "sort" /\ Running
    BY <1>1, <1>2, <1>5 DEF Entries, Running
<1> QED BY <1>1, <1>2, <1>5, <1>8, <1>9, <1>10, SortStepKeeps

\* The end of partition leaves two smaller ranges, with the pivot between them.
LEMMA PartitionEndKeeps == ASSUME ScanInv, PartitionEnd PROVE ScanInv'
<1>1. PICK c \in calls :
        /\ Leftmost(c, calls) /\ j = c[2]
        /\ allKeys' = Swap(allKeys, i + 1, c[2])
        /\ Enter((calls \ {c}) \cup QuickSort(c[1], i) \cup QuickSort(i + 2, c[2]))
        /\ UNCHANGED <<now, db, pc, scanAt, shard, limit, cursor, listed, stayed, seen>>
    BY Zenon DEF PartitionEnd
<1>2. /\ pc = "sort" /\ shard = ShardCount /\ allKeys \in Seq(Matching) /\ Len(allKeys) \in Nat
      /\ c[1] \in Entries(allKeys) /\ c[2] \in Entries(allKeys) /\ c[1] < c[2]
      /\ Ranges(calls, Len(allKeys)) /\ SortedBut(allKeys, calls)
      /\ Partitioned(allKeys, c, i, j)
      /\ \A x, y \in Entries(allKeys) : x # y => allKeys[x] # allKeys[y]
    BY <1>1, CurrentRange
<1> DEFINE p == i + 1
           cs == Halves(calls, c, p)
<1>3. /\ i \in Int /\ c[1] \in Int /\ c[2] \in Int /\ p \in Int /\ i = p - 1
      /\ 1 <= c[1] /\ c[1] <= p /\ p <= c[2] /\ c[2] <= Len(allKeys)
    BY <1>1, <1>2 DEF Partitioned, Entries
<1>4. p \in Entries(allKeys) /\ Within(c, p, c[2]) /\ p \in c[1] .. c[2]
    BY <1>2, <1>3 DEF Entries, Within
<1>5. Enter(cs)
    <2>1. i = p - 1 /\ i + 2 = p + 1
        BY <1>3
    <2> QED BY <1>1, <2>1 DEF Halves
<1>6. /\ \A x \in c[1] .. p - 1 : allKeys[x] < allKeys[c[2]]
      /\ \A x \in p .. c[2] - 1 : allKeys[c[2]] < allKeys[x]
    BY <1>1, <1>2, <1>3 DEF Partitioned
<1>7. allKeys' = Swap(allKeys, p, c[2])
    BY <1>1, Zenon
<1> HIDE DEF p, cs
<1>8. /\ allKeys' \in Seq(Matching) /\ Len(allKeys') = Len(allKeys)
      /\ \A n \in Entries(allKeys) : allKeys'[n] =
            IF n = c[2] THEN allKeys[p] ELSE IF n = p THEN allKeys[c[2]] ELSE allKeys[n]
      /\ Range(allKeys') = Range(allKeys)
      /\ \A x, y \in Entries(allKeys) : x # y => allKeys'[x] # allKeys'[y]
    <2> DEFINE h == c[2]
    <2>1. h \in Entries(allKeys) /\ allKeys' = Swap(allKeys, p, h)
        BY <1>2, <1>7
    <2> HIDE DEF h
    <2>2. /\ allKeys \in Seq(Matching) /\ p \in Entries(allKeys)
          /\ \A x, y \in Entries(allKeys) : x # y => allKeys[x] # allKeys[y]
        BY <1>2, <1>4, Zenon
    <2>3. /\ allKeys' \in Seq(Matching) /\ Len(allKeys') = Len(allKeys)
          /\ \A n \in Entries(allKeys) : allKeys'[n] =
                IF n = h THEN allKeys[p] ELSE IF n = p THEN allKeys[h] ELSE allKeys[n]
        BY <2>1, <2>2, SwapElements
    <2>4. /\ Range(allKeys') = Range(allKeys)
          /\ \A x, y \in Entries(allKeys) : x # y => allKeys'[x] # allKeys'[y]
        BY <2>1, <2>2, SwapKeeps
    <2> QED BY <2>3, <2>4 DEF h
<1>9. SortedBut(allKeys', calls)
    BY <1>2, <1>3, <1>4, <1>7, SwapInRange
<1>10. allKeys'[p] = allKeys[c[2]]
    BY <1>4, <1>8
<1>11. ASSUME NEW x \in c[1] .. p - 1 PROVE allKeys'[x] < allKeys'[p]
    <2>1. x \in Entries(allKeys) /\ x # c[2] /\ x # p
        BY <1>2, <1>3 DEF Entries
    <2> QED BY <1>6, <1>8, <1>10, <2>1
<1>12. ASSUME NEW x \in p + 1 .. c[2] PROVE allKeys'[p] < allKeys'[x]
    <2>1. x \in Entries(allKeys) /\ x # p
        BY <1>2, <1>3 DEF Entries
    <2>2. CASE x = c[2]
        <3>1. allKeys'[x] = allKeys[p] /\ p \in p .. c[2] - 1
            BY <1>3, <1>8, <2>1, <2>2
        <3> QED BY <1>6, <1>10, <3>1, Zenon
    <2>3. CASE x # c[2]
        <3>1. allKeys'[x] = allKeys[x] /\ x \in p .. c[2] - 1
            BY <1>3, <1>8, <2>1, <2>3
        <3> QED BY <1>6, <1>10, <3>1, Zenon
    <2> QED BY <2>2, <2>3, Zenon
<1>13. Ranges(cs, Len(allKeys')) /\ SortedBut(allKeys', cs)
    <2>1. Ranges(calls, Len(allKeys'))
        BY <1>2, <1>8, Zenon
    <2>2. Ranges(cs, Len(allKeys'))
        BY <1>2, <1>4, <1>8, <2>1, HalvesRanges DEF cs
    <2>3. SortedBut(allKeys', cs)
        BY <1>4, <1>8, <1>9, <1>11, <1>12, <2>1, HalvesSorted DEF cs
    <2> QED BY <2>2, <2>3, Zenon
<1>14. /\ calls' = cs /\ i' \in 0 .. Len(allKeys') /\ j' \in 0 .. Len(allKeys')
       /\ cs = {} => i' = 0 /\ j' = 0
       /\ \A d \in cs : Leftmost(d, cs) => Partitioned(allKeys', d, i', j')
    BY <1>5, <1>8, <1>13, EnterPartitioned
<1>15. SortedSoFar'
    BY <1>13, <1>14, Zenon DEF SortedSoFar
<1>16. Entries(allKeys') = Entries(allKeys) /\ pc' = "sort" /\ Running
    BY <1>1, <1>2, <1>8 DEF Entries, Running
<1> QED BY <1>1, <1>2, <1>8, <1>14, <1>15, <1>16, SortStepKeeps

\* EndPage returns, in order, the gathered keys between the old cursor and the
\* new one, or all behind the old one when no cursor is left.
PageOf(pg) ==
    /\ pg \in Seq(Matching) /\ listed' = listed \o pg /\ Sorted(pg)
    /\ \A n \in Entries(pg) : pg[n] > cursor /\ pg[n] \in Range(allKeys)
    /\ cursor' \in Matching \cup {NoCursor}
    /\ cursor' # NoCursor => cursor' > cursor /\ \A n \in Entries(pg) : pg[n] <= cursor'
    /\ \A k \in Range(allKeys) :
          k > cursor /\ (cursor' = NoCursor \/ k <= cursor') => k \in Range(pg)

\* The page and the next cursor fit together.
LEMMA PageAndCursor == ASSUME ScanInv, EndPage PROVE \E pg : PageOf(pg)
<1> DEFINE rest == AfterCursor(allKeys)
           pg == SubSeq(rest, 1, IF Len(rest) > limit THEN limit ELSE Len(rest))
<1>1. /\ pc = "sort" /\ calls = {} /\ listed' = listed \o pg /\ cursor' = NextCursor(rest)
    BY Zenon DEF EndPage
<1>2. /\ allKeys \in Seq(Matching) /\ cursor \in Matching \cup {NoCursor}
      /\ limit \in Nat \ {0} /\ SortedBut(allKeys, {})
    BY <1>1, Zenon DEF ScanInv, TypeOK, Phases, Running, SortedSoFar
<1>3. Sorted(allKeys)
    BY <1>2, Zenon DEF SortedBut, Sorted
<1>4. /\ rest \in Seq(Matching) /\ Sorted(rest)
      /\ \A n \in Entries(rest) : rest[n] > cursor /\ rest[n] \in Range(allKeys)
      /\ \A k \in Range(allKeys) : k > cursor => k \in Range(rest)
    BY <1>2, <1>3, AfterCursorRest
<1> HIDE DEF rest
<1>5. /\ pg \in Seq(Matching)
      /\ Len(pg) = IF Len(rest) > limit THEN limit ELSE Len(rest)
      /\ \A n \in Entries(pg) : n \in Entries(rest) /\ pg[n] = rest[n]
    BY <1>2, <1>4, PageCut
<1> HIDE DEF pg
<1>6. /\ Len(rest) \in Nat /\ DOMAIN rest = Entries(rest) /\ DOMAIN pg = Entries(pg)
      /\ \A n \in Entries(rest) : n \in Nat /\ rest[n] \in Matching /\ rest[n] \in Nat
    BY <1>4, <1>5, KeysOf
<1>7. Sorted(pg) /\ \A n \in Entries(pg) : pg[n] > cursor /\ pg[n] \in Range(allKeys)
    BY <1>4, <1>5, Zenon DEF Sorted
<1>8. CASE Len(rest) > limit
    <2>1. cursor' = rest[limit] /\ limit \in Entries(rest) /\ Len(pg) = limit
        BY <1>1, <1>2, <1>5, <1>6, <1>8 DEF NextCursor, Entries
    <2>2. cursor' \in Matching /\ cursor' > cursor /\ cursor' \in Nat
        BY <1>4, <1>6, <2>1
    <2>3. ASSUME NEW n \in Entries(pg) PROVE pg[n] <= cursor'
        <3>1. n \in Entries(rest) /\ pg[n] = rest[n] /\ n \in Nat /\ n <= limit /\ rest[n] \in Nat
            BY <1>2, <1>5, <1>6, <2>1 DEF Entries
        <3>2. n = limit \/ rest[n] < rest[limit]
            BY <1>2, <1>4, <2>1, <3>1 DEF Sorted
        <3> QED BY <2>1, <2>2, <3>1, <3>2
    <2>4. ASSUME NEW k \in Range(allKeys), k > cursor, cursor' = NoCursor \/ k <= cursor'
          PROVE  k \in Range(pg)
        <3>1. PICK n \in Entries(rest) : k = rest[n]
            BY <1>4, <1>6, <2>4 DEF Range
        <3>2. rest[n] <= rest[limit] /\ rest[n] \in Nat /\ rest[limit] \in Nat /\ n \in Nat
            BY <1>6, <2>1, <2>2, <2>4, <3>1, KeysPositive DEF NoCursor
        <3>3. ~(limit < n)
            BY <1>4, <2>1, <3>2 DEF Sorted
        <3>4. n \in Entries(pg)
            BY <1>2, <2>1, <3>2, <3>3 DEF Entries
        <3> QED BY <1>5, <1>6, <3>1, <3>4 DEF Range
    <2> QED BY <1>1, <1>5, <1>7, <2>2, <2>3, <2>4 DEF PageOf
<1>9. CASE ~(Len(rest) > limit)
    <2>1. cursor' = NoCursor /\ Len(pg) = Len(rest)
        BY <1>1, <1>5, <1>9 DEF NextCursor
    <2>2. ASSUME NEW k \in Range(allKeys), k > cursor PROVE k \in Range(pg)
        <3>1. PICK n \in Entries(rest) : k = rest[n]
            BY <1>4, <1>6, <2>2 DEF Range
        <3>2. n \in Entries(pg)
            BY <2>1, Zenon DEF Entries
        <3> QED BY <1>5, <1>6, <3>1, <3>2, Zenon DEF Range
    <2> QED BY <1>1, <1>5, <1>7, <2>1, <2>2 DEF PageOf
<1> QED BY <1>8, <1>9, Zenon

\* EndPage continues the listing where the page before ended.
LEMMA EndPageKeeps == ASSUME ScanInv, EndPage PROVE ScanInv'
<1>1. PICK pg : PageOf(pg)
    BY PageAndCursor, Zenon
<1>2. /\ pc = "sort" /\ calls = {} /\ pc' = (IF cursor' = NoCursor THEN "done" ELSE "between")
      /\ scanAt' = 0 /\ shard' = 0 /\ allKeys' = <<>> /\ limit' = 0 /\ seen' = {}
      /\ UNCHANGED <<now, db, calls, i, j, stayed>>
    BY Zenon DEF EndPage
<1>3. /\ listed \in Seq(Matching) /\ pg \in Seq(Matching) /\ cursor \in Nat /\ cursor' \in Nat
      /\ i = 0 /\ j = 0 /\ shard = ShardCount /\ Running /\ ~Running'
    BY <1>1, <1>2, KeysPositive DEF ScanInv, TypeOK, Phases, PageOf, Running, NoCursor
<1>4. /\ listed' \in Seq(Matching) /\ Len(listed') = Len(listed) + Len(pg)
      /\ \A n \in Entries(listed') :
            \/ n \in Entries(listed) /\ listed'[n] = listed[n]
            \/ n > Len(listed) /\ n - Len(listed) \in Entries(pg)
               /\ listed'[n] = pg[n - Len(listed)]
      /\ \A k : k \in Range(listed) \/ k \in Range(pg) => k \in Range(listed')
    BY <1>1, <1>3, Joined, Zenon DEF PageOf
<1>5. Entries(allKeys') = {} /\ allKeys' \in Seq(Matching) /\ Len(allKeys') = 0
    BY <1>2 DEF Entries
<1>6. TypeOK'
    <2>1. 0 \in 0 .. ShardCount /\ 0 \in 0 .. Len(allKeys')
        BY <1>5, ScanAssumption
    <2>2. cursor' \in Matching \cup {NoCursor}
        BY <1>1, Zenon DEF PageOf
    <2> QED BY <1>2, <1>3, <1>4, <1>5, <2>1, <2>2 DEF ScanInv, TypeOK
<1>7. Phases'
    BY <1>2, <1>3, Zenon DEF Phases, Running
<1>8. \A n \in Entries(listed) : listed[n] <= cursor /\ listed[n] \in Nat
    <2>1. CASE cursor = NoCursor
        BY <1>3, <2>1 DEF ScanInv, Phases, Entries
    <2>2. CASE cursor # NoCursor
        BY <1>3, <2>2, KeysOf, Zenon DEF ScanInv, ListedInOrder
    <2> QED BY <2>1, <2>2, Zenon
<1>9. \A n \in Entries(pg) : pg[n] \in Nat /\ pg[n] > cursor
    BY <1>1, <1>3, KeysOf DEF PageOf
<1>10. ListedInOrder'
    <2> DEFINE Old(n) == n \in Entries(listed) /\ listed'[n] = listed[n]
               New(n) == n > Len(listed) /\ n - Len(listed) \in Entries(pg)
                         /\ listed'[n] = pg[n - Len(listed)]
    <2>1. \A n \in Entries(listed') : (Old(n) \/ New(n)) /\ n \in Int
        BY <1>4 DEF Entries
    <2>2. ASSUME NEW x \in Entries(listed'), NEW y \in Entries(listed'), x < y
          PROVE  listed'[x] < listed'[y]
        <3>1. x \in Int /\ y \in Int /\ Len(listed) \in Nat
            BY <1>3, <2>1, KeysOf
        <3>2. CASE Old(x) /\ Old(y)
            BY <2>2, <3>2, Zenon DEF ScanInv, ListedInOrder, Ascending, Entries
        <3>3. CASE Old(x) /\ New(y)
            BY <1>3, <1>8, <1>9, <3>3
        <3>4. CASE New(x) /\ New(y)
            <4>1. x - Len(listed) < y - Len(listed)
                BY <2>2, <3>1
            <4> QED BY <1>1, <3>4, <4>1 DEF PageOf, Sorted
        <3>5. CASE New(x) /\ Old(y)
            BY <2>2, <3>1, <3>5 DEF Entries
        <3> QED BY <2>1, <3>2, <3>3, <3>4, <3>5
    <2>3. ASSUME cursor' # NoCursor, NEW n \in Entries(listed') PROVE listed'[n] <= cursor'
        <3>1. cursor' > cursor /\ \A m \in Entries(pg) : pg[m] <= cursor'
            BY <1>1, <2>3, Zenon DEF PageOf
        <3>2. CASE Old(n)
            BY <1>3, <1>8, <3>1, <3>2
        <3>3. CASE New(n)
            BY <3>1, <3>3
        <3> QED BY <2>1, <3>2, <3>3
    <2>4. Ascending'
        BY <2>2, Zenon DEF Ascending, Entries
    <2> QED BY <2>3, <2>4, Zenon DEF ListedInOrder
<1>11. StayedSoFar'
    <2>1. ASSUME NEW k \in stayed, cursor' = NoCursor \/ k <= cursor' PROVE k \in Range(listed')
        <3>1. k \in Matching /\ k \in Nat /\ ShardOf[k] < shard /\ k > NoCursor
            BY <1>3, KeysPositive, ScanAssumption DEF ScanInv, TypeOK, NoCursor
        <3>2. CASE k > cursor
            <4>1. k \in Range(allKeys)
                BY <1>3, <3>1, Zenon DEF ScanInv, GatheredSoFar
            <4> QED BY <1>1, <1>4, <2>1, <3>2, <4>1, Zenon DEF PageOf
        <3>3. CASE ~(k > cursor)
            <4>1. cursor # NoCursor /\ k <= cursor
                BY <1>3, <3>1, <3>3 DEF NoCursor
            <4> QED BY <1>4, <4>1, Zenon DEF ScanInv, StayedSoFar
        <3> QED BY <3>2, <3>3, Zenon
    <2>2. \A k \in stayed' : IsLive(db'[k], now')
        BY <1>2, Zenon DEF ScanInv, StayedSoFar
    <2> QED BY <1>2, <2>1, <2>2 DEF StayedSoFar
<1>12. GatheredSoFar'
    BY <1>2, <1>3, <1>5 DEF GatheredSoFar, Running
<1>13. SortedSoFar'
    BY <1>2, Zenon DEF SortedSoFar, Ranges
<1> QED BY <1>6, <1>7, <1>10, <1>11, <1>12, <1>13 DEF ScanInv

------------------------------------------------------------------------------
(* Theorems.                                                                 *)

\* Every step keeps the invariant.
LEMMA ScanInvNext == ScanInv /\ [Next]_vars => ScanInv'
<1> SUFFICES ASSUME ScanInv, [Next]_vars PROVE ScanInv'
    OBVIOUS
<1>1. CASE ScanStep
    BY <1>1, BeginPageKeeps, GatherShardKeeps, SortStringsKeeps, PartitionStepKeeps,
       PartitionEndKeeps, EndPageKeeps DEF ScanStep
<1>2. CASE \/ \E k \in Keys : (\E exp \in Expiries : Set(k, exp)) \/ Delete(k) \/ Reap(k)
           \/ Tick
    BY <1>2, MapStepKeeps, Zenon
<1>3. CASE UNCHANGED vars
    <2>1. UNCHANGED <<now, db, pc, scanAt, shard, allKeys, calls, i, j, limit, cursor,
                      listed, stayed, seen>>
        BY <1>3, Zenon DEF vars, page
    <2>2. TypeOK'
        BY <2>1, Zenon DEF ScanInv, TypeOK
    <2>3. Phases'
        BY <2>1, Zenon DEF ScanInv, Phases, Running
    <2>4. ListedInOrder'
        BY <2>1, Zenon DEF ScanInv, ListedInOrder, Ascending
    <2>5. StayedSoFar'
        BY <2>1, Zenon DEF ScanInv, StayedSoFar
    <2>6. GatheredSoFar'
        BY <2>1, Zenon DEF ScanInv, GatheredSoFar, Running
    <2>7. SortedSoFar'
        BY <2>1, Zenon DEF ScanInv, SortedSoFar
    <2> QED BY <2>2, <2>3, <2>4, <2>5, <2>6, <2>7 DEF ScanInv
<1> QED BY <1>1, <1>2, <1>3 DEF Next

\* The invariant holds throughout.
LEMMA ScanInvariant == Spec => []ScanInv
BY ScanInvInit, ScanInvNext, PTL DEF Spec

\* Every variable keeps its type: only keys with the prefix are gathered and
\* listed, and partition's indices and ranges stay within the slice it sorts.
THEOREM ScanTypes == Spec => []TypeOK
<1>1. ScanInv => TypeOK
    BY Zenon DEF ScanInv
<1> QED BY <1>1, ScanInvariant, PTL

\* A listing is in ascending order and no key appears twice, whatever happens to
\* the map between and during its pages.
THEOREM ListingAscends == Spec => []Ascending
<1>1. ScanInv => Ascending
    BY DEF ScanInv, ListedInOrder
<1> QED BY <1>1, ScanInvariant, PTL

\* A matching key that stays in the map is listed: by each page up to the cursor
\* that the page returns, by the last page without one.
THEOREM StayedAreListed == Spec => []StayedListed
<1>1. ScanInv => StayedListed
    <2> SUFFICES ASSUME ScanInv, pc \in {"between", "done"}, NEW k \in stayed,
                        cursor = NoCursor \/ k <= cursor
                 PROVE  k \in Range(listed)
        BY Zenon DEF StayedListed
    <2> QED BY Zenon DEF ScanInv, Phases, Running, StayedSoFar
<1> QED BY <1>1, ScanInvariant, PTL

\* A page lists only keys that were in the map at some moment of the Scan that
\* returned it, in an entry that had not expired at the Scan's clock read.
THEOREM ListedWereLive == Spec => ListedWasLive
<1>1. ASSUME ScanInv, [Next]_vars,
             NEW n \in Len(listed) + 1 .. Len(listed')
      PROVE  listed'[n] \in seen
    <2>1. listed \in Seq(Matching) /\ Len(listed) \in Nat /\ allKeys \in Seq(Matching)
        BY <1>1, KeysOf, Zenon DEF ScanInv, TypeOK
    <2>2. CASE EndPage
        <3>1. PICK pg : PageOf(pg)
            BY <1>1, <2>2, PageAndCursor
        <3>2. /\ pg \in Seq(Matching) /\ listed' = listed \o pg
              /\ \A m \in Entries(pg) : pg[m] \in Range(allKeys)
            BY <3>1, Zenon DEF PageOf
        <3>3. n \in Entries(listed') /\ n \notin Entries(listed)
            BY <2>1 DEF Entries
        <3>4. n - Len(listed) \in Entries(pg) /\ listed'[n] = pg[n - Len(listed)]
            BY <2>1, <3>2, <3>3, Joined
        <3>5. \A k \in Range(allKeys) : k \in seen
            BY <1>1, <2>1, KeysOf DEF ScanInv, GatheredSoFar, Range
        <3> QED BY <3>2, <3>4, <3>5
    <2>3. CASE ~EndPage
        <3>1. listed' = listed \/ listed' = <<>>
            BY <1>1, <2>3, Zenon DEF Next, ScanStep, BeginPage, GatherShard, Visit, SortStrings,
               PartitionStep, PartitionEnd, Set, Delete, Reap, Tick, vars, page
        <3> QED BY <2>1, <3>1
    <2> QED BY <2>2, <2>3, Zenon
<1>2. ScanInv /\ [Next]_vars => [\A n \in Len(listed) + 1 .. Len(listed') : listed'[n] \in seen]_vars
    BY <1>1, Zenon
<1> QED BY <1>2, ScanInvariant, PTL DEF Spec, ListedWasLive

\* Every page but the last moves the cursor up.
THEOREM CursorMovesUp == Spec => CursorAdvances
<1>1. ASSUME ScanInv, [Next]_vars, pc = "sort", pc' = "between"
      PROVE  cursor' > cursor
    <2>1. EndPage
        BY <1>1, Zenon DEF Next, ScanStep, BeginPage, GatherShard, Visit, SortStrings,
           PartitionStep, PartitionEnd, Set, Delete, Reap, Tick, vars, page
    <2>2. cursor' # NoCursor
        BY <1>1, <2>1, Zenon DEF EndPage
    <2> QED BY <1>1, <2>1, <2>2, PageAndCursor DEF PageOf
<1>2. ScanInv /\ [Next]_vars => [pc = "sort" /\ pc' = "between" => cursor' > cursor]_vars
    BY <1>1, Zenon
<1> QED BY <1>2, ScanInvariant, PTL DEF Spec, CursorAdvances
=============================================================================
