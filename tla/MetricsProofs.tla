--------------------------- MODULE MetricsProofs ---------------------------
(***************************************************************************)
(* No increment of a metric is lost, and no scrape shows a number that was *)
(* never true, for any number of requests, request keys and buckets, with  *)
(* snapshots in between.                                                   *)
(*                                                                         *)
(* The four numbers (the request counter, and the count, the sum and each  *)
(* bucket of a histogram) are kept in the same way, so one predicate,      *)
(* Books, says for each that its cells add up.  It needs that two keys     *)
(* never lead to the same cell and that a cell no key leads to is still 0; *)
(* and a goroutine must hold the pointer the map holds (Pointers): that is *)
(* what the second look under the write lock is for.                       *)
(***************************************************************************)
EXTENDS Metrics, FiniteSetTheorems, TLAPS

\* The histogram key of every request.
Way == [r \in Requests |-> PathOf[kind[r]]]

\* The keys K lead through the map m to cells of f that hold how many requests of
\* S have that key.
Tally(S, of, K, m, f) ==
    \A k \in K : Cardinality({q \in S : of[q] = k}) = IF m[k] = Nil THEN 0 ELSE f[m[k]]

Books(S, of, K, m, f) ==
    /\ of \in [Requests -> K] /\ m \in [K -> Requests \cup {Nil}] /\ f \in [Requests -> Nat]
    /\ \A k \in K : m[k] # Nil => of[m[k]] = k
    /\ \A q \in Requests : m[of[q]] # q => f[q] = 0
    /\ Tally(S, of, K, m, f)

Pointers ==
    /\ pc \in [Requests -> Labels] /\ ptr \in [Requests -> Requests \cup {Nil}]
    /\ hptr \in [Requests -> Requests \cup {Nil}] /\ slot \in [Requests -> Slots]
    /\ bucket \in [Requests -> [Slots -> Nat]]
    /\ \A r \in Requests :
        /\ pc[r] = "addcounter" => reqCounts[kind[r]] # Nil /\ ptr[r] = reqCounts[kind[r]]
        /\ pc[r] \in {"addcount", "addsum", "addbucket"}
               => histograms[Way[r]] # Nil /\ hptr[r] = histograms[Way[r]]

InBucket(b) == {r \in PastBucket : slot[r] = b}
Column(b)   == [r \in Requests |-> bucket[r][b]]

Balanced ==
    /\ Books(PastCounter, kind, Kinds, reqCounts, counter)
    /\ Books(PastCount, Way, Paths, histograms, count)
    /\ Books(PastSum, Way, Paths, histograms, sum)
    /\ \A b \in Slots : Books(InBucket(b), Way, Paths, histograms, Column(b))

------------------------------------------------------------------------------
(* Keeping books.                                                            *)

\* A cell is incremented for a request that had not been counted.
LEMMA BooksAdd ==
    ASSUME NEW S \in SUBSET Requests, NEW of, NEW K, NEW m, NEW f, Books(S, of, K, m, f),
           NEW r \in Requests \ S, m[of[r]] # Nil
    PROVE  Books(S \cup {r}, of, K, m, [f EXCEPT ![m[of[r]]] = @ + 1])
<1> DEFINE c == m[of[r]]
           g == [f EXCEPT ![c] = f[c] + 1]
<1>1. of \in [Requests -> K] /\ m \in [K -> Requests \cup {Nil}] /\ f \in [Requests -> Nat]
  BY Zenon DEF Books
<1>2. c \in Requests /\ of[c] = of[r] /\ of[r] \in K
  BY <1>1, Zenon DEF Books
<1>3. f[c] + 1 \in Nat
  BY <1>1, <1>2
<1>4. g \in [Requests -> Nat] /\ g[c] = f[c] + 1 /\ \A q \in Requests \ {c} : g[q] = f[q]
  BY <1>1, <1>2, <1>3, Zenon
<1>5. \A q \in Requests : m[of[q]] # q => g[q] = 0
  BY <1>2, <1>4, Zenon DEF Books
<1>6. ASSUME NEW k \in K
      PROVE  Cardinality({q \in S \cup {r} : of[q] = k}) = IF m[k] = Nil THEN 0 ELSE g[m[k]]
  <2>1. CASE k = of[r]
    <3> DEFINE T == {q \in S : of[q] = k}
    <3>1. {q \in S \cup {r} : of[q] = k} = T \cup {r} /\ r \notin T /\ T \subseteq Requests
      BY <2>1, Zenon
    <3>2. IsFiniteSet(T)
      BY <3>1, FS_Subset, RequestsAssumption, Zenon
    <3>3. Cardinality(T \cup {r}) = Cardinality(T) + 1
      BY <3>1, <3>2, FS_AddElement, Zenon
    <3>4. Cardinality(T) = f[c] /\ m[k] = c
      BY <2>1, Zenon DEF Books, Tally
    <3>5. QED
      BY <1>4, <2>1, <3>1, <3>3, <3>4, Zenon
  <2>2. CASE k # of[r]
    <3>1. {q \in S \cup {r} : of[q] = k} = {q \in S : of[q] = k}
      BY <2>2, Zenon
    <3>2. m[k] # Nil => m[k] \in Requests \ {c}
      BY <1>1, <1>2, <2>2, Zenon DEF Books
    <3>3. QED
      BY <1>4, <3>1, <3>2, Zenon DEF Books, Tally
  <2>3. QED
    BY <2>1, <2>2, Zenon
<1>7. QED
  BY <1>1, <1>4, <1>5, <1>6, Zenon DEF Books, Tally

\* A cell is allocated for a key that has none.
LEMMA BooksNew ==
    ASSUME NEW S, NEW of, NEW K, NEW m, NEW f, Books(S, of, K, m, f),
           NEW r \in Requests, m[of[r]] = Nil
    PROVE  Books(S, of, K, [m EXCEPT ![of[r]] = r], f)
<1> DEFINE w == [m EXCEPT ![of[r]] = r]
<1>1. of \in [Requests -> K] /\ m \in [K -> Requests \cup {Nil}] /\ f \in [Requests -> Nat]
  BY Zenon DEF Books
<1>2. /\ w \in [K -> Requests \cup {Nil}] /\ w[of[r]] = r /\ of[r] \in K
      /\ \A k \in K \ {of[r]} : w[k] = m[k]
  BY <1>1, Zenon
<1>3. r # Nil
  BY RequestsAssumption, Zenon
<1>4. \A k \in K : w[k] # Nil => of[w[k]] = k
  BY <1>2, Zenon DEF Books
<1>5. \A q \in Requests : w[of[q]] # q => f[q] = 0
  <2>1. ASSUME NEW q \in Requests, w[of[q]] # q PROVE m[of[q]] # q
    BY <1>1, <1>2, <2>1, RequestsAssumption, Zenon
  <2>2. QED
    BY <2>1, Zenon DEF Books
<1>6. f[r] = 0
  BY <1>3, Zenon DEF Books
<1>7. Tally(S, of, K, w, f)
  BY <1>2, <1>3, <1>6, Zenon DEF Books, Tally
<1>8. QED
  BY <1>1, <1>2, <1>4, <1>5, <1>7, Zenon DEF Books

------------------------------------------------------------------------------
(* The steps of a goroutine.                                                 *)

\* Which increments a request has passed, when it moves on.
LEMMA PastGo ==
    ASSUME Pointers, NEW r \in Requests, NEW l \in Labels, Go(r, l), kind' = kind, slot' = slot
    PROVE  /\ pc' \in [Requests -> Labels] /\ pc'[r] = l
           /\ \A q \in Requests \ {r} : pc'[q] = pc[q]
           /\ Way' = Way
           /\ \A q \in Requests \ {r} : /\ q \in PastCounter' <=> q \in PastCounter
                                        /\ q \in PastCount' <=> q \in PastCount
                                        /\ q \in PastSum' <=> q \in PastSum
                                        /\ q \in PastBucket' <=> q \in PastBucket
<1>1. /\ pc' \in [Requests -> Labels] /\ pc'[r] = l
      /\ \A q \in Requests \ {r} : pc'[q] = pc[q]
  BY Zenon DEF Pointers, Go
<1>2. Way' = Way
  BY Zenon DEF Way
<1>3. QED
  BY <1>1, <1>2, Zenon DEF PastCounter, PastCount, PastSum, PastBucket

\* The requests counted are requests.
LEMMA PastRequests ==
    /\ PastCounter \subseteq Requests /\ PastCount \subseteq Requests /\ PastSum \subseteq Requests
    /\ PastBucket \subseteq Requests
BY Zenon DEF PastCounter, PastCount, PastSum, PastBucket

\* A step that passes no increment.
LEMMA PastKept ==
    ASSUME Pointers, NEW r \in Requests, NEW l \in Labels, Go(r, l), kind' = kind, slot' = slot,
           \/ {pc[r], l} \subseteq {"serve", "counter", "newcounter", "addcounter"}
           \/ {pc[r], l} \subseteq {"hist", "newhist", "addcount"}
    PROVE  /\ PastCounter' = PastCounter /\ PastCount' = PastCount /\ PastSum' = PastSum
           /\ \A b \in Slots : InBucket(b)' = InBucket(b)
<1>1. /\ r \in PastCounter' <=> r \in PastCounter
      /\ r \in PastCount' <=> r \in PastCount
      /\ r \in PastSum' <=> r \in PastSum
      /\ r \in PastBucket' <=> r \in PastBucket
  BY PastGo, Zenon DEF PastCounter, PastCount, PastSum, PastBucket
<1>2. \A q \in Requests : /\ q \in PastCounter' <=> q \in PastCounter
                          /\ q \in PastCount' <=> q \in PastCount
                          /\ q \in PastSum' <=> q \in PastSum
                          /\ q \in PastBucket' <=> q \in PastBucket
  BY <1>1, PastGo, Zenon
<1>3. /\ PastCounter' \subseteq Requests /\ PastCount' \subseteq Requests
      /\ PastSum' \subseteq Requests /\ PastBucket' \subseteq Requests
  BY Zenon DEF PastCounter, PastCount, PastSum, PastBucket
<1>4. PastCounter' = PastCounter /\ PastCount' = PastCount
  BY <1>2, <1>3, PastRequests, Zenon
<1>5. PastSum' = PastSum /\ PastBucket' = PastBucket
  BY <1>2, <1>3, PastRequests, Zenon
<1>6. QED
  BY <1>4, <1>5, Zenon DEF InBucket

\* The pointers of the others survive a step that changes no pointer they hold.
LEMMA PointersKept ==
    ASSUME Pointers, NEW r \in Requests, NEW l \in Labels, Go(r, l), kind' = kind, slot' = slot,
           ptr' \in [Requests -> Requests \cup {Nil}], hptr' \in [Requests -> Requests \cup {Nil}],
           bucket' \in [Requests -> [Slots -> Nat]],
           \A q \in Requests \ {r} : ptr'[q] = ptr[q] /\ hptr'[q] = hptr[q],
           \A q \in Requests : /\ reqCounts[kind[q]] # Nil => reqCounts'[kind[q]] = reqCounts[kind[q]]
                               /\ histograms[Way[q]] # Nil => histograms'[Way[q]] = histograms[Way[q]],
           l = "addcounter" => reqCounts'[kind[r]] # Nil /\ ptr'[r] = reqCounts'[kind[r]],
           l \in {"addcount", "addsum", "addbucket"}
               => histograms'[Way[r]] # Nil /\ hptr'[r] = histograms'[Way[r]]
    PROVE  Pointers'
<1>1. /\ pc' \in [Requests -> Labels] /\ pc'[r] = l /\ Way' = Way
      /\ \A q \in Requests \ {r} : pc'[q] = pc[q]
  BY PastGo, Zenon
<1>2. ASSUME NEW q \in Requests
      PROVE  /\ pc'[q] = "addcounter" => reqCounts'[kind[q]] # Nil /\ ptr'[q] = reqCounts'[kind[q]]
             /\ pc'[q] \in {"addcount", "addsum", "addbucket"}
                    => histograms'[Way[q]] # Nil /\ hptr'[q] = histograms'[Way[q]]
  <2>1. CASE q = r
    BY <1>1, <2>1, Zenon
  <2>2. CASE q # r
    <3>1. pc'[q] = pc[q] /\ ptr'[q] = ptr[q] /\ hptr'[q] = hptr[q]
      BY <1>1, <2>2, Zenon
    <3>2. /\ pc[q] = "addcounter" => reqCounts[kind[q]] # Nil /\ ptr[q] = reqCounts[kind[q]]
          /\ pc[q] \in {"addcount", "addsum", "addbucket"}
                 => histograms[Way[q]] # Nil /\ hptr[q] = histograms[Way[q]]
      BY Zenon DEF Pointers
    <3>3. QED
      BY <3>1, <3>2, Zenon
  <2>3. QED
    BY <2>1, <2>2, Zenon
<1>3. QED
  BY <1>1, <1>2, Zenon DEF Pointers

\* Steps that increment nothing: looking up, and creating what is still missing.
LEMMA LookupStep ==
    ASSUME Pointers, Balanced, NEW r \in Requests,
           Serve(r) \/ LookupCounter(r) \/ LookupHist(r) \/ NewCounter(r) \/ NewHist(r)
    PROVE  Pointers' /\ Balanced'
<1> USE DEF Labels
<1>1. /\ kind \in [Requests -> Kinds] /\ reqCounts \in [Kinds -> Requests \cup {Nil}]
      /\ Way \in [Requests -> Paths] /\ histograms \in [Paths -> Requests \cup {Nil}]
  BY Zenon DEF Balanced, Books
<1>2. Way[r] = PathOf[kind[r]] /\ r # Nil
  BY RequestsAssumption, Zenon DEF Way
<1>3. /\ ptr \in [Requests -> Requests \cup {Nil}] /\ hptr \in [Requests -> Requests \cup {Nil}]
      /\ bucket \in [Requests -> [Slots -> Nat]]
  BY Zenon DEF Pointers
<1>4. ASSUME PastCounter' = PastCounter, PastCount' = PastCount, PastSum' = PastSum,
             \A b \in Slots : InBucket(b)' = InBucket(b), Way' = Way, kind' = kind,
             UNCHANGED cells,
             Books(PastCounter, kind, Kinds, reqCounts', counter),
             Books(PastCount, Way, Paths, histograms', count),
             Books(PastSum, Way, Paths, histograms', sum),
             \A b \in Slots : Books(InBucket(b), Way, Paths, histograms', Column(b))
      PROVE  Balanced'
  <2>1. counter' = counter /\ count' = count /\ sum' = sum /\ \A b \in Slots : Column(b)' = Column(b)
    BY <1>4, Zenon DEF cells, Column
  <2>2. QED
    BY <1>4, <2>1, Zenon DEF Balanced
<1>5. CASE Serve(r)
  <2>1. pc[r] = "serve" /\ Go(r, "counter") /\ UNCHANGED <<kind, slot, ptr, hptr, maps, cells>>
    BY <1>5, Zenon DEF Serve
  <2>2. Pointers'
    BY <1>3, <2>1, PointersKept, Zenon DEF maps, cells
  <2>3. QED
    BY <1>4, <2>1, <2>2, PastKept, PastGo, Zenon DEF maps, Balanced
<1>6. CASE LookupCounter(r)
  <2>1. PICK l \in {"newcounter", "addcounter"} :
            /\ Go(r, l) /\ (l = "addcounter" => reqCounts[kind[r]] # Nil)
            /\ pc[r] = "counter" /\ ptr' = [ptr EXCEPT ![r] = reqCounts[kind[r]]]
            /\ UNCHANGED <<kind, slot, hptr, maps, cells>>
    BY <1>6, Zenon DEF LookupCounter
  <2>2. /\ ptr' \in [Requests -> Requests \cup {Nil}] /\ ptr'[r] = reqCounts[kind[r]]
        /\ \A q \in Requests \ {r} : ptr'[q] = ptr[q]
    BY <1>1, <1>3, <2>1, Zenon
  <2>3. Pointers'
    BY <1>3, <2>1, <2>2, PointersKept, Zenon DEF maps, cells
  <2>4. QED
    BY <1>4, <2>1, <2>3, PastKept, PastGo, Zenon DEF maps, Balanced
<1>7. CASE LookupHist(r)
  <2>1. PICK l \in {"newhist", "addcount"} :
            /\ Go(r, l) /\ (l = "addcount" => histograms[Way[r]] # Nil)
            /\ pc[r] = "hist" /\ hptr' = [hptr EXCEPT ![r] = histograms[Way[r]]]
            /\ UNCHANGED <<kind, slot, ptr, maps, cells>>
    BY <1>2, <1>7, Zenon DEF LookupHist
  <2>2. /\ hptr' \in [Requests -> Requests \cup {Nil}] /\ hptr'[r] = histograms[Way[r]]
        /\ \A q \in Requests \ {r} : hptr'[q] = hptr[q]
    BY <1>1, <1>3, <2>1, Zenon
  <2>3. Pointers'
    BY <1>3, <2>1, <2>2, PointersKept, Zenon DEF maps, cells
  <2>4. QED
    BY <1>4, <2>1, <2>3, PastKept, PastGo, Zenon DEF maps, Balanced
<1>8. CASE NewCounter(r)
  <2>1. PICK c \in Requests :
            /\ c = IF reqCounts[kind[r]] = Nil THEN r ELSE reqCounts[kind[r]]
            /\ pc[r] = "newcounter" /\ Go(r, "addcounter")
            /\ reqCounts' = [reqCounts EXCEPT ![kind[r]] = c] /\ ptr' = [ptr EXCEPT ![r] = c]
            /\ UNCHANGED <<kind, slot, hptr, histograms, cells>>
    BY <1>1, <1>8, Zenon DEF NewCounter
  <2>2. /\ ptr' \in [Requests -> Requests \cup {Nil}] /\ ptr'[r] = c /\ c # Nil
        /\ \A q \in Requests \ {r} : ptr'[q] = ptr[q]
    BY <1>3, <2>1, RequestsAssumption, Zenon
  <2>3. /\ reqCounts'[kind[r]] = c /\ kind[r] \in Kinds
        /\ \A k \in Kinds : reqCounts[k] # Nil => reqCounts'[k] = reqCounts[k]
    BY <1>1, <2>1, Zenon
  <2>4. \A q \in Requests : kind[q] \in Kinds
    BY <1>1, Zenon
  <2>5. Pointers'
    BY <1>3, <2>1, <2>2, <2>3, <2>4, PointersKept, Zenon DEF cells
  <2>6. Books(PastCounter, kind, Kinds, reqCounts', counter)
    <3>1. CASE reqCounts[kind[r]] = Nil
      BY <2>1, <3>1, BooksNew, Zenon DEF Balanced
    <3>2. CASE reqCounts[kind[r]] # Nil
      <4>1. reqCounts' = reqCounts
        BY <1>1, <2>1, <3>2, Zenon
      <4>2. QED
        BY <4>1, Zenon DEF Balanced
    <3>3. QED
      BY <3>1, <3>2, Zenon
  <2>7. QED
    BY <1>4, <2>1, <2>5, <2>6, PastKept, PastGo, Zenon DEF Balanced
<1>9. CASE NewHist(r)
  <2>1. PICK c \in Requests :
            /\ c = IF histograms[Way[r]] = Nil THEN r ELSE histograms[Way[r]]
            /\ pc[r] = "newhist" /\ Go(r, "addcount")
            /\ histograms' = [histograms EXCEPT ![Way[r]] = c] /\ hptr' = [hptr EXCEPT ![r] = c]
            /\ UNCHANGED <<kind, slot, ptr, reqCounts, cells>>
    <3>1. (IF histograms[Way[r]] = Nil THEN r ELSE histograms[Way[r]]) \in Requests
      BY <1>1, Zenon
    <3>2. QED
      BY <1>2, <1>9, <3>1, Zenon DEF NewHist
  <2>2. /\ hptr' \in [Requests -> Requests \cup {Nil}] /\ hptr'[r] = c /\ c # Nil
        /\ \A q \in Requests \ {r} : hptr'[q] = hptr[q]
    BY <1>3, <2>1, RequestsAssumption, Zenon
  <2>3. /\ histograms'[Way[r]] = c /\ Way[r] \in Paths
        /\ \A p \in Paths : histograms[p] # Nil => histograms'[p] = histograms[p]
    BY <1>1, <2>1, Zenon
  <2>4. \A q \in Requests : Way[q] \in Paths
    BY <1>1, Zenon
  <2>5. Pointers'
    BY <1>3, <2>1, <2>2, <2>3, <2>4, PointersKept, Zenon DEF cells
  <2>6. ASSUME NEW S, NEW f, Books(S, Way, Paths, histograms, f)
        PROVE  Books(S, Way, Paths, histograms', f)
    <3>1. CASE histograms[Way[r]] = Nil
      BY <2>1, <2>6, <3>1, BooksNew, Zenon
    <3>2. CASE histograms[Way[r]] # Nil
      <4>1. histograms' = histograms
        BY <1>1, <2>1, <3>2, Zenon
      <4>2. QED
        BY <2>6, <4>1, Zenon
    <3>3. QED
      BY <3>1, <3>2, Zenon
  <2>7. /\ Books(PastCount, Way, Paths, histograms', count)
        /\ Books(PastSum, Way, Paths, histograms', sum)
        /\ \A b \in Slots : Books(InBucket(b), Way, Paths, histograms', Column(b))
    BY <2>6, Zenon DEF Balanced
  <2>8. QED
    BY <1>4, <2>1, <2>5, <2>7, PastKept, PastGo, Zenon DEF Balanced
<1>10. QED
  BY <1>5, <1>6, <1>7, <1>8, <1>9, Zenon

\* Steps that increment: each adds the request to what has passed that increment.
LEMMA AddStep ==
    ASSUME Pointers, Balanced, NEW r \in Requests,
           AddCounter(r) \/ AddCount(r) \/ AddSum(r) \/ AddBucket(r)
    PROVE  Pointers' /\ Balanced'
<1> USE DEF Labels
<1>1. /\ kind \in [Requests -> Kinds] /\ Way \in [Requests -> Paths]
      /\ ptr \in [Requests -> Requests \cup {Nil}] /\ hptr \in [Requests -> Requests \cup {Nil}]
      /\ bucket \in [Requests -> [Slots -> Nat]] /\ slot \in [Requests -> Slots]
  BY Zenon DEF Balanced, Books, Pointers
<1>2. /\ kind' = kind /\ slot' = slot /\ ptr' = ptr /\ hptr' = hptr
      /\ reqCounts' = reqCounts /\ histograms' = histograms
  BY Zenon DEF AddCounter, AddCount, AddSum, AddBucket, maps
<1>3. PICK l \in Labels :
          /\ Go(r, l)
          /\ \/ pc[r] = "addcounter" /\ l = "hist" /\ AddCounter(r)
             \/ pc[r] = "addcount" /\ l = "addsum" /\ AddCount(r)
             \/ pc[r] = "addsum" /\ l = "addbucket" /\ AddSum(r)
             \/ pc[r] = "addbucket" /\ l = "done" /\ AddBucket(r)
  BY Zenon DEF AddCounter, AddCount, AddSum, AddBucket
<1>4. /\ Way' = Way /\ pc'[r] = l
      /\ \A q \in Requests \ {r} : /\ q \in PastCounter' <=> q \in PastCounter
                                   /\ q \in PastCount' <=> q \in PastCount
                                   /\ q \in PastSum' <=> q \in PastSum
                                   /\ q \in PastBucket' <=> q \in PastBucket
  BY <1>2, <1>3, PastGo, Zenon
<1>5. /\ PastCounter' \subseteq Requests /\ PastCount' \subseteq Requests
      /\ PastSum' \subseteq Requests /\ PastBucket' \subseteq Requests
  BY Zenon DEF PastCounter, PastCount, PastSum, PastBucket
<1>6. bucket' \in [Requests -> [Slots -> Nat]] => Pointers'
  BY <1>1, <1>2, <1>3, PointersKept, Zenon DEF Pointers
<1>7. /\ (r \in PastCounter' <=> r \in PastCounter) => PastCounter' = PastCounter
      /\ (r \in PastCount' <=> r \in PastCount) => PastCount' = PastCount
      /\ (r \in PastSum' <=> r \in PastSum) => PastSum' = PastSum
      /\ (r \in PastBucket' <=> r \in PastBucket) => PastBucket' = PastBucket
  <2>1. ASSUME r \in PastCounter' <=> r \in PastCounter PROVE PastCounter' = PastCounter
    <3>1. \A q \in Requests : q \in PastCounter' <=> q \in PastCounter
      BY <1>4, <2>1, Zenon
    <3>2. QED
      BY <1>5, <3>1, PastRequests, Zenon
  <2>2. ASSUME r \in PastCount' <=> r \in PastCount PROVE PastCount' = PastCount
    <3>1. \A q \in Requests : q \in PastCount' <=> q \in PastCount
      BY <1>4, <2>2, Zenon
    <3>2. QED
      BY <1>5, <3>1, PastRequests, Zenon
  <2>3. ASSUME r \in PastSum' <=> r \in PastSum PROVE PastSum' = PastSum
    <3>1. \A q \in Requests : q \in PastSum' <=> q \in PastSum
      BY <1>4, <2>3, Zenon
    <3>2. QED
      BY <1>5, <3>1, PastRequests, Zenon
  <2>4. ASSUME r \in PastBucket' <=> r \in PastBucket PROVE PastBucket' = PastBucket
    <3>1. \A q \in Requests : q \in PastBucket' <=> q \in PastBucket
      BY <1>4, <2>4, Zenon
    <3>2. QED
      BY <1>5, <3>1, PastRequests, Zenon
  <2>5. QED
    BY <2>1, <2>2, <2>3, <2>4, Zenon
<1>8. ASSUME NEW S \in SUBSET Requests, NEW T \in SUBSET Requests,
             \A q \in Requests \ {r} : q \in T <=> q \in S
      PROVE  r \in T /\ r \notin S => T = S \cup {r} /\ r \in Requests \ S
  BY <1>8, Zenon
<1>9. CASE l = "hist"
  <2>1. pc[r] = "addcounter" /\ AddCounter(r)
    BY <1>3, <1>9, Zenon
  <2>2. PastCount' = PastCount /\ PastSum' = PastSum /\ PastBucket' = PastBucket
    <3>1. /\ r \in PastCount' <=> r \in PastCount
          /\ r \in PastSum' <=> r \in PastSum
          /\ r \in PastBucket' <=> r \in PastBucket
      BY <1>4, <1>9, <2>1, Zenon DEF PastCount, PastSum, PastBucket
    <3>2. QED
      BY <1>7, <3>1, Zenon
  <2>3. PastCounter' = PastCounter \cup {r} /\ r \in Requests \ PastCounter
    <3>1. r \in PastCounter' /\ r \notin PastCounter
      BY <1>4, <1>9, <2>1, Zenon DEF PastCounter, PastCount, PastSum, PastBucket
    <3>2. QED
      BY <1>4, <1>5, <1>8, <3>1, PastRequests, Zenon
  <2>4. /\ reqCounts[kind[r]] # Nil /\ count' = count /\ sum' = sum /\ bucket' = bucket
        /\ counter' = [counter EXCEPT ![reqCounts[kind[r]]] = @ + 1]
    BY <2>1, Zenon DEF Pointers, AddCounter
  <2>5. Books(PastCounter', kind, Kinds, reqCounts, counter')
    BY <2>3, <2>4, BooksAdd, PastRequests, Zenon DEF Balanced
  <2>6. \A b \in Slots : InBucket(b)' = InBucket(b) /\ Column(b)' = Column(b)
    BY <1>2, <2>2, <2>4, Zenon DEF InBucket, Column
  <2>7. QED
    BY <1>1, <1>2, <1>4, <1>6, <2>2, <2>4, <2>5, <2>6, Zenon DEF Balanced
<1>10. CASE l = "addsum"
  <2>1. pc[r] = "addcount" /\ AddCount(r)
    BY <1>3, <1>10, Zenon
  <2>2. PastCounter' = PastCounter /\ PastSum' = PastSum /\ PastBucket' = PastBucket
    <3>1. /\ r \in PastCounter' <=> r \in PastCounter
          /\ r \in PastSum' <=> r \in PastSum
          /\ r \in PastBucket' <=> r \in PastBucket
      BY <1>4, <1>10, <2>1, Zenon DEF PastCounter, PastCount, PastSum, PastBucket
    <3>2. QED
      BY <1>7, <3>1, Zenon
  <2>3. PastCount' = PastCount \cup {r} /\ r \in Requests \ PastCount
    <3>1. r \in PastCount' /\ r \notin PastCount
      BY <1>4, <1>10, <2>1, Zenon DEF PastCounter, PastCount, PastSum, PastBucket
    <3>2. QED
      BY <1>4, <1>5, <1>8, <3>1, PastRequests, Zenon
  <2>4. /\ histograms[Way[r]] # Nil /\ counter' = counter /\ sum' = sum /\ bucket' = bucket
        /\ count' = [count EXCEPT ![histograms[Way[r]]] = @ + 1]
    BY <2>1, Zenon DEF Pointers, AddCount
  <2>5. Books(PastCount', Way, Paths, histograms, count')
    BY <2>3, <2>4, BooksAdd, PastRequests, Zenon DEF Balanced
  <2>6. \A b \in Slots : InBucket(b)' = InBucket(b) /\ Column(b)' = Column(b)
    BY <1>2, <2>2, <2>4, Zenon DEF InBucket, Column
  <2>7. QED
    BY <1>1, <1>2, <1>4, <1>6, <2>2, <2>4, <2>5, <2>6, Zenon DEF Balanced
<1>11. CASE l = "addbucket"
  <2>1. pc[r] = "addsum" /\ AddSum(r)
    BY <1>3, <1>11, Zenon
  <2>2. PastCounter' = PastCounter /\ PastCount' = PastCount /\ PastBucket' = PastBucket
    <3>1. /\ r \in PastCounter' <=> r \in PastCounter
          /\ r \in PastCount' <=> r \in PastCount
          /\ r \in PastBucket' <=> r \in PastBucket
      BY <1>4, <1>11, <2>1, Zenon DEF PastCounter, PastCount, PastSum, PastBucket
    <3>2. QED
      BY <1>7, <3>1, Zenon
  <2>3. PastSum' = PastSum \cup {r} /\ r \in Requests \ PastSum
    <3>1. r \in PastSum' /\ r \notin PastSum
      BY <1>4, <1>11, <2>1, Zenon DEF PastCounter, PastCount, PastSum, PastBucket
    <3>2. QED
      BY <1>4, <1>5, <1>8, <3>1, PastRequests, Zenon
  <2>4. /\ histograms[Way[r]] # Nil /\ counter' = counter /\ count' = count /\ bucket' = bucket
        /\ sum' = [sum EXCEPT ![histograms[Way[r]]] = @ + 1]
    BY <2>1, Zenon DEF Pointers, AddSum
  <2>5. Books(PastSum', Way, Paths, histograms, sum')
    BY <2>3, <2>4, BooksAdd, PastRequests, Zenon DEF Balanced
  <2>6. \A b \in Slots : InBucket(b)' = InBucket(b) /\ Column(b)' = Column(b)
    BY <1>2, <2>2, <2>4, Zenon DEF InBucket, Column
  <2>7. QED
    BY <1>1, <1>2, <1>4, <1>6, <2>2, <2>4, <2>5, <2>6, Zenon DEF Balanced
<1>12. CASE l = "done"
  <2>1. pc[r] = "addbucket" /\ AddBucket(r)
    BY <1>3, <1>12, Zenon
  <2>2. PastCounter' = PastCounter /\ PastCount' = PastCount /\ PastSum' = PastSum
    <3>1. /\ r \in PastCounter' <=> r \in PastCounter
          /\ r \in PastCount' <=> r \in PastCount
          /\ r \in PastSum' <=> r \in PastSum
      BY <1>4, <1>12, <2>1, Zenon DEF PastCounter, PastCount, PastSum, PastBucket
    <3>2. QED
      BY <1>7, <3>1, Zenon
  <2>3. PastBucket' = PastBucket \cup {r} /\ r \in Requests \ PastBucket
    <3>1. r \in PastBucket' /\ r \notin PastBucket
      BY <1>4, <1>12, <2>1, Zenon DEF PastBucket
    <3>2. QED
      BY <1>4, <1>5, <1>8, <3>1, PastRequests, Zenon
  <2>4. PICK h \in Requests, s \in Slots : h = histograms[Way[r]] /\ s = slot[r]
    BY <1>1, <2>1, ZenonT(30) DEF Pointers
  <2>5. /\ h # Nil /\ counter' = counter /\ count' = count /\ sum' = sum
        /\ bucket' = [bucket EXCEPT ![h] = [bucket[h] EXCEPT ![s] = bucket[h][s] + 1]]
    BY <2>1, <2>4, RequestsAssumption, Zenon DEF Pointers, AddBucket
  <2>6. bucket[h][s] + 1 \in Nat
    BY <1>1
  <2>7. PICK g : g = [bucket[h] EXCEPT ![s] = bucket[h][s] + 1]
    BY Zenon
  <2>8. /\ g \in [Slots -> Nat] /\ g[s] = bucket[h][s] + 1
        /\ \A b \in Slots \ {s} : g[b] = bucket[h][b]
    BY <1>1, <2>6, <2>7, Zenon
  <2>9. /\ bucket' \in [Requests -> [Slots -> Nat]] /\ bucket'[h] = g
        /\ \A q \in Requests \ {h} : bucket'[q] = bucket[q]
    BY <1>1, <2>5, <2>7, <2>8, Zenon
  <2>10. ASSUME NEW b \in Slots PROVE Books(InBucket(b)', Way, Paths, histograms, Column(b)')
    <3>1. CASE b = s
      <4>1. InBucket(b)' = InBucket(b) \cup {r} /\ r \in Requests \ InBucket(b)
              /\ InBucket(b) \subseteq Requests
        BY <1>2, <2>3, <2>4, <3>1, PastRequests, Zenon DEF InBucket
      <4>2. Column(b)' = [Column(b) EXCEPT ![h] = @ + 1]
        BY <2>8, <2>9, <3>1 DEF Column
      <4>3. Books(InBucket(b), Way, Paths, histograms, Column(b)) /\ histograms[Way[r]] # Nil
        BY <2>4, <2>5, Zenon DEF Balanced
      <4>4. PICK S, f : S = InBucket(b) /\ f = Column(b) /\ S \in SUBSET Requests
        BY <4>1, Zenon
      <4>5. Books(S \cup {r}, Way, Paths, histograms, [f EXCEPT ![h] = @ + 1])
        BY <2>4, <4>1, <4>3, <4>4, BooksAdd, Zenon
      <4>6. QED
        BY <4>1, <4>2, <4>4, <4>5, Zenon
    <3>2. CASE b # s
      <4>1. InBucket(b)' = InBucket(b)
        BY <1>2, <2>3, <2>4, <3>2, Zenon DEF InBucket
      <4>2. Column(b)' = Column(b)
        <5>1. \A q \in Requests : bucket'[q][b] = bucket[q][b]
          BY <2>8, <2>9, <3>2, Zenon
        <5>2. QED
          BY <5>1, Zenon DEF Column
      <4>3. QED
        BY <4>1, <4>2, Zenon DEF Balanced
    <3>3. QED
      BY <3>1, <3>2, Zenon
  <2>11. QED
    BY <1>2, <1>4, <1>6, <2>2, <2>5, <2>9, <2>10, Zenon DEF Balanced
<1>13. QED
  BY <1>3, <1>9, <1>10, <1>11, <1>12, Zenon

\* Steps of the scrape and of snapshots, and stuttering, touch no counter.
LEMMA AsideStep ==
    ASSUME Pointers, Balanced, UNCHANGED <<recorder, maps, cells>> PROVE Pointers' /\ Balanced'
<1>1. /\ pc' = pc /\ kind' = kind /\ slot' = slot /\ ptr' = ptr /\ hptr' = hptr
      /\ reqCounts' = reqCounts /\ histograms' = histograms
      /\ counter' = counter /\ count' = count /\ sum' = sum /\ bucket' = bucket
  BY Zenon DEF recorder, maps, cells
<1>2. /\ PastCounter' = PastCounter /\ PastCount' = PastCount /\ PastSum' = PastSum
      /\ PastBucket' = PastBucket /\ Way' = Way
  BY <1>1, Zenon DEF PastCounter, PastCount, PastSum, PastBucket, Way
<1>3. \A b \in Slots : InBucket(b)' = InBucket(b) /\ Column(b)' = Column(b)
  BY <1>1, <1>2, Zenon DEF InBucket, Column
<1>4. QED
  BY <1>1, <1>2, <1>3, Zenon DEF Pointers, Balanced

\* The books are in order when the node starts ...
LEMMA BooksInit == Init => Pointers /\ Balanced
<1>1. SUFFICES ASSUME Init PROVE Pointers /\ Balanced
  OBVIOUS
<1>2. PastCounter = {} /\ PastCount = {} /\ PastSum = {} /\ \A b \in Slots : InBucket(b) = {}
  BY <1>1, Zenon DEF Init, PastCounter, PastCount, PastSum, PastBucket, InBucket
<1>3. Pointers
  BY <1>1 DEF Init, Pointers, Labels
<1>4. Way \in [Requests -> Paths] /\ kind \in [Requests -> Kinds]
  BY <1>1, KindsAssumption, Zenon DEF Init, Way
<1>5. ASSUME NEW of, NEW K, NEW m, NEW f, of \in [Requests -> K], m = [k \in K |-> Nil],
             f = [q \in Requests |-> 0]
      PROVE  Books({}, of, K, m, f)
  BY <1>5, FS_EmptySet DEF Books, Tally
<1>6. \A b \in Slots : Column(b) = [q \in Requests |-> 0]
  BY <1>1, Zenon DEF Init, Column
<1>7. /\ Books({}, kind, Kinds, reqCounts, counter) /\ Books({}, Way, Paths, histograms, count)
      /\ Books({}, Way, Paths, histograms, sum)
  BY <1>1, <1>4, <1>5, Zenon DEF Init
<1>8. \A b \in Slots : Books({}, Way, Paths, histograms, Column(b))
  BY <1>1, <1>4, <1>5, <1>6, Zenon DEF Init
<1>9. QED
  BY <1>2, <1>3, <1>7, <1>8, Zenon DEF Balanced

\* ... and after every step ...
LEMMA BooksNext == Pointers /\ Balanced /\ [Next]_vars => Pointers' /\ Balanced'
<1>1. CASE UNCHANGED <<recorder, maps, cells>>
  BY <1>1, AsideStep, Zenon
<1>2. ScrapeBegin \/ ScrapeStep \/ ScrapeEnd \/ SnapshotLocks \/ SnapshotUnlocks
        \/ UNCHANGED vars => UNCHANGED <<recorder, maps, cells>>
  BY Zenon DEF ScrapeBegin, ScrapeStep, ScrapeCounter, ScrapeHistograms, ScrapeSum, ScrapeCount,
               ScrapeBucket, ScrapeEnd, SnapshotLocks, SnapshotUnlocks, vars
<1>3. QED
  BY <1>1, <1>2, LookupStep, AddStep, Zenon DEF Next, RecordStep

\* ... which is to say that no count is lost.
LEMMA BalancedCounts == Balanced => NoCountLost
<1>1. SUFFICES ASSUME Balanced PROVE NoCountLost
  OBVIOUS
<1>2. ASSUME NEW k \in Kinds
      PROVE  Cardinality(OfKind(PastCounter, k)) = IF reqCounts[k] = Nil THEN 0 ELSE counter[reqCounts[k]]
  BY <1>1, Zenon DEF Balanced, Books, Tally, OfKind
<1>3. ASSUME NEW p \in Paths, NEW S \in SUBSET Requests, NEW f, Books(S, Way, Paths, histograms, f)
      PROVE  Cardinality(OfPath(S, p)) = IF histograms[p] = Nil THEN 0 ELSE f[histograms[p]]
  <2>1. OfPath(S, p) = {q \in S : Way[q] = p}
    BY Zenon DEF OfPath, Way
  <2>2. QED
    BY <1>3, <2>1, Zenon DEF Books, Tally
<1>4. ASSUME NEW p \in Paths, NEW b \in Slots
      PROVE  Cardinality({r \in OfPath(PastBucket, p) : slot[r] = b})
               = IF histograms[p] = Nil THEN 0 ELSE bucket[histograms[p]][b]
  <2>1. {r \in OfPath(PastBucket, p) : slot[r] = b} = OfPath(InBucket(b), p)
    BY Zenon DEF OfPath, InBucket
  <2>2. InBucket(b) \subseteq Requests
    BY PastRequests, Zenon DEF InBucket
  <2>3. Books(InBucket(b), Way, Paths, histograms, Column(b))
    BY <1>1, Zenon DEF Balanced
  <2>4. histograms[p] # Nil => Column(b)[histograms[p]] = bucket[histograms[p]][b]
    BY <2>3, Zenon DEF Books, Column
  <2>5. Cardinality(OfPath(InBucket(b), p))
          = IF histograms[p] = Nil THEN 0 ELSE Column(b)[histograms[p]]
    BY <1>3, <2>2, <2>3, Zenon
  <2>6. QED
    BY <2>1, <2>4, <2>5, Zenon
<1>5. ASSUME NEW p \in Paths
      PROVE  /\ Cardinality(OfPath(PastCount, p))
                  = IF histograms[p] = Nil THEN 0 ELSE count[histograms[p]]
             /\ Cardinality(OfPath(PastSum, p))
                  = IF histograms[p] = Nil THEN 0 ELSE sum[histograms[p]]
  BY <1>1, <1>3, PastRequests, Zenon DEF Balanced
<1>6. QED
  BY <1>2, <1>4, <1>5, Zenon DEF NoCountLost

\* No increment is lost, whatever goroutines look for the same missing counter at
\* the same time, and whatever scrapes and snapshots do meanwhile.
THEOREM CountsKept == Spec => []NoCountLost
BY BooksInit, BooksNext, BalancedCounts, PTL DEF Spec

------------------------------------------------------------------------------
(***************************************************************************)
(* Every number on a page lies between what had been recorded when the     *)
(* scrape began and what has been when it ends.                            *)
(*                                                                         *)
(* A counter, a sum or a count is read in one step, in which it is exactly *)
(* what has been recorded.  An le line is the sum of buckets that are read *)
(* one after the other: what the lines so far show is at most the requests *)
(* of the buckets read, and what a line still to come had to show at the   *)
(* beginning is at most the running total and the requests of the buckets  *)
(* that are still to be added to it.                                       *)
(***************************************************************************)

\* The recorded requests of p in the buckets up to the b-th, and those among them
\* in the n-th or a later one.
Read(p, b)    == {q \in PastBucket : Way[q] = p /\ slot[q] <= b}
Left(p, n, b) == {q \in Read(p, b) : slot[q] >= n}

\* Types; the scrape visits keys that the maps lead from, and its page is empty
\* between two scrapes.
ScrapeShape ==
    /\ scrape \in {"idle", "counters", "sum", "count", "buckets"} /\ at \in Slots
    /\ page \in Page /\ floor \in Page /\ walHeld \in BOOLEAN
    /\ path \in Paths \cup {Nil}
    /\ scrape = "idle" => todo = {} /\ page = Blank
    /\ scrape = "counters" => \A k \in todo : k \in Kinds /\ reqCounts[k] # Nil
    /\ scrape \in {"sum", "count", "buckets"} =>
          \A p \in todo : p \in Paths /\ histograms[p] # Nil
    /\ scrape \in {"count", "buckets"} => path \in Paths \ todo /\ histograms[path] # Nil

\* Nothing of p has been read yet.
Unread(p) == scrape = "counters" \/ p \in todo

AboveFloor ==
    /\ \A k \in Kinds : (scrape = "counters" /\ k \in todo)
                           \/ floor.counters[k] <= page.counters[k]
    /\ \A p \in Paths : Unread(p) \/ floor.sum[p] <= page.sum[p]
    /\ \A p \in Paths : Unread(p) \/ (scrape = "count" /\ p = path)
                           \/ floor.count[p] <= page.count[p]
    /\ \A p \in Paths : Unread(p) \/ (scrape \in {"count", "buckets"} /\ p = path)
                           \/ \A b \in Slots : floor.le[p][b] <= page.le[p][b]

\* The le lines of a histogram while its buckets are added up.
AddingUp ==
    scrape = "buckets" =>
        \A b \in Slots :
            /\ b < at => floor.le[path][b] <= page.le[path][b]
            /\ b >= at => floor.le[path][b] <= SoFar + Cardinality(Left(path, at, b))

\* The inductive invariant of a scrape.
ScrapeInv ==
    /\ ScrapeShape
    /\ AtMost(page, Recorded)
    /\ scrape # "idle" => AtMost(floor, Recorded) /\ AboveFloor /\ AddingUp

------------------------------------------------------------------------------
(* What has been recorded.                                                   *)

\* A set of requests and a larger one.
LEMMA CardGrows ==
    ASSUME NEW S, NEW T, S \subseteq T, T \subseteq Requests
    PROVE  /\ Cardinality(S) \in Nat /\ Cardinality(T) \in Nat
           /\ Cardinality(S) <= Cardinality(T)
<1>1. IsFiniteSet(T)
  BY FS_Subset, RequestsAssumption, Zenon
<1> QED
  BY <1>1, FS_Subset, FS_CardinalityType, Zenon

\* The requests of a key are requests.
LEMMA OfRequests ==
    /\ \A k \in Kinds : OfKind(PastCounter, k) \subseteq Requests
    /\ \A p \in Paths : /\ OfPath(PastSum, p) \subseteq Requests
                        /\ OfPath(PastCount, p) \subseteq Requests
                        /\ \A b \in Slots : UpTo(OfPath(PastBucket, p), b) \subseteq Requests
BY PastRequests, Zenon DEF OfKind, OfPath, UpTo

Parts ==
    /\ Recorded \in Page
    /\ \A k \in Kinds : Recorded.counters[k] = Cardinality(OfKind(PastCounter, k))
    /\ \A p \in Paths : /\ Recorded.sum[p] = Cardinality(OfPath(PastSum, p))
                        /\ Recorded.count[p] = Cardinality(OfPath(PastCount, p))
                        /\ \A b \in Slots :
                             Recorded.le[p][b] = Cardinality(UpTo(OfPath(PastBucket, p), b))

\* The parts of Recorded.
LEMMA RecordedParts == Parts
<1>1. \A k \in Kinds : Cardinality(OfKind(PastCounter, k)) \in Nat
  BY OfRequests, CardGrows, Zenon
<1>2. \A p \in Paths : /\ Cardinality(OfPath(PastSum, p)) \in Nat
                       /\ Cardinality(OfPath(PastCount, p)) \in Nat
                       /\ \A b \in Slots : Cardinality(UpTo(OfPath(PastBucket, p), b)) \in Nat
  BY OfRequests, CardGrows, Zenon
<1> QED
  BY <1>1, <1>2, Zenon DEF Parts, Recorded, Page

\* What the maps lead to is what has been recorded.
LEMMA Readings ==
    ASSUME Balanced
    PROVE  /\ \A k \in Kinds : Recorded.counters[k]
                = IF reqCounts[k] = Nil THEN 0 ELSE counter[reqCounts[k]]
           /\ \A p \in Paths : Recorded.sum[p]
                = IF histograms[p] = Nil THEN 0 ELSE sum[histograms[p]]
           /\ \A p \in Paths : Recorded.count[p]
                = IF histograms[p] = Nil THEN 0 ELSE count[histograms[p]]
           /\ \A p \in Paths, b \in Slots : histograms[p] = Nil => Recorded.le[p][b] = 0
<1>1. NoCountLost
  BY BalancedCounts, Zenon
<1>2. ASSUME NEW p \in Paths, NEW b \in Slots, histograms[p] = Nil PROVE Recorded.le[p][b] = 0
  <2> DEFINE U == UpTo(OfPath(PastBucket, p), b)
  <2>1. U \subseteq OfPath(PastSum, p)
    BY Zenon DEF OfPath, PastSum, UpTo
  <2>2. Cardinality(U) <= Cardinality(OfPath(PastSum, p)) /\ Cardinality(U) \in Nat
    BY <2>1, CardGrows, OfRequests, Zenon
  <2>3. Cardinality(OfPath(PastSum, p)) = 0
    BY <1>1, <1>2, Zenon DEF NoCountLost
  <2>4. Cardinality(U) = 0
    BY <2>2, <2>3
  <2> QED
    BY <2>4, RecordedParts, Zenon DEF Parts
<1>3. /\ \A k \in Kinds : Recorded.counters[k]
           = IF reqCounts[k] = Nil THEN 0 ELSE counter[reqCounts[k]]
      /\ \A p \in Paths : Recorded.sum[p]
           = IF histograms[p] = Nil THEN 0 ELSE sum[histograms[p]]
      /\ \A p \in Paths : Recorded.count[p]
           = IF histograms[p] = Nil THEN 0 ELSE count[histograms[p]]
  BY <1>1, RecordedParts, Zenon DEF NoCountLost, Parts
<1> QED
  BY <1>2, <1>3, Zenon

\* The increments a request has passed stay passed.
LEMMA PastGrows ==
    ASSUME Pointers, NEW r \in Requests, RecordStep(r)
    PROVE  /\ PastCounter \subseteq PastCounter' /\ PastCount \subseteq PastCount'
           /\ PastSum \subseteq PastSum' /\ PastBucket \subseteq PastBucket'
           /\ kind' = kind /\ slot' = slot /\ Way' = Way
           /\ PastCounter' \subseteq Requests /\ PastCount' \subseteq Requests
           /\ PastSum' \subseteq Requests /\ PastBucket' \subseteq Requests
<1> USE DEF Labels
<1>1. kind' = kind /\ slot' = slot
  BY Zenon DEF RecordStep, Serve, LookupCounter, NewCounter, AddCounter, LookupHist,
               NewHist, AddCount, AddSum, AddBucket
<1>2. PICK l \in Labels :
          /\ Go(r, l)
          /\ \/ pc[r] \in {"serve", "counter", "newcounter", "addcounter"}
             \/ pc[r] \in {"hist", "newhist"} /\ l \in {"newhist", "addcount"}
             \/ pc[r] = "addcount" /\ l = "addsum"
             \/ pc[r] = "addsum" /\ l = "addbucket"
             \/ pc[r] = "addbucket" /\ l = "done"
  BY Zenon DEF RecordStep, Serve, LookupCounter, NewCounter, AddCounter, LookupHist,
               NewHist, AddCount, AddSum, AddBucket
<1>3. /\ r \in PastCounter => r \in PastCounter'
      /\ r \in PastCount => r \in PastCount'
      /\ r \in PastSum => r \in PastSum'
      /\ r \in PastBucket => r \in PastBucket'
  BY <1>1, <1>2, PastGo, Zenon DEF PastCounter, PastCount, PastSum, PastBucket
<1>4. Way' = Way /\ \A q \in Requests : /\ q \in PastCounter => q \in PastCounter'
                                        /\ q \in PastCount => q \in PastCount'
                                        /\ q \in PastSum => q \in PastSum'
                                        /\ q \in PastBucket => q \in PastBucket'
  BY <1>1, <1>2, <1>3, PastGo, Zenon
<1>5. /\ PastCounter' \subseteq Requests /\ PastCount' \subseteq Requests
      /\ PastSum' \subseteq Requests /\ PastBucket' \subseteq Requests
  BY Zenon DEF PastCounter, PastCount, PastSum, PastBucket
<1> QED
  BY <1>1, <1>4, <1>5, PastRequests, Zenon

\* What is at most a is at most what a is at most.
LEMMA AtMostAll ==
    ASSUME NEW a \in Page, NEW b \in Page, NEW c \in Page, AtMost(a, b), AtMost(b, c)
    PROVE  AtMost(a, c)
<1>1. /\ \A k \in Kinds : /\ a.counters[k] \in Nat /\ b.counters[k] \in Nat
                          /\ c.counters[k] \in Nat
      /\ \A p \in Paths : /\ a.sum[p] \in Nat /\ b.sum[p] \in Nat /\ c.sum[p] \in Nat
                          /\ a.count[p] \in Nat /\ b.count[p] \in Nat /\ c.count[p] \in Nat
      /\ \A p \in Paths, i \in Slots : /\ a.le[p][i] \in Nat /\ b.le[p][i] \in Nat
                                        /\ c.le[p][i] \in Nat
  BY Zenon DEF Page
<1> QED
  BY <1>1 DEF AtMost

\* The numbers that have been recorded never decrease.
LEMMA RecordedGrows ==
    ASSUME Pointers, NEW r \in Requests, RecordStep(r)
    PROVE  Recorded \in Page /\ Recorded' \in Page /\ AtMost(Recorded, Recorded')
<1>1. Parts /\ Parts'
  BY RecordedParts, PTL
<1>2. ASSUME NEW k \in Kinds PROVE Recorded.counters[k] <= Recorded'.counters[k]
  <2>1. /\ OfKind(PastCounter, k) \subseteq OfKind(PastCounter, k)'
        /\ OfKind(PastCounter, k)' \subseteq Requests
    BY PastGrows, Zenon DEF OfKind
  <2> QED
    BY <1>1, <2>1, CardGrows, Zenon DEF Parts
<1>3. ASSUME NEW p \in Paths
      PROVE  /\ Recorded.sum[p] <= Recorded'.sum[p]
             /\ Recorded.count[p] <= Recorded'.count[p]
             /\ \A b \in Slots : Recorded.le[p][b] <= Recorded'.le[p][b]
  <2>1. /\ OfPath(PastSum, p) \subseteq OfPath(PastSum, p)'
        /\ OfPath(PastSum, p)' \subseteq Requests
    BY PastGrows, Zenon DEF OfPath
  <2>2. /\ OfPath(PastCount, p) \subseteq OfPath(PastCount, p)'
        /\ OfPath(PastCount, p)' \subseteq Requests
    BY PastGrows, Zenon DEF OfPath
  <2>3. \A b \in Slots : /\ UpTo(OfPath(PastBucket, p), b) \subseteq UpTo(OfPath(PastBucket, p), b)'
                         /\ UpTo(OfPath(PastBucket, p), b)' \subseteq Requests
    BY PastGrows, Zenon DEF OfPath, UpTo
  <2>4. Recorded.sum[p] <= Recorded'.sum[p]
    BY <1>1, <2>1, CardGrows, Zenon DEF Parts
  <2>5. Recorded.count[p] <= Recorded'.count[p]
    BY <1>1, <2>2, CardGrows, Zenon DEF Parts
  <2>6. ASSUME NEW b \in Slots PROVE Recorded.le[p][b] <= Recorded'.le[p][b]
    <3>1. Cardinality(UpTo(OfPath(PastBucket, p), b))
            <= Cardinality(UpTo(OfPath(PastBucket, p), b)')
      BY <2>3, CardGrows, Zenon
    <3>2. Recorded.le[p][b] = Cardinality(UpTo(OfPath(PastBucket, p), b))
      BY <1>1, Zenon DEF Parts
    <3>3. Recorded'.le[p][b] = Cardinality(UpTo(OfPath(PastBucket, p), b)')
      BY <1>1, Zenon DEF Parts
    <3> QED
      BY <3>1, <3>2, <3>3, Zenon
  <2> QED
    BY <2>4, <2>5, <2>6, Zenon
<1> QED
  BY <1>1, <1>2, <1>3, Zenon DEF Parts, AtMost

\* A record with one field replaced.
LEMMA FieldReplaced ==
    ASSUME NEW K, NEW P, NEW L, NEW a \in [counters : K, sum : P, count : P, le : L], NEW f
    PROVE  /\ a.counters \in K /\ a.sum \in P /\ a.count \in P /\ a.le \in L
           /\ LET b == [a EXCEPT !.sum = f]
              IN  /\ f \in P => b \in [counters : K, sum : P, count : P, le : L]
                  /\ b.sum = f /\ b.counters = a.counters /\ b.count = a.count /\ b.le = a.le
           /\ LET b == [a EXCEPT !.count = f]
              IN  /\ f \in P => b \in [counters : K, sum : P, count : P, le : L]
                  /\ b.count = f /\ b.counters = a.counters /\ b.sum = a.sum /\ b.le = a.le
           /\ LET b == [a EXCEPT !.le = f]
              IN  /\ f \in L => b \in [counters : K, sum : P, count : P, le : L]
                  /\ b.le = f /\ b.counters = a.counters /\ b.sum = a.sum /\ b.count = a.count
OBVIOUS

\* The running total is a number, and at most what has been recorded below.
LEMMA SoFarType ==
    ASSUME Pointers, ScrapeInv, scrape = "buckets"
    PROVE  SoFar \in Nat /\ SoFar <= Cardinality(Read(path, at - 1))
<1>1. /\ page \in Page /\ Recorded \in Page /\ path \in Paths /\ at \in Slots
      /\ AtMost(page, Recorded)
  BY RecordedParts, Zenon DEF ScrapeInv, ScrapeShape, Parts
<1>2. CASE at = 1
  <2>1. Read(path, at - 1) \subseteq Requests
    BY PastRequests, Zenon DEF Read
  <2>2. Cardinality(Read(path, at - 1)) \in Nat /\ SoFar = 0
    BY <1>2, <2>1, CardGrows, Zenon DEF SoFar
  <2> QED
    BY <2>2
<1>3. CASE at # 1
  <2>1. PICK b \in Slots : b = at - 1
    <3>1. at - 1 \in Slots
      BY <1>1, <1>3, KindsAssumption DEF Slots
    <3> QED
      BY <3>1, Zenon
  <2>2. SoFar = page.le[path][b] /\ page.le[path][b] \in Nat
    BY <1>1, <1>3, <2>1, Zenon DEF SoFar, Page
  <2>3. UpTo(OfPath(PastBucket, path), b) = Read(path, b)
    BY PastRequests, Zenon DEF UpTo, OfPath, Read, Way
  <2>4. page.le[path][b] <= Cardinality(Read(path, b))
    BY <1>1, <2>3, RecordedParts, Zenon DEF Parts, AtMost
  <2> QED
    BY <2>1, <2>2, <2>4, Zenon
<1> QED
  BY <1>2, <1>3, Zenon

\* A step of a goroutine keeps ScrapeInv.
LEMMA RecordScrape ==
    ASSUME Pointers, Balanced, ScrapeInv, NEW r \in Requests, RecordStep(r)
    PROVE  ScrapeInv'
<1>1. UNCHANGED <<scrape, todo, path, at, page, floor, walHeld>>
  BY Zenon DEF RecordStep, Serve, LookupCounter, NewCounter, AddCounter, LookupHist,
               NewHist, AddCount, AddSum, AddBucket, scraper
<1>2. /\ \A k \in Kinds : reqCounts[k] # Nil => reqCounts'[k] # Nil
      /\ \A p \in Paths : histograms[p] # Nil => histograms'[p] # Nil
  <2>1. /\ kind \in [Requests -> Kinds] /\ reqCounts \in [Kinds -> Requests \cup {Nil}]
        /\ histograms \in [Paths -> Requests \cup {Nil}] /\ r # Nil
    BY RequestsAssumption, Zenon DEF Balanced, Books
  <2>2. CASE NewCounter(r)
    BY <2>1, <2>2, Zenon DEF NewCounter
  <2>3. CASE NewHist(r)
    BY <2>1, <2>3, Zenon DEF NewHist
  <2>4. CASE ~NewCounter(r) /\ ~NewHist(r)
    BY <2>4, Zenon DEF RecordStep, Serve, LookupCounter, AddCounter, LookupHist, AddCount,
                       AddSum, AddBucket, maps
  <2> QED
    BY <2>2, <2>3, <2>4, Zenon
<1>3. ScrapeShape'
  BY <1>1, <1>2, Zenon DEF ScrapeInv, ScrapeShape
<1>4. /\ AtMost(page', Recorded')
      /\ scrape' # "idle" => AtMost(floor', Recorded')
  BY <1>1, RecordedGrows, AtMostAll, Zenon DEF ScrapeInv, ScrapeShape
<1>5. scrape' # "idle" => AboveFloor'
  BY <1>1, Zenon DEF ScrapeInv, AboveFloor, Unread
<1>6. ASSUME scrape = "buckets", NEW b \in Slots, b >= at
      PROVE  floor.le[path][b] <= SoFar + Cardinality(Left(path, at, b)')
  <2>1. Left(path, at, b) \subseteq Left(path, at, b)' /\ Left(path, at, b)' \subseteq Requests
    BY <1>1, PastGrows, Zenon DEF Left, Read
  <2>2. /\ Cardinality(Left(path, at, b)) <= Cardinality(Left(path, at, b)')
        /\ Cardinality(Left(path, at, b)) \in Nat /\ Cardinality(Left(path, at, b)') \in Nat
    BY <2>1, CardGrows, Zenon
  <2>3. floor.le[path][b] \in Nat /\ SoFar \in Nat
    <3>1. floor \in Page /\ path \in Paths
      BY <1>6, Zenon DEF ScrapeInv, ScrapeShape
    <3> QED
      BY <1>6, <3>1, SoFarType, Zenon DEF Page
  <2>4. floor.le[path][b] <= SoFar + Cardinality(Left(path, at, b))
    BY <1>6, Zenon DEF ScrapeInv, AddingUp
  <2> QED
    BY <2>2, <2>3, <2>4
<1>7. scrape' # "idle" => AddingUp'
  BY <1>1, <1>6, Zenon DEF ScrapeInv, AddingUp, SoFar
<1> QED
  BY <1>3, <1>4, <1>5, <1>7, Zenon DEF ScrapeInv

------------------------------------------------------------------------------
(* The steps of a scrape.                                                    *)

\* They record nothing.
LEMMA NothingRecorded ==
    ASSUME UNCHANGED <<recorder, maps, cells>>
    PROVE  /\ UNCHANGED <<reqCounts, histograms, counter, count, sum, bucket, slot>>
           /\ Recorded' = Recorded /\ PastBucket' = PastBucket /\ Way' = Way
<1>1. /\ UNCHANGED <<reqCounts, histograms, counter, count, sum, bucket, slot>>
      /\ pc' = pc /\ kind' = kind
  BY Zenon DEF recorder, maps, cells
<1>2. /\ PastCounter' = PastCounter /\ PastCount' = PastCount /\ PastSum' = PastSum
      /\ PastBucket' = PastBucket /\ Way' = Way
  BY <1>1, Zenon DEF PastCounter, PastCount, PastSum, PastBucket, Way
<1>3. \A k \in Kinds : OfKind(PastCounter, k)' = OfKind(PastCounter, k)
  BY <1>1, <1>2, Zenon DEF OfKind
<1>4. \A p \in Paths : /\ OfPath(PastSum, p)' = OfPath(PastSum, p)
                       /\ OfPath(PastCount, p)' = OfPath(PastCount, p)
                       /\ \A b \in Slots : UpTo(OfPath(PastBucket, p), b)'
                                            = UpTo(OfPath(PastBucket, p), b)
  BY <1>1, <1>2, Zenon DEF OfPath, UpTo
<1>5. Recorded' = Recorded
  BY <1>3, <1>4, Zenon DEF Recorded
<1> QED
  BY <1>1, <1>2, <1>5, Zenon

\* The empty page.
LEMMA BlankPage ==
    /\ Blank \in Page
    /\ \A k \in Kinds : Blank.counters[k] = 0
    /\ \A p \in Paths : /\ Blank.sum[p] = 0 /\ Blank.count[p] = 0
                        /\ \A b \in Slots : Blank.le[p][b] = 0
BY DEF Blank, Page

\* It is at most any page.
LEMMA BlankAtMost == ASSUME NEW a \in Page PROVE AtMost(Blank, a)
<1>1. /\ \A k \in Kinds : a.counters[k] \in Nat
      /\ \A p \in Paths : /\ a.sum[p] \in Nat /\ a.count[p] \in Nat
                          /\ \A b \in Slots : a.le[p][b] \in Nat
  BY Zenon DEF Page
<1> QED
  BY <1>1, BlankPage DEF AtMost

\* A scrape begins.
LEMMA BeginScrape ==
    ASSUME Balanced, ScrapeInv, ScrapeBegin
    PROVE  ScrapeInv'
<1>1. /\ scrape = "idle" /\ scrape' = "counters" /\ floor' = Recorded
      /\ todo' = {k \in Kinds : reqCounts[k] # Nil}
      /\ UNCHANGED <<path, at, page, walHeld>>
  BY Zenon DEF ScrapeBegin
<1>2. UNCHANGED <<reqCounts, histograms>> /\ Recorded' = Recorded
  BY NothingRecorded, Zenon DEF ScrapeBegin
<1>3. Recorded \in Page /\ page = Blank
  BY <1>1, RecordedParts, Zenon DEF Parts, ScrapeInv, ScrapeShape
<1>4. ScrapeShape'
  BY <1>1, <1>2, <1>3, Zenon DEF ScrapeInv, ScrapeShape
<1>5. AtMost(Recorded, Recorded)
  <2>1. /\ \A k \in Kinds : Recorded.counters[k] \in Nat
        /\ \A p \in Paths : /\ Recorded.sum[p] \in Nat /\ Recorded.count[p] \in Nat
                            /\ \A b \in Slots : Recorded.le[p][b] \in Nat
    BY <1>3, Zenon DEF Page
  <2> QED
    BY <2>1 DEF AtMost
<1>6. AtMost(page', Recorded') /\ AtMost(floor', Recorded')
  BY <1>1, <1>2, <1>3, <1>5, BlankAtMost, Zenon
<1>7. \A k \in Kinds : k \in todo' \/ floor'.counters[k] <= page'.counters[k]
  <2>1. \A k \in Kinds : k \in todo' \/ floor'.counters[k] = 0
    BY <1>1, Readings, Zenon
  <2>2. \A k \in Kinds : page'.counters[k] = 0
    BY <1>1, <1>3, BlankPage, Zenon
  <2> QED
    BY <2>1, <2>2
<1>8. AboveFloor'
  BY <1>1, <1>7, Zenon DEF AboveFloor, Unread
<1>9. AddingUp'
  BY <1>1, Zenon DEF AddingUp
<1> QED
  BY <1>4, <1>6, <1>8, <1>9, Zenon DEF ScrapeInv

\* A request counter is read.
LEMMA ReadCounter ==
    ASSUME Balanced, ScrapeInv, NEW k \in Kinds, ScrapeCounter(k)
    PROVE  ScrapeInv'
<1>1. /\ scrape = "counters" /\ k \in todo /\ todo' = todo \ {k}
      /\ page' = [page EXCEPT !.counters[k] = counter[reqCounts[k]]]
      /\ UNCHANGED <<scrape, path, at, floor, walHeld>>
  BY Zenon DEF ScrapeCounter
<1>2. UNCHANGED <<reqCounts, histograms>> /\ Recorded' = Recorded
  BY NothingRecorded, Zenon DEF ScrapeCounter
<1>3. /\ page \in Page /\ reqCounts[k] # Nil
      /\ counter[reqCounts[k]] = Recorded.counters[k] /\ Recorded.counters[k] \in Nat
  <2>1. page \in Page /\ reqCounts[k] # Nil /\ Recorded \in Page
    BY <1>1, RecordedParts, Zenon DEF ScrapeInv, ScrapeShape, Parts
  <2> QED
    BY <2>1, Readings, Zenon DEF Page
<1>4. /\ page' \in Page /\ page'.sum = page.sum /\ page'.count = page.count
      /\ page'.le = page.le /\ page'.counters[k] = Recorded.counters[k]
      /\ \A j \in Kinds \ {k} : page'.counters[j] = page.counters[j]
  <2>1. PICK v \in Nat : v = counter[reqCounts[k]] /\ v = Recorded.counters[k]
    BY <1>3, Zenon
  <2>2. page' = [page EXCEPT !.counters[k] = v]
    BY <1>1, <2>1, Zenon
  <2> QED
    BY <1>3, <2>1, <2>2, SMTT(20) DEF Page
<1>5. ScrapeShape'
  BY <1>1, <1>2, <1>4, Zenon DEF ScrapeInv, ScrapeShape
<1>6. Recorded.counters[k] <= Recorded.counters[k]
  BY <1>3
<1>7. AtMost(page', Recorded') /\ AtMost(floor', Recorded')
  BY <1>1, <1>2, <1>4, <1>6, Zenon DEF ScrapeInv, AtMost
<1>8. floor.counters[k] <= Recorded.counters[k]
  BY <1>1, Zenon DEF ScrapeInv, AtMost
<1>9. AboveFloor' /\ AddingUp'
  BY <1>1, <1>4, <1>8, Zenon DEF ScrapeInv, AboveFloor, AddingUp, Unread
<1> QED
  BY <1>5, <1>7, <1>9, Zenon DEF ScrapeInv

\* The counters are done.
LEMMA BeginHistograms ==
    ASSUME Balanced, ScrapeInv, ScrapeHistograms
    PROVE  ScrapeInv'
<1>1. /\ scrape = "counters" /\ todo = {} /\ scrape' = "sum"
      /\ todo' = {p \in Paths : histograms[p] # Nil}
      /\ UNCHANGED <<path, at, page, floor, walHeld>>
  BY Zenon DEF ScrapeHistograms
<1>2. UNCHANGED <<reqCounts, histograms>> /\ Recorded' = Recorded
  BY NothingRecorded, Zenon DEF ScrapeHistograms
<1>3. ScrapeShape'
  BY <1>1, <1>2, Zenon DEF ScrapeInv, ScrapeShape
<1>4. AtMost(page', Recorded') /\ AtMost(floor', Recorded')
  BY <1>1, <1>2, Zenon DEF ScrapeInv
<1>5. ASSUME NEW p \in Paths, p \notin todo'
      PROVE  /\ floor.sum[p] <= page.sum[p] /\ floor.count[p] <= page.count[p]
             /\ \A b \in Slots : floor.le[p][b] <= page.le[p][b]
  <2>1. Recorded.sum[p] = 0 /\ Recorded.count[p] = 0 /\ \A b \in Slots : Recorded.le[p][b] = 0
    BY <1>1, <1>5, Readings, Zenon
  <2>2. /\ floor.sum[p] <= Recorded.sum[p] /\ floor.count[p] <= Recorded.count[p]
        /\ \A b \in Slots : floor.le[p][b] <= Recorded.le[p][b]
    BY <1>1, Zenon DEF ScrapeInv, AtMost
  <2>3. /\ floor.sum[p] \in Nat /\ floor.count[p] \in Nat
        /\ page.sum[p] \in Nat /\ page.count[p] \in Nat
        /\ \A b \in Slots : floor.le[p][b] \in Nat /\ page.le[p][b] \in Nat
    <3>1. floor \in Page /\ page \in Page
      BY Zenon DEF ScrapeInv, ScrapeShape
    <3> QED
      BY <3>1, Zenon DEF Page
  <2> QED
    BY <2>1, <2>2, <2>3
<1>6. AboveFloor'
  BY <1>1, <1>5, Zenon DEF ScrapeInv, AboveFloor, Unread
<1>7. AddingUp'
  BY <1>1, Zenon DEF ScrapeInv, AddingUp, Unread
<1> QED
  BY <1>3, <1>4, <1>6, <1>7, Zenon DEF ScrapeInv

\* The sum of a histogram is read ...
LEMMA ReadSum ==
    ASSUME Balanced, ScrapeInv, NEW p \in Paths, ScrapeSum(p)
    PROVE  ScrapeInv'
<1>1. /\ scrape = "sum" /\ p \in todo /\ todo' = todo \ {p} /\ scrape' = "count"
      /\ path' = p /\ page' = [page EXCEPT !.sum[p] = sum[histograms[p]]]
      /\ UNCHANGED <<at, floor, walHeld>>
  BY Zenon DEF ScrapeSum
<1>2. UNCHANGED <<reqCounts, histograms>> /\ Recorded' = Recorded
  BY NothingRecorded, Zenon DEF ScrapeSum
<1>3. page \in Page /\ Recorded \in Page /\ histograms[p] # Nil
  BY <1>1, RecordedParts, Zenon DEF ScrapeInv, ScrapeShape, Parts
<1>4. PICK v \in Nat : v = sum[histograms[p]] /\ v = Recorded.sum[p]
  BY <1>3, Readings, Zenon DEF Page
<1>5. page' = [page EXCEPT !.sum[p] = v]
  BY <1>1, <1>4, Zenon
<1>6. /\ page' \in Page /\ page'.counters = page.counters /\ page'.count = page.count
      /\ page'.le = page.le /\ page'.sum[p] = v
      /\ \A q \in Paths \ {p} : page'.sum[q] = page.sum[q]
  <2>1. PICK f \in [Paths -> Nat] : f = page.sum
    BY <1>3, FieldReplaced, Zenon DEF Page
  <2> DEFINE g == [f EXCEPT ![p] = v]
  <2>2. /\ g \in [Paths -> Nat] /\ g[p] = v
        /\ \A q \in Paths \ {p} : g[q] = f[q]
    BY <1>3, Zenon
  <2>3. page' = [page EXCEPT !.sum = g]
    BY <1>5, <2>1, Zenon
  <2> HIDE DEF g
  <2> QED
    BY <1>3, <2>1, <2>2, <2>3, FieldReplaced, Zenon DEF Page
<1>7. ScrapeShape'
  BY <1>1, <1>2, <1>3, <1>6, Zenon DEF ScrapeInv, ScrapeShape
<1>8. v <= v
  BY <1>4
<1>9. AtMost(page', Recorded') /\ AtMost(floor', Recorded')
  BY <1>1, <1>2, <1>4, <1>6, <1>8, Zenon DEF ScrapeInv, AtMost
<1>10. floor.sum[p] <= v
  BY <1>1, <1>4, Zenon DEF ScrapeInv, AtMost
<1>11. AboveFloor' /\ AddingUp'
  BY <1>1, <1>6, <1>10, Zenon DEF ScrapeInv, AboveFloor, AddingUp, Unread
<1> QED
  BY <1>7, <1>9, <1>11, Zenon DEF ScrapeInv

\* ... and then its count.
LEMMA ReadCount ==
    ASSUME Pointers, Balanced, ScrapeInv, ScrapeCount
    PROVE  ScrapeInv'
<1>1. /\ scrape = "count" /\ scrape' = "buckets" /\ at' = 1
      /\ page' = [page EXCEPT !.count[path] = count[histograms[path]]]
      /\ UNCHANGED <<todo, path, floor, walHeld>>
  BY Zenon DEF ScrapeCount
<1>2. UNCHANGED <<reqCounts, histograms>> /\ Recorded' = Recorded /\ Way' = Way
      /\ PastBucket' = PastBucket /\ slot' = slot
  BY NothingRecorded, Zenon DEF ScrapeCount
<1>3. /\ page \in Page /\ Recorded \in Page /\ path \in Paths \ todo
      /\ histograms[path] # Nil
  BY <1>1, RecordedParts, Zenon DEF ScrapeInv, ScrapeShape, Parts
<1>4. PICK v \in Nat : v = count[histograms[path]] /\ v = Recorded.count[path]
  BY <1>3, Readings, Zenon DEF Page
<1>5. page' = [page EXCEPT !.count[path] = v]
  BY <1>1, <1>4, Zenon
<1>6. /\ page' \in Page /\ page'.counters = page.counters /\ page'.sum = page.sum
      /\ page'.le = page.le /\ page'.count[path] = v
      /\ \A q \in Paths \ {path} : page'.count[q] = page.count[q]
  <2>1. PICK f \in [Paths -> Nat] : f = page.count
    BY <1>3, FieldReplaced, Zenon DEF Page
  <2> DEFINE g == [f EXCEPT ![path] = v]
  <2>2. /\ g \in [Paths -> Nat] /\ g[path] = v
        /\ \A q \in Paths \ {path} : g[q] = f[q]
    BY <1>3, Zenon
  <2>3. page' = [page EXCEPT !.count = g]
    BY <1>5, <2>1, Zenon
  <2> HIDE DEF g
  <2> QED
    BY <1>3, <2>1, <2>2, <2>3, FieldReplaced, Zenon DEF Page
<1>7. 1 \in Slots
  BY KindsAssumption DEF Slots
<1>8. ScrapeShape'
  BY <1>1, <1>2, <1>3, <1>6, <1>7, Zenon DEF ScrapeInv, ScrapeShape
<1>9. v <= v
  BY <1>4
<1>10. AtMost(page', Recorded') /\ AtMost(floor', Recorded')
  BY <1>1, <1>2, <1>4, <1>6, <1>9, Zenon DEF ScrapeInv, AtMost
<1>11. floor.count[path] <= v
  BY <1>1, <1>3, <1>4, Zenon DEF ScrapeInv, AtMost
<1>12. AboveFloor'
  BY <1>1, <1>6, <1>11, Zenon DEF ScrapeInv, AboveFloor, Unread
<1>13. ASSUME NEW b \in Slots
       PROVE  floor.le[path][b] <= 0 + Cardinality(Left(path, 1, b)) /\ ~(b < 1)
  <2>1. Left(path, 1, b) = UpTo(OfPath(PastBucket, path), b)
    <3>1. \A q \in PastBucket : slot[q] >= 1 /\ Way[q] = PathOf[kind[q]]
      <4>1. \A q \in PastBucket : slot[q] \in Slots /\ Way[q] = PathOf[kind[q]]
        BY PastRequests, Zenon DEF Pointers, Way
      <4> QED
        BY <4>1 DEF Slots
    <3> QED
      BY <3>1, Zenon DEF Left, Read, OfPath, UpTo
  <2>2. /\ floor.le[path][b] <= Cardinality(Left(path, 1, b))
        /\ Cardinality(Left(path, 1, b)) \in Nat
    BY <1>1, <1>3, <2>1, OfRequests, CardGrows, RecordedParts, Zenon
    DEF Parts, ScrapeInv, AtMost
  <2> QED
    BY <2>2 DEF Slots
<1>14. AddingUp'
  BY <1>1, <1>2, <1>13, Zenon DEF AddingUp, SoFar, Left, Read
<1> QED
  BY <1>8, <1>10, <1>12, <1>14, Zenon DEF ScrapeInv

\* The size of a disjoint union.
LEMMA DisjointUnion ==
    ASSUME NEW S, NEW T, IsFiniteSet(S), IsFiniteSet(T), S \cap T = {}
    PROVE  Cardinality(S \cup T) = Cardinality(S) + Cardinality(T)
<1>1. Cardinality(S) \in Nat /\ Cardinality(T) \in Nat
  BY FS_CardinalityType, Zenon
<1>2. Cardinality(S \cap T) = 0
  BY FS_EmptySet, Zenon
<1>3. Cardinality(S \cup T) = Cardinality(S) + Cardinality(T) - Cardinality(S \cap T)
  BY FS_Union, Zenon
<1> QED
  BY <1>1, <1>2, <1>3

\* Reading the n-th bucket moves its requests from those left to those read.
LEMMA BucketMoves ==
    ASSUME Pointers, Balanced, NEW p \in Paths, NEW n \in Slots, histograms[p] # Nil
    PROVE  LET c == bucket[histograms[p]][n]
           IN  /\ c \in Nat /\ Cardinality(Read(p, n - 1)) \in Nat
               /\ Cardinality(Read(p, n)) = Cardinality(Read(p, n - 1)) + c
               /\ \A b \in Slots : b >= n =>
                    /\ Cardinality(Left(p, n + 1, b)) \in Nat
                    /\ Cardinality(Left(p, n, b)) = c + Cardinality(Left(p, n + 1, b))
<1> DEFINE A == {q \in OfPath(PastBucket, p) : slot[q] = n}
<1>1. Cardinality(A) = bucket[histograms[p]][n]
  BY BalancedCounts, Zenon DEF NoCountLost
<1>2. \A q \in PastBucket : slot[q] \in Nat /\ Way[q] = PathOf[kind[q]]
  <2>1. \A q \in PastBucket : slot[q] \in Slots /\ Way[q] = PathOf[kind[q]]
    BY PastRequests, Zenon DEF Pointers, Way
  <2> QED
    BY <2>1 DEF Slots
<1>3. n \in Nat /\ Slots \subseteq Nat
  BY DEF Slots
<1>4. \A q : q \in A <=> q \in PastBucket /\ Way[q] = p /\ slot[q] = n
  BY <1>2, Zenon DEF OfPath
<1> HIDE DEF A
<1>5. A \subseteq Requests /\ \A b : Read(p, b) \subseteq Requests
  BY <1>4, PastRequests, Zenon DEF Read
<1>6. IsFiniteSet(A) /\ \A b : IsFiniteSet(Read(p, b))
  BY <1>5, FS_Subset, RequestsAssumption, Zenon
<1>7. Cardinality(A) \in Nat /\ Cardinality(Read(p, n - 1)) \in Nat
  BY <1>6, FS_CardinalityType, Zenon
<1>8. Cardinality(Read(p, n)) = Cardinality(Read(p, n - 1)) + Cardinality(A)
  <2>1. \A q \in PastBucket : /\ slot[q] <= n <=> slot[q] <= n - 1 \/ slot[q] = n
                              /\ ~(slot[q] <= n - 1 /\ slot[q] = n)
    BY <1>2, <1>3
  <2>2. Read(p, n) = Read(p, n - 1) \cup A
    BY <1>4, <2>1, Zenon DEF Read
  <2>3. Read(p, n - 1) \cap A = {}
    BY <1>4, <2>1, Zenon DEF Read
  <2> QED
    BY <1>6, <2>2, <2>3, DisjointUnion, Zenon
<1>9. ASSUME NEW b \in Slots, b >= n
      PROVE  /\ Cardinality(Left(p, n + 1, b)) \in Nat
             /\ Cardinality(Left(p, n, b)) = Cardinality(A) + Cardinality(Left(p, n + 1, b))
  <2>1. \A q \in PastBucket : /\ slot[q] >= n <=> slot[q] = n \/ slot[q] >= n + 1
                              /\ ~(slot[q] >= n + 1 /\ slot[q] = n)
                              /\ slot[q] = n => slot[q] <= b
    BY <1>2, <1>3, <1>9
  <2>2. Left(p, n, b) = A \cup Left(p, n + 1, b)
    BY <1>4, <2>1, Zenon DEF Left, Read
  <2>3. A \cap Left(p, n + 1, b) = {}
    BY <1>4, <2>1, Zenon DEF Left, Read
  <2>4. Left(p, n + 1, b) \subseteq Requests
    BY <1>5, Zenon DEF Left
  <2>5. IsFiniteSet(Left(p, n + 1, b)) /\ Cardinality(Left(p, n + 1, b)) \in Nat
    BY <2>4, FS_Subset, FS_CardinalityType, RequestsAssumption, Zenon
  <2> QED
    BY <1>6, <2>2, <2>3, <2>5, DisjointUnion, Zenon
<1> QED
  BY <1>1, <1>7, <1>8, <1>9, Zenon

\* A bucket is read and added.
LEMMA ReadBucket ==
    ASSUME Pointers, Balanced, ScrapeInv, ScrapeBucket
    PROVE  ScrapeInv'
<1>1. /\ scrape = "buckets" /\ UNCHANGED <<todo, floor, walHeld>>
      /\ page' = [page EXCEPT !.le[path][at] = SoFar + bucket[histograms[path]][at]]
  BY Zenon DEF ScrapeBucket, Cumulative
<1>2. /\ UNCHANGED <<reqCounts, histograms>> /\ Recorded' = Recorded /\ Way' = Way
      /\ PastBucket' = PastBucket /\ slot' = slot
  BY NothingRecorded, Zenon DEF ScrapeBucket
<1>3. /\ page \in Page /\ floor \in Page /\ Recorded \in Page
      /\ path \in Paths \ todo /\ histograms[path] # Nil /\ at \in Slots
  BY <1>1, RecordedParts, Zenon DEF ScrapeInv, ScrapeShape, Parts
<1>4. PICK c \in Nat :
         /\ c = bucket[histograms[path]][at]
         /\ Cardinality(Read(path, at - 1)) \in Nat
         /\ Cardinality(Read(path, at)) = Cardinality(Read(path, at - 1)) + c
         /\ \A b \in Slots : b >= at =>
              /\ Cardinality(Left(path, at + 1, b)) \in Nat
              /\ Cardinality(Left(path, at, b)) = c + Cardinality(Left(path, at + 1, b))
  BY <1>3, BucketMoves, Zenon
<1>5. PICK v \in Nat : v = SoFar + c
  BY <1>1, <1>4, SoFarType
<1>6. page' = [page EXCEPT !.le[path][at] = v]
  BY <1>1, <1>4, <1>5, Zenon
<1>7. /\ page' \in Page /\ page'.counters = page.counters /\ page'.sum = page.sum
      /\ page'.count = page.count /\ page'.le[path][at] = v
      /\ \A b \in Slots \ {at} : page'.le[path][b] = page.le[path][b]
      /\ \A q \in Paths \ {path} : page'.le[q] = page.le[q]
  <2>1. PICK f \in [Paths -> [Slots -> Nat]] : f = page.le
    BY <1>3, FieldReplaced, Zenon DEF Page
  <2>2. PICK l \in [Slots -> Nat] : l = f[path]
    BY <1>3, Zenon
  <2> DEFINE g == [l EXCEPT ![at] = v]
             h == [f EXCEPT ![path] = g]
  <2>3. g \in [Slots -> Nat] /\ g[at] = v /\ \A b \in Slots \ {at} : g[b] = l[b]
    BY <1>3, Zenon
  <2>4. page' = [page EXCEPT !.le = h]
    BY <1>6, <2>1, <2>2, Zenon
  <2> HIDE DEF g
  <2>5. /\ h \in [Paths -> [Slots -> Nat]] /\ h[path] = g
        /\ \A q \in Paths \ {path} : h[q] = f[q]
    BY <1>3, <2>3, Zenon
  <2> HIDE DEF h
  <2>6. /\ page' \in Page /\ page'.counters = page.counters /\ page'.sum = page.sum
        /\ page'.count = page.count /\ page'.le = h
    BY <1>3, <2>4, <2>5, FieldReplaced, Zenon DEF Page
  <2> QED
    BY <2>1, <2>2, <2>3, <2>5, <2>6, Zenon
<1>8. \A b \in Slots : /\ b \in Nat
                       /\ floor.le[path][b] \in Nat /\ page'.le[path][b] \in Nat
  <2>1. \A b \in Slots : floor.le[path][b] \in Nat /\ page'.le[path][b] \in Nat
    BY <1>3, <1>7, Zenon DEF Page
  <2> QED
    BY <2>1 DEF Slots
<1>9. v <= Recorded.le[path][at]
  <2>1. UpTo(OfPath(PastBucket, path), at) = Read(path, at)
    BY PastRequests, Zenon DEF UpTo, OfPath, Read, Way
  <2>2. Recorded.le[path][at] = Cardinality(Read(path, at))
    BY <1>3, <2>1, RecordedParts, Zenon DEF Parts
  <2>3. SoFar \in Nat /\ SoFar <= Cardinality(Read(path, at - 1))
    BY <1>1, SoFarType, Zenon
  <2> QED
    BY <1>4, <1>5, <2>2, <2>3
<1>10. AtMost(page', Recorded') /\ AtMost(floor', Recorded')
  BY <1>1, <1>2, <1>7, <1>9, Zenon DEF ScrapeInv, AtMost
<1>11. ASSUME NEW b \in Slots
       PROVE  /\ b < at + 1 => floor.le[path][b] <= page'.le[path][b]
              /\ b >= at + 1 => floor.le[path][b] <= v + Cardinality(Left(path, at + 1, b))
  <2>1. CASE b < at
    <3>1. floor.le[path][b] <= page.le[path][b] /\ b # at
      <4>1. floor.le[path][b] <= page.le[path][b]
        BY <1>1, <2>1, Zenon DEF ScrapeInv, AddingUp
      <4> QED
        BY <1>3, <1>8, <2>1, <4>1
    <3>2. floor.le[path][b] <= page'.le[path][b]
      BY <1>7, <3>1, Zenon
    <3> QED
      BY <1>3, <1>8, <2>1, <3>2
  <2>2. CASE ~(b < at)
    <3>1. b >= at
      BY <1>3, <1>8, <2>2
    <3>2. /\ floor.le[path][b] <= SoFar + Cardinality(Left(path, at, b))
          /\ Cardinality(Left(path, at + 1, b)) \in Nat
          /\ Cardinality(Left(path, at, b)) = c + Cardinality(Left(path, at + 1, b))
      BY <1>1, <1>4, <3>1, Zenon DEF ScrapeInv, AddingUp
    <3>3. floor.le[path][b] <= v + Cardinality(Left(path, at + 1, b))
      <4>1. SoFar \in Nat
        BY <1>1, SoFarType, Zenon
      <4> QED
        BY <1>4, <1>5, <1>8, <3>2, <4>1
    <3>4. ASSUME b = at PROVE floor.le[path][b] <= page'.le[path][b]
      <4>1. \A q \in PastBucket : ~(slot[q] <= b /\ slot[q] >= at + 1)
        <5>1. \A q \in PastBucket : slot[q] \in Slots
          BY PastRequests, Zenon DEF Pointers
        <5> QED
          BY <1>8, <3>4, <5>1
      <4>2. Left(path, at + 1, b) = {}
        BY <4>1, Zenon DEF Left, Read
      <4>3. Cardinality(Left(path, at + 1, b)) = 0
        BY <4>2, FS_EmptySet, Zenon
      <4>4. page'.le[path][b] = v
        BY <1>7, <3>4, Zenon
      <4> QED
        BY <1>5, <1>8, <3>3, <4>3, <4>4
    <3>5. b < at + 1 => b = at
      BY <1>3, <1>8, <3>1
    <3> QED
      BY <3>3, <3>4, <3>5, Zenon
  <2> QED
    BY <2>1, <2>2, Zenon
<1>12. CASE at < Buckets
  <2>1. at' = at + 1 /\ scrape' = scrape /\ path' = path
    BY <1>12, Zenon DEF ScrapeBucket, More
  <2>2. at + 1 \in Slots /\ at + 1 # 1 /\ (at + 1) - 1 = at
    BY <1>3, <1>12, KindsAssumption DEF Slots
  <2>3. ScrapeShape'
    BY <1>1, <1>2, <1>3, <1>7, <2>1, <2>2, Zenon DEF ScrapeInv, ScrapeShape
  <2>4. AboveFloor'
    BY <1>1, <1>7, <2>1, Zenon DEF ScrapeInv, AboveFloor, Unread
  <2>5. SoFar' = v
    BY <1>7, <2>1, <2>2, Zenon DEF SoFar
  <2>6. \A b : Left(path, at, b)' = Left(path, at + 1, b)
    BY <1>2, <2>1, Zenon DEF Left, Read
  <2>7. AddingUp'
    BY <1>1, <1>11, <2>1, <2>5, <2>6, Zenon DEF AddingUp
  <2> QED
    BY <1>10, <2>3, <2>4, <2>7, Zenon DEF ScrapeInv
<1>13. CASE ~(at < Buckets)
  <2>1. at' = 1 /\ scrape' = "sum" /\ path' = Nil
    BY <1>13, Zenon DEF ScrapeBucket, More
  <2>2. 1 \in Slots /\ \A b \in Slots : b < at + 1
    BY <1>3, <1>13, KindsAssumption DEF Slots
  <2>3. ScrapeShape'
    BY <1>1, <1>2, <1>3, <1>7, <2>1, <2>2, Zenon DEF ScrapeInv, ScrapeShape
  <2>4. \A b \in Slots : floor.le[path][b] <= page'.le[path][b]
    BY <1>11, <2>2, Zenon
  <2>5. AboveFloor'
    BY <1>1, <1>7, <2>1, <2>4, Zenon DEF ScrapeInv, AboveFloor, Unread
  <2>6. AddingUp'
    BY <2>1, Zenon DEF AddingUp
  <2> QED
    BY <1>10, <2>3, <2>5, <2>6, Zenon DEF ScrapeInv
<1> QED
  BY <1>12, <1>13, Zenon

\* The page is complete.
LEMMA EndScrape ==
    ASSUME Balanced, ScrapeInv, ScrapeEnd
    PROVE  ScrapeInv' /\ AtMost(floor, page) /\ AtMost(page, Recorded)
<1>1. /\ scrape = "sum" /\ todo = {} /\ scrape' = "idle" /\ page' = Blank /\ floor' = Blank
      /\ UNCHANGED <<todo, path, at, walHeld>>
  BY Zenon DEF ScrapeEnd
<1>2. Recorded' = Recorded /\ Recorded \in Page
  BY NothingRecorded, RecordedParts, Zenon DEF ScrapeEnd, Parts
<1>3. ScrapeShape'
  BY <1>1, BlankPage, Zenon DEF ScrapeInv, ScrapeShape
<1>4. AtMost(floor, page)
  BY <1>1, Zenon DEF ScrapeInv, AboveFloor, Unread, AtMost
<1> QED
  BY <1>1, <1>2, <1>3, <1>4, BlankAtMost, Zenon DEF ScrapeInv

\* ScrapeInv is inductive.
LEMMA ScrapeNext ==
    ASSUME Pointers, Balanced, ScrapeInv, [Next]_vars
    PROVE  ScrapeInv'
<1>1. CASE SnapshotLocks \/ SnapshotUnlocks \/ UNCHANGED vars
  <2>1. /\ UNCHANGED <<recorder, maps, cells>> /\ UNCHANGED <<scrape, todo, path, at, page, floor>>
        /\ walHeld' \in {walHeld, TRUE, FALSE}
    BY <1>1, Zenon DEF SnapshotLocks, SnapshotUnlocks, vars, scraper
  <2>2. /\ UNCHANGED <<reqCounts, histograms, slot>> /\ Recorded' = Recorded
        /\ PastBucket' = PastBucket /\ Way' = Way
    BY <2>1, NothingRecorded, Zenon
  <2>3. ScrapeShape'
    BY <2>1, <2>2, Zenon DEF ScrapeInv, ScrapeShape
  <2>4. scrape' # "idle" => AboveFloor' /\ AddingUp'
    BY <2>1, <2>2, Zenon DEF ScrapeInv, AboveFloor, AddingUp, Unread, SoFar, Left, Read
  <2> QED
    BY <2>1, <2>2, <2>3, <2>4, Zenon DEF ScrapeInv
<1> QED
  BY <1>1, RecordScrape, BeginScrape, ReadCounter, BeginHistograms, ReadSum, ReadCount,
     ReadBucket, EndScrape, Zenon DEF Next, ScrapeStep

\* The books and the scrape together.
MetricsInv == Pointers /\ Balanced /\ ScrapeInv

\* MetricsInv is an invariant.
LEMMA MetricsInvariant == Spec => []MetricsInv
<1>1. Init => MetricsInv
  <2> SUFFICES ASSUME Init PROVE ScrapeInv
    BY BooksInit, Zenon DEF MetricsInv
  <2>1. 1 \in Slots
    BY KindsAssumption DEF Slots
  <2>2. ScrapeShape
    BY <2>1, BlankPage, Zenon DEF Init, ScrapeShape
  <2>3. AtMost(page, Recorded) /\ scrape = "idle"
    BY RecordedParts, BlankAtMost, Zenon DEF Init, Parts
  <2> QED
    BY <2>2, <2>3, Zenon DEF ScrapeInv
<1>2. MetricsInv /\ [Next]_vars => MetricsInv'
  BY BooksNext, ScrapeNext, Zenon DEF MetricsInv
<1> QED
  BY <1>1, <1>2, PTL DEF Spec

\* Types: the scrape reads no missing counter or histogram and stays within the
\* buckets.
THEOREM MetricsTypes == Spec => []TypeOK
<1>1. MetricsInv => TypeOK
  <2> SUFFICES ASSUME Pointers, Balanced, ScrapeInv PROVE TypeOK
    BY Zenon DEF MetricsInv
  <2>1. /\ kind \in [Requests -> Kinds] /\ reqCounts \in [Kinds -> Requests \cup {Nil}]
        /\ histograms \in [Paths -> Requests \cup {Nil}] /\ counter \in [Requests -> Nat]
        /\ count \in [Requests -> Nat] /\ sum \in [Requests -> Nat]
    BY Zenon DEF Balanced, Books
  <2>2. todo \subseteq Kinds \cup Paths
    BY Zenon DEF ScrapeInv, ScrapeShape
  <2> QED
    BY <2>1, <2>2, Zenon DEF TypeOK, Pointers, ScrapeInv, ScrapeShape
<1> QED
  BY <1>1, MetricsInvariant, PTL

\* Every number of a page lies between what had been recorded when the scrape
\* began and what has been recorded when it ends, for all interleavings of any
\* number of goroutines with the scrape's reads.
THEOREM PagesBracketed == Spec => ScrapeBracketed
<1>1. MetricsInv /\ [Next]_vars =>
        [scrape # "idle" /\ scrape' = "idle"
            => AtMost(floor, page) /\ AtMost(page, Recorded)]_vars
  <2> SUFFICES ASSUME MetricsInv, Next, scrape # "idle", scrape' = "idle"
               PROVE  AtMost(floor, page) /\ AtMost(page, Recorded)
    BY Zenon
  <2>1. ScrapeEnd
    <3>1. \A r \in Requests : RecordStep(r) => scrape' = scrape
      BY Zenon DEF RecordStep, Serve, LookupCounter, NewCounter, AddCounter, LookupHist,
                   NewHist, AddCount, AddSum, AddBucket, scraper
    <3>2. ScrapeStep \/ ScrapeBegin \/ SnapshotLocks \/ SnapshotUnlocks
             => scrape' = scrape \/ scrape' # "idle"
      BY Zenon DEF ScrapeStep, ScrapeBegin, ScrapeCounter, ScrapeHistograms, ScrapeSum,
                   ScrapeCount, ScrapeBucket, SnapshotLocks, SnapshotUnlocks, scraper
    <3> QED
      BY <3>1, <3>2, Zenon DEF Next
  <2> QED
    BY <2>1, EndScrape, Zenon DEF MetricsInv
<1> QED
  BY <1>1, MetricsInvariant, PTL DEF Spec, ScrapeBracketed
=============================================================================
