------------------------------ MODULE Metrics ------------------------------
(***************************************************************************)
(* The metrics collector (internal/metrics) and the middleware that feeds  *)
(* it: goroutines that record their request after serving it, and a        *)
(* scrape that formats the counters meanwhile.                             *)
(*                                                                         *)
(* The maps hold pointers, and a counter is incremented through a pointer  *)
(* outside the lock; so counters live in cells named after the goroutine   *)
(* that allocated them.  A section under mc.mu is one step, except that a  *)
(* scrape holds the read lock from its beginning to its end.               *)
(***************************************************************************)
EXTENDS Integers, FiniteSets

CONSTANTS
    Requests,   \* the requests, each served by a goroutine of its own
    Kinds,      \* request keys: method, path and status
    Paths,      \* histogram keys: method and path
    PathOf,     \* the histogram key of a request key
    Buckets,    \* number of histogram buckets, the last being +Inf
    Nil         \* no pointer

VARIABLES
    pc,          \* per request: what it records next
    kind, slot,  \* per request: its key and the bucket of its duration
    reqCounts,   \* per request key, pointer to its counter or Nil
    histograms,  \* per histogram key, pointer to its histogram or Nil
    ptr, hptr,   \* per request: the pointers it obtained
    counter,     \* cells: value of a request counter
    count, sum,  \* cells: count and sum of a histogram; the sum as the number
                 \* of durations added to it
    bucket,      \* cells: counts of a histogram
    scrape,      \* progress of the scrape that holds the read lock
    todo,        \* the keys it has yet to read
    path, at,    \* the histogram it is reading, and the next bucket
    page,        \* the page it writes
    walHeld,     \* whether a snapshot holds the WAL mutex
    floor        \* history: what was recorded when the scrape began

recorder == <<pc, kind, slot, ptr, hptr>>
maps     == <<reqCounts, histograms>>
cells    == <<counter, count, sum, bucket>>
scraper  == <<scrape, todo, path, at, page, floor>>
vars     == <<recorder, maps, cells, scraper, walHeld>>

ASSUME RequestsAssumption == IsFiniteSet(Requests) /\ Nil \notin Requests
ASSUME KindsAssumption == PathOf \in [Kinds -> Paths] /\ Buckets \in Nat \ {0}

Slots == 1 .. Buckets
Page  == [counters : [Kinds -> Nat], sum : [Paths -> Nat], count : [Paths -> Nat],
          le : [Paths -> [Slots -> Nat]]]
Blank == [counters |-> [k \in Kinds |-> 0], sum |-> [p \in Paths |-> 0],
          count |-> [p \in Paths |-> 0],
          le |-> [p \in Paths |-> [b \in Slots |-> 0]]]

Labels == {"serve", "counter", "newcounter", "addcounter", "hist", "newhist",
           "addcount", "addsum", "addbucket", "done"}

\* The requests that have passed each of the atomic increments.
PastBucket  == {r \in Requests : pc[r] = "done"}
PastSum     == {r \in Requests : pc[r] = "addbucket"} \cup PastBucket
PastCount   == {r \in Requests : pc[r] = "addsum"} \cup PastSum
PastCounter == {r \in Requests : pc[r] \in {"hist", "newhist", "addcount"}} \cup PastCount

OfKind(S, k) == {r \in S : kind[r] = k}
OfPath(S, p) == {r \in S : PathOf[kind[r]] = p}
UpTo(S, b)   == {r \in S : slot[r] <= b}

\* What has been recorded so far, as a page would show it.
Recorded ==
    [counters |-> [k \in Kinds |-> Cardinality(OfKind(PastCounter, k))],
     sum      |-> [p \in Paths |-> Cardinality(OfPath(PastSum, p))],
     count    |-> [p \in Paths |-> Cardinality(OfPath(PastCount, p))],
     le       |-> [p \in Paths |-> [b \in Slots |-> Cardinality(UpTo(OfPath(PastBucket, p), b))]]]

Go(r, label) == pc' = [pc EXCEPT ![r] = label]

------------------------------------------------------------------------------
(* The middleware: RecordRequest, then RecordLatency.                        *)

\* The request has been served; its status and duration are known.
Serve(r) ==
    /\ pc[r] = "serve" /\ Go(r, "counter")
    /\ UNCHANGED <<kind, slot, ptr, hptr, maps, cells, scraper, walHeld>>

\* RecordRequest looks the counter up under the read lock ...
LookupCounter(r) ==
    /\ pc[r] = "counter"
    /\ ptr' = [ptr EXCEPT ![r] = reqCounts[kind[r]]]
    /\ Go(r, IF reqCounts[kind[r]] = Nil THEN "newcounter" ELSE "addcounter")
    /\ UNCHANGED <<kind, slot, hptr, maps, cells, scraper, walHeld>>

NewCounterUnchecked(r) ==  \* mutant: no second look
    /\ pc[r] = "newcounter" /\ scrape = "idle"
    /\ reqCounts' = [reqCounts EXCEPT ![kind[r]] = r]
    /\ ptr' = [ptr EXCEPT ![r] = r]
    /\ Go(r, "addcounter")
    /\ UNCHANGED <<kind, slot, hptr, histograms, cells, scraper, walHeld>>

\* ... looks again under the write lock, which waits for the scrape, and creates
\* it if it is still missing ...
NewCounter(r) ==
    LET p == IF reqCounts[kind[r]] = Nil THEN r ELSE reqCounts[kind[r]]
    IN  /\ pc[r] = "newcounter" /\ scrape = "idle"
        /\ reqCounts' = [reqCounts EXCEPT ![kind[r]] = p]
        /\ ptr' = [ptr EXCEPT ![r] = p]
        /\ Go(r, "addcounter")
        /\ UNCHANGED <<kind, slot, hptr, histograms, cells, scraper, walHeld>>

\* ... and increments it.
AddCounter(r) ==
    /\ pc[r] = "addcounter" /\ Go(r, "hist")
    /\ counter' = [counter EXCEPT ![ptr[r]] = @ + 1]
    /\ UNCHANGED <<kind, slot, ptr, hptr, maps, count, sum, bucket, scraper, walHeld>>

\* RecordLatency does the same with the histogram ...
LookupHist(r) ==
    LET h == histograms[PathOf[kind[r]]]
    IN  /\ pc[r] = "hist"
        /\ hptr' = [hptr EXCEPT ![r] = h]
        /\ Go(r, IF h = Nil THEN "newhist" ELSE "addcount")
        /\ UNCHANGED <<kind, slot, ptr, maps, cells, scraper, walHeld>>

NewHistOnce(r) ==  \* mutant: nothing is done if the second look finds it
    LET p == PathOf[kind[r]]
    IN  /\ pc[r] = "newhist" /\ scrape = "idle" /\ histograms[p] = Nil
        /\ histograms' = [histograms EXCEPT ![p] = r]
        /\ hptr' = [hptr EXCEPT ![r] = r]
        /\ Go(r, "addcount")
        /\ UNCHANGED <<kind, slot, ptr, reqCounts, cells, scraper, walHeld>>

NewHist(r) ==
    LET p == PathOf[kind[r]]
        h == IF histograms[p] = Nil THEN r ELSE histograms[p]
    IN  /\ pc[r] = "newhist" /\ scrape = "idle"
        /\ histograms' = [histograms EXCEPT ![p] = h]
        /\ hptr' = [hptr EXCEPT ![r] = h]
        /\ Go(r, "addcount")
        /\ UNCHANGED <<kind, slot, ptr, reqCounts, cells, scraper, walHeld>>

\* ... and then updates its three numbers one by one.
AddCount(r) ==
    /\ pc[r] = "addcount" /\ Go(r, "addsum")
    /\ count' = [count EXCEPT ![hptr[r]] = @ + 1]
    /\ UNCHANGED <<kind, slot, ptr, hptr, maps, counter, sum, bucket, scraper, walHeld>>

AddSum(r) ==
    /\ pc[r] = "addsum" /\ Go(r, "addbucket")
    /\ sum' = [sum EXCEPT ![hptr[r]] = @ + 1]
    /\ UNCHANGED <<kind, slot, ptr, hptr, maps, counter, count, bucket, scraper, walHeld>>

AddBucket(r) ==
    /\ pc[r] = "addbucket" /\ Go(r, "done")
    /\ bucket' = [bucket EXCEPT ![hptr[r]][slot[r]] = @ + 1]
    /\ UNCHANGED <<kind, slot, ptr, hptr, maps, counter, count, sum, scraper, walHeld>>

------------------------------------------------------------------------------
(* WritePrometheus, under the read lock.  The write lock is held for single  *)
(* steps only, so the read lock is free whenever no other step is taken.     *)

ScrapeBegin ==
    /\ scrape = "idle" /\ scrape' = "counters"
    /\ todo' = {k \in Kinds : reqCounts[k] # Nil}
    /\ floor' = Recorded
    /\ UNCHANGED <<recorder, maps, cells, path, at, page, walHeld>>

ScrapeCounter(k) ==
    /\ scrape = "counters" /\ k \in todo /\ todo' = todo \ {k}
    /\ page' = [page EXCEPT !.counters[k] = counter[reqCounts[k]]]
    /\ UNCHANGED <<recorder, maps, cells, scrape, path, at, floor, walHeld>>

ScrapeHistograms ==
    /\ scrape = "counters" /\ todo = {} /\ scrape' = "sum"
    /\ todo' = {p \in Paths : histograms[p] # Nil}
    /\ UNCHANGED <<recorder, maps, cells, path, at, page, floor, walHeld>>

\* Of each histogram the sum is read first, then the count ...
ScrapeSum(p) ==
    /\ scrape = "sum" /\ p \in todo /\ todo' = todo \ {p}
    /\ page' = [page EXCEPT !.sum[p] = sum[histograms[p]]]
    /\ scrape' = "count" /\ path' = p
    /\ UNCHANGED <<recorder, maps, cells, at, floor, walHeld>>

ScrapeCount ==
    /\ scrape = "count" /\ scrape' = "buckets" /\ at' = 1
    /\ page' = [page EXCEPT !.count[path] = count[histograms[path]]]
    /\ UNCHANGED <<recorder, maps, cells, todo, path, floor, walHeld>>

Reaches(so, x) == x          \* mutant: buckets not added up
MoreThanAll    == at <= Buckets  \* mutant: off by one

Cumulative(so, x) == so + x
More              == at < Buckets

\* The running total: what the line before shows.
SoFar == IF at = 1 THEN 0 ELSE page.le[path][at - 1]

\* ... and then the buckets, each added to those before it for a line of its own;
\* the line of the last one is that of +Inf.
ScrapeBucket ==
    /\ scrape = "buckets"
    /\ page' = [page EXCEPT !.le[path][at] = Cumulative(SoFar, bucket[histograms[path]][at])]
    /\ IF More THEN at' = at + 1 /\ UNCHANGED <<scrape, path>>
               ELSE at' = 1 /\ scrape' = "sum" /\ path' = Nil
    /\ UNCHANGED <<recorder, maps, cells, todo, floor, walHeld>>

\* The gauges: Size() is an atomic load, WAL.Size() takes the WAL mutex, and the
\* peer count copies the peer table.  Then the deferred unlock.
ScrapeEnd ==
    /\ scrape = "sum" /\ todo = {} /\ ~walHeld
    /\ scrape' = "idle" /\ page' = Blank /\ floor' = Blank
    /\ UNCHANGED <<recorder, maps, cells, todo, path, at, walHeld>>

SnapshotStays == walHeld /\ UNCHANGED vars  \* mutant: the mutex is not released

\* CreateSnapshot takes and releases the WAL mutex (see Store).
SnapshotLocks   == ~walHeld /\ walHeld' = TRUE  /\ UNCHANGED <<recorder, maps, cells, scraper>>
SnapshotUnlocks == walHeld  /\ walHeld' = FALSE /\ UNCHANGED <<recorder, maps, cells, scraper>>

------------------------------------------------------------------------------
Init ==
    /\ pc = [r \in Requests |-> "serve"]
    /\ kind \in [Requests -> Kinds] /\ slot \in [Requests -> Slots]
    /\ reqCounts = [k \in Kinds |-> Nil] /\ histograms = [p \in Paths |-> Nil]
    /\ ptr = [r \in Requests |-> Nil] /\ hptr = [r \in Requests |-> Nil]
    /\ counter = [r \in Requests |-> 0]
    /\ count = [r \in Requests |-> 0] /\ sum = [r \in Requests |-> 0]
    /\ bucket = [r \in Requests |-> [b \in Slots |-> 0]]
    /\ scrape = "idle" /\ todo = {} /\ path = Nil /\ at = 1
    /\ page = Blank /\ floor = Blank
    /\ walHeld = FALSE

RecordStep(r) ==
    \/ Serve(r) \/ LookupCounter(r) \/ NewCounter(r) \/ AddCounter(r)
    \/ LookupHist(r) \/ NewHist(r) \/ AddCount(r) \/ AddSum(r) \/ AddBucket(r)

ScrapeStep ==
    \/ \E k \in Kinds : ScrapeCounter(k)
    \/ ScrapeHistograms
    \/ \E p \in Paths : ScrapeSum(p)
    \/ ScrapeCount \/ ScrapeBucket

Next ==
    \/ \E r \in Requests : RecordStep(r)
    \/ ScrapeBegin \/ ScrapeStep \/ ScrapeEnd
    \/ SnapshotLocks \/ SnapshotUnlocks

Spec == Init /\ [][Next]_vars

(* Goroutines are scheduled fairly and a snapshot ends.  Taking the write    *)
(* lock or the WAL mutex is strongly fair: a waiting writer holds off new    *)
(* readers, and a mutex goes to a starving waiter.  Nothing forces a request *)
(* to come, or a scrape or a snapshot to begin.                              *)
Fairness ==
    /\ \A r \in Requests :
        /\ WF_vars(LookupCounter(r) \/ AddCounter(r) \/ LookupHist(r) \/ AddCount(r)
                     \/ AddSum(r) \/ AddBucket(r))
        /\ SF_vars(NewCounter(r) \/ NewHist(r))
    /\ WF_vars(ScrapeStep) /\ SF_vars(ScrapeEnd) /\ WF_vars(SnapshotUnlocks)

FairSpec == Spec /\ Fairness

------------------------------------------------------------------------------
(* Properties.                                                               *)

\* Every variable keeps its type; in particular the scrape stays within the
\* buckets of a histogram.
TypeOK ==
    /\ pc \in [Requests -> Labels]
    /\ kind \in [Requests -> Kinds] /\ slot \in [Requests -> Slots]
    /\ reqCounts \in [Kinds -> Requests \cup {Nil}]
    /\ histograms \in [Paths -> Requests \cup {Nil}]
    /\ ptr \in [Requests -> Requests \cup {Nil}]
    /\ hptr \in [Requests -> Requests \cup {Nil}]
    /\ counter \in [Requests -> Nat]
    /\ count \in [Requests -> Nat] /\ sum \in [Requests -> Nat]
    /\ bucket \in [Requests -> [Slots -> Nat]]
    /\ scrape \in {"idle", "counters", "sum", "count", "buckets"} /\ at \in Slots
    /\ todo \subseteq Kinds \cup Paths
    /\ path \in Paths \cup {Nil}
    /\ page \in Page /\ floor \in Page
    /\ walHeld \in BOOLEAN

\* No count is lost: the counters and histograms that the maps lead to hold
\* every increment, also those of goroutines that found no counter at the same
\* time and went to create it.
NoCountLost ==
    /\ \A k \in Kinds :
        Cardinality(OfKind(PastCounter, k))
            = IF reqCounts[k] = Nil THEN 0 ELSE counter[reqCounts[k]]
    /\ \A p \in Paths :
        /\ Cardinality(OfPath(PastCount, p))
               = IF histograms[p] = Nil THEN 0 ELSE count[histograms[p]]
        /\ Cardinality(OfPath(PastSum, p))
               = IF histograms[p] = Nil THEN 0 ELSE sum[histograms[p]]
        /\ \A b \in Slots :
            Cardinality({r \in OfPath(PastBucket, p) : slot[r] = b})
               = IF histograms[p] = Nil THEN 0 ELSE bucket[histograms[p]][b]

\* a is nowhere above b.
AtMost(a, b) ==
    /\ \A k \in Kinds : a.counters[k] <= b.counters[k]
    /\ \A p \in Paths : a.sum[p] <= b.sum[p] /\ a.count[p] <= b.count[p]
                         /\ \A i \in Slots : a.le[p][i] <= b.le[p][i]

\* Every counter, sum, count and le line of a page lies between what had been
\* recorded when the scrape began and what has been when it ends, however its
\* reads and the increments interleave; so from one page to the next none of them
\* decreases.  The count and the +Inf line of one page may differ either way.
ScrapeBracketed ==
    [][scrape # "idle" /\ scrape' = "idle"
         => AtMost(floor, page) /\ AtMost(page, Recorded)]_vars

\* A request that has been served gets recorded, although scrapes hold up the
\* creation of counters.
Records == \A r \in Requests : pc[r] = "counter" ~> pc[r] = "done"

\* A scrape comes to its end, although it waits for the WAL mutex with mc.mu held.
ScrapeReturns == scrape # "idle" ~> scrape = "idle"
=============================================================================
