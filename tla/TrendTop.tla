------------------------------ MODULE TrendTop ------------------------------
(***************************************************************************)
(* The minute buckets, the shared key trend:top and the lists computed     *)
(* from them: IncrementBucket, refreshTop (AggregateTop and the            *)
(* repository's GetTop), the aggregator of each instance with its          *)
(* cachedTop, and the GetTop requests that find nothing cached and refresh *)
(* for themselves, with one action per Redis command.  All refreshers      *)
(* write and read the same key, so they interleave.                        *)
(*                                                                         *)
(* Time is counted in minutes, the granularity of the buckets: a refresh   *)
(* may straddle minute boundaries, at most Stall of them, since every      *)
(* Redis call has a timeout.  The aggregator's one-second ticker is an     *)
(* action that may happen any number of times within a minute.             *)
(***************************************************************************)
EXTENDS Integers, FiniteSets, Functions

CONSTANTS
    Instance,       \* service instances, each with an aggregator and a
                    \*   message callback
    Request,        \* GetTop calls, from RPCs and from StreamTop's goroutines
    Home,           \* the instance each request is sent to
    Query,
    WindowMinutes,  \* buckets in the window
    BucketTTL,      \* of a minute bucket
    TopTTL,         \* of trend:top
    MaxTopSize,     \* entries kept in cachedTop
    Early,          \* how far created_at may be ahead of the service's clock
    Stall,          \* minute boundaries one refresh may straddle
    Horizon,        \* bound: the last minute
    MaxEvents,      \* bound: events counted
    RedisFails      \* whether Redis calls may fail

ASSUME TopAssumption ==
    /\ Instance \cap Request = {}
    /\ Home \in [Request -> Instance]
    /\ WindowMinutes \in Nat \ {0} /\ BucketTTL \in Nat \ {0}
    /\ TopTTL \in Nat \ {0} /\ MaxTopSize \in Nat \ {0}
    /\ Early \in Nat /\ Stall \in Nat /\ Horizon \in Nat /\ MaxEvents \in Nat
    /\ RedisFails \in BOOLEAN

\* Why bucketTTL leaves a margin over the window.
ASSUME MarginAssumption == BucketTTL >= WindowMinutes + Early + Stall
ASSUME TopTTLAssumption == TopTTL > Stall

VARIABLES
    now,        \* the current minute
    bucket,     \* [minute][query]: score in the minute's bucket
    bucketTTL,  \* [minute]: minutes to the bucket's expiry, 0 if it has none
    counting,   \* [instance]: the bucket its callback has written and is about
                \*   to EXPIRE, or NoMinute
    top,        \* [query]: score in trend:top, 0 if not a member
    topTTL,     \* minutes to the expiry of trend:top, 0 if it has none
    phase,      \* [refresher]: next Redis command of its refreshTop
    asOf,       \* [refresher]: the minute its window ends in
    cachedTop,  \* [instance]: the cached entries, a function on some queries
    total,      \* history: every count ever made, which never expires
    union,      \* history: what the last ZUNIONSTORE should have stored
    unionOf     \* history: the minute its window ended in

bucketVars == <<bucket, bucketTTL, counting, total>>
topVars == <<top, topTTL, union, unionOf>>
vars == <<now, bucketVars, topVars, phase, asOf, cachedTop>>
-----------------------------------------------------------------------------
Minute == 0..Horizon
NoMinute == -1
Refresher == Instance \cup Request
Scores == [Query -> Nat]
NoScores == [q \in Query |-> 0]
Nothing == [q \in {} |-> 0]

\* The bucket keys refreshTop builds at minute t.
Window(t) == {m \in Minute : t - WindowMinutes < m /\ m <= t}

\* ZUNIONSTORE with AGGREGATE SUM over the window that ends at t.
Union(b, t) ==
    LET w == [m \in Window(t) |-> b[m]]
    IN [q \in Query |-> SumFunction([m \in DOMAIN w |-> w[m][q]])]

Positive(s) == {q \in DOMAIN s : s[q] > 0}

\* The first k entries of a list in the order of ZREVRANGE, ties left open.
Leading(s, k) ==
    {[q \in S |-> s[q]] : S \in
        {S \in SUBSET Positive(s) :
           /\ \/ Cardinality(S) = k
              \/ Cardinality(S) < k /\ S = Positive(s)
           /\ \A q \in S, p \in Positive(s) \ S : s[q] >= s[p]}}

IsEntries(s) == DOMAIN s \subseteq Query /\ s \in [DOMAIN s -> Nat]

TypeOK ==
    /\ now \in Minute
    /\ bucket \in [Minute -> Scores]
    /\ bucketTTL \in [Minute -> 0..BucketTTL]
    /\ counting \in [Instance -> Minute \cup {NoMinute}]
    /\ top \in Scores
    /\ topTTL \in 0..TopTTL
    /\ phase \in [Refresher -> {"idle", "union", "expire", "read"}]
    /\ asOf \in [Refresher -> Minute]
    /\ DOMAIN cachedTop = Instance
    /\ \A i \in Instance : /\ IsEntries(cachedTop[i])
                           /\ Cardinality(DOMAIN cachedTop[i]) <= MaxTopSize
    /\ total \in [Minute -> Scores]
    /\ union \in Scores
    /\ unionOf \in Minute

Init ==
    /\ now = 0
    /\ bucket = [m \in Minute |-> NoScores]
    /\ bucketTTL = [m \in Minute |-> 0]
    /\ counting = [i \in Instance |-> NoMinute]
    /\ top = NoScores
    /\ topTTL = 0
    /\ phase = [r \in Refresher |-> "idle"]
    /\ asOf = [r \in Refresher |-> 0]
    /\ cachedTop = [i \in Instance |-> Nothing]
    /\ total = [m \in Minute |-> NoScores]
    /\ union = NoScores
    /\ unionOf = 0
-----------------------------------------------------------------------------
EventsCounted == SumFunction([m \in Minute |-> SumFunction(total[m])])

\* ZINCRBY for an event created in minute m, however late it comes.
IncrBucket(i, m, q) ==
    /\ counting[i] = NoMinute
    /\ m <= now + Early
    /\ EventsCounted < MaxEvents
    /\ bucket' = [bucket EXCEPT ![m][q] = @ + 1]
    /\ total' = [total EXCEPT ![m][q] = @ + 1]
    /\ counting' = [counting EXCEPT ![i] = m]
    /\ UNCHANGED <<now, bucketTTL, topVars, phase, asOf, cachedTop>>

\* EXPIRE, for a key that may have expired since the ZINCRBY.
ExpireWithTTL(i, ttl) ==
    /\ counting[i] # NoMinute
    /\ bucketTTL' = [bucketTTL EXCEPT ![counting[i]] =
                       IF Positive(bucket[counting[i]]) = {} THEN 0 ELSE ttl]
    /\ counting' = [counting EXCEPT ![i] = NoMinute]
    /\ UNCHANGED <<now, bucket, total, topVars, phase, asOf, cachedTop>>

\* A variant without any margin of the TTL over the window.
ExpireBucketNoMargin(i) == ExpireWithTTL(i, WindowMinutes)

ExpireBucket(i) == ExpireWithTTL(i, BucketTTL)

\* No answer to ZINCRBY, an EXPIRE that fails, or the end of the process.  The
\* event comes again and is counted again.
CountFails(i) ==
    /\ RedisFails
    /\ counting[i] # NoMinute
    /\ counting' = [counting EXCEPT ![i] = NoMinute]
    /\ UNCHANGED <<now, bucket, bucketTTL, total, topVars, phase, asOf, cachedTop>>

\* A variant whose keys begin one minute ahead.
BeginAhead(r) ==
    /\ phase[r] = "idle"
    /\ phase' = [phase EXCEPT ![r] = "union"]
    /\ asOf' = [asOf EXCEPT ![r] = now + 1]

\* refreshTop reads the clock and builds its keys.
Begin(r) ==
    /\ phase[r] = "idle"
    /\ phase' = [phase EXCEPT ![r] = "union"]
    /\ asOf' = [asOf EXCEPT ![r] = now]

\* The aggregator's ticker.
AggregatorTick(i) ==
    /\ Begin(i)
    /\ UNCHANGED <<now, bucketVars, topVars, cachedTop>>

\* A request that finds entries cached filters them (module StopWords) and
\* leaves everything here alone; one that finds none refreshes for itself.
GetTopMiss(g) ==
    /\ cachedTop[Home[g]] = Nothing
    /\ Begin(g)
    /\ UNCHANGED <<now, bucketVars, topVars, cachedTop>>

\* ZUNIONSTORE replaces the key; the new one has no TTL.
ZUnionStore(r) ==
    /\ top' = Union(bucket, asOf[r])
    /\ topTTL' = 0
    /\ union' = Union(total, asOf[r])
    /\ unionOf' = asOf[r]

AggregateUnion(r) ==
    /\ phase[r] = "union"
    /\ ZUnionStore(r)
    /\ phase' = [phase EXCEPT ![r] = "expire"]
    /\ UNCHANGED <<now, bucketVars, asOf, cachedTop>>

\* A variant with a TTL that a stalled refresh can outlast.
ExpireTopShort == topTTL' = IF Positive(top) = {} THEN 0 ELSE Stall

\* An empty union leaves no key to put a TTL on.
ExpireTop == topTTL' = IF Positive(top) = {} THEN 0 ELSE TopTTL

AggregateExpire(r) ==
    /\ phase[r] = "expire"
    /\ ExpireTop
    /\ phase' = [phase EXCEPT ![r] = "read"]
    /\ UNCHANGED <<now, bucketVars, top, union, unionOf, asOf, cachedTop>>

\* ZREVRANGE; the aggregator caches what it read, a request only filters it.
Read(r) ==
    /\ phase[r] = "read"
    /\ phase' = [phase EXCEPT ![r] = "idle"]
    /\ asOf' = [asOf EXCEPT ![r] = 0]
    /\ UNCHANGED <<now, bucketVars, topVars>>

\* A variant that would rather keep its old list than an empty one.
CacheTopNonEmpty(i) ==
    /\ Read(i)
    /\ \E s \in Leading(top, MaxTopSize) :
         cachedTop' = [cachedTop EXCEPT ![i] = IF s = Nothing THEN @ ELSE s]

CacheTop(i) ==
    /\ Read(i)
    /\ \E s \in Leading(top, MaxTopSize) :
         cachedTop' = [cachedTop EXCEPT ![i] = s]

\* A request does not store what it read.
AnswerMiss(g) == Read(g) /\ UNCHANGED cachedTop

\* A command fails, executed or not: the aggregator keeps its old entries and
\* waits for the next tick, a request returns the error.
RefreshFails(r) ==
    /\ RedisFails
    /\ phase[r] # "idle"
    /\ \/ UNCHANGED topVars
       \/ phase[r] = "union" /\ ZUnionStore(r)
       \/ phase[r] = "expire" /\ ExpireTop /\ UNCHANGED <<top, union, unionOf>>
    /\ phase' = [phase EXCEPT ![r] = "idle"]
    /\ asOf' = [asOf EXCEPT ![r] = 0]
    /\ UNCHANGED <<now, bucketVars, cachedTop>>

Countdown(n) == IF n = 0 THEN 0 ELSE n - 1

\* The next minute begins; what has reached the end of its TTL is gone.
MinutePasses ==
    /\ now < Horizon
    /\ \A r \in Refresher : phase[r] # "idle" => now - asOf[r] < Stall
    /\ now' = now + 1
    /\ bucketTTL' = [m \in Minute |-> Countdown(bucketTTL[m])]
    /\ bucket' = [m \in Minute |-> IF bucketTTL[m] = 1 THEN NoScores
                                                       ELSE bucket[m]]
    /\ topTTL' = Countdown(topTTL)
    /\ top' = IF topTTL = 1 THEN NoScores ELSE top
    /\ UNCHANGED <<counting, phase, asOf, cachedTop, total, union, unionOf>>

Refresh(i) == AggregateUnion(i) \/ AggregateExpire(i)

Aggregator(i) == AggregatorTick(i) \/ Refresh(i) \/ CacheTop(i)

GetTop(g) == GetTopMiss(g) \/ Refresh(g) \/ AnswerMiss(g)

Next ==
    \/ \E i \in Instance, m \in Minute, q \in Query : IncrBucket(i, m, q)
    \/ \E i \in Instance : ExpireBucket(i) \/ CountFails(i) \/ Aggregator(i)
    \/ \E g \in Request : GetTop(g)
    \/ \E r \in Refresher : RefreshFails(r)
    \/ MinutePasses

Spec == Init /\ [][Next]_vars

(***************************************************************************)
(* The aggregator's goroutine keeps running, and Redis does not fail each  *)
(* of its commands forever (SF).  Nobody has to search or to ask.          *)
(***************************************************************************)
FairSpec ==
    /\ Spec
    /\ \A i \in Instance :
         /\ WF_vars(AggregatorTick(i))
         /\ SF_vars(AggregateUnion(i))
         /\ SF_vars(AggregateExpire(i))
         /\ SF_vars(CacheTop(i))
-----------------------------------------------------------------------------
(***************************************************************************)
(* A bucket holds every count made for its minute as long as a window that *)
(* contains it may still be aggregated, even by a refresh that stalls, and *)
(* even when all its events came early: the margin of bucketTTL over the   *)
(* window is enough.                                                       *)
(***************************************************************************)
WindowIntact ==
    \A r \in Refresher : phase[r] = "union" =>
        \A m \in Window(asOf[r]) : bucket[m] = total[m]

(***************************************************************************)
(* What a refresh reads back from the shared key is the exact sum of some  *)
(* refresher's window, not an expired or half-made one, and that window    *)
(* ends at most Stall minutes before its own.                              *)
(***************************************************************************)
ReadsAWindow ==
    \A r \in Refresher : phase[r] = "read" =>
        top = union /\ unionOf >= asOf[r] - Stall

(***************************************************************************)
(* Every instance's list catches up: once no more events come and the      *)
(* clock stands (the bounds end both) it is, for good, the list of the     *)
(* counts made in the current window: none is missing, none that has left  *)
(* the window stays, although refreshes fail and stall and others, with    *)
(* older windows, write the shared key between an instance's commands.     *)
(***************************************************************************)
CachedCatchesUp ==
    \A i \in Instance :
        <>[](cachedTop[i] \in Leading(Union(total, now), MaxTopSize))
=============================================================================
