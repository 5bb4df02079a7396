------------------------------ MODULE Serving -------------------------------
(***************************************************************************)
(* What the service shows of the top: GetTop's filter and limit over       *)
(* cachedTop, and StreamTop, composed with the stop words of module        *)
(* StopWords.  A stream is a goroutine that makes a list at every tick, a  *)
(* channel of Capacity lists, and the gRPC handler that sends them.        *)
(*                                                                         *)
(* The lists of a stream that are under way stand in one line, the oldest  *)
(* first: the one the handler sends, those in the channel, and the one the *)
(* goroutine wants to put there.  A list is the set of its queries; they   *)
(* are in the order of the ranking they were taken from.                   *)
(***************************************************************************)
EXTENDS StopWords, Sequences, FiniteSets, Integers

CONSTANTS
    Stream,         \* StreamTop calls
    Server,         \* the instance each is made to
    Requested,      \* the limit it asks for
    Capacity,       \* of a stream's channel
    MaxTopSize,     \* entries of a ranking that are cached
    Ranking         \* what the window's queries may be ranked like

ASSUME ServingAssumption ==
    /\ Server \in [Stream -> Instance]
    /\ Requested \in [Stream -> Int]
    /\ Capacity \in Nat
    /\ MaxTopSize \in Nat \ {0}
    /\ Ranking \subseteq Seq(Query)

VARIABLES
    cachedTop,  \* [Home]: the cached entries, where a stream reads them
    goroutine,  \* [Stream]: what StreamTop's goroutine does next
    taken,      \* [Stream]: the entries it is about to filter
    handler,    \* [Stream]: the gRPC handler ranges over the channel, sends
                \*   the line's first list, or has returned
    line,       \* [Stream]: the lists under way
    cancelled,  \* [Stream]: its context
    late        \* history, [Stream][Word]: lists with the word that were sent
                \*   since it came in force

streamVars == <<goroutine, taken, handler, line, cancelled>>
servingVars == <<cachedTop, streamVars, late>>
allVars == <<vars, servingVars>>
-----------------------------------------------------------------------------
\* The instances that have streams; nothing here reads the others' caches.
Home == {Server[s] : s \in Stream}

\* A limit of zero or less asks for ten entries.
Limit(s) == IF Requested[s] <= 0 THEN 10 ELSE Requested[s]

First(r, n) == SubSeq(r, 1, IF Len(r) < n THEN Len(r) ELSE n)

\* What GetTop makes of entries: those no stop word matches, up to the limit.
Filtered(entries, i, limit) ==
    LET open == {n \in 1..Len(entries) : ~ matchesStopWord(i, entries[n])}
    IN {entries[n] : n \in {m \in open : Cardinality(open \cap (1..m)) <= limit}}

InHand(s) == IF handler[s] = "send" THEN 1 ELSE 0
Offered(s) == IF goroutine[s] = "send" THEN 1 ELSE 0
InChannel(s) == Len(line[s]) - InHand(s) - Offered(s)

\* Goroutine, channel and handler of one stream.
StreamOK(s) ==
    /\ InChannel(s) \in 0..Capacity
    /\ goroutine[s] = "none" <=> handler[s] = "none"
    /\ goroutine[s] \in {"take", "filter", "send", "wait"} => up[Server[s]]
    /\ handler[s] \in {"range", "send"} => up[Server[s]]
    /\ handler[s] = "left" => cancelled[s]

StreamsOK ==
    /\ cachedTop \in [Home -> Seq(Query)]
    /\ \A i \in Home : Len(cachedTop[i]) <= MaxTopSize
    /\ goroutine \in [Stream -> {"none", "take", "filter", "send", "wait", "done"}]
    /\ taken \in [Stream -> Seq(Query)]
    /\ handler \in [Stream -> {"none", "range", "send", "left"}]
    /\ line \in [Stream -> Seq(SUBSET Query)]
    /\ cancelled \in [Stream -> BOOLEAN]
    /\ late \in [Stream -> [Word -> Nat]]
    /\ \A s \in Stream : StreamOK(s)

ServingTypeOK == TypeOK /\ StreamsOK

ServingInit ==
    /\ Init
    /\ cachedTop = [i \in Home |-> <<>>]
    /\ goroutine = [s \in Stream |-> "none"]
    /\ taken = [s \in Stream |-> <<>>]
    /\ handler = [s \in Stream |-> "none"]
    /\ line = [s \in Stream |-> <<>>]
    /\ cancelled = [s \in Stream |-> FALSE]
    /\ late = [s \in Stream |-> [w \in Word |-> 0]]
-----------------------------------------------------------------------------
\* A variant that reads one entry too many.
AggregateOneMore(i) ==
    /\ up[i]
    /\ \E r \in Ranking :
         cachedTop' = [cachedTop EXCEPT ![i] = First(r, MaxTopSize + 1)]
    /\ UNCHANGED <<vars, streamVars, late>>

\* The aggregator has read trend:top; ZREVRANGE's end is inclusive.
Aggregate(i) ==
    /\ up[i]
    /\ \E r \in Ranking :
         cachedTop' = [cachedTop EXCEPT ![i] = First(r, MaxTopSize)]
    /\ UNCHANGED <<vars, streamVars, late>>

StreamTop(s) ==
    /\ handler[s] = "none"
    /\ up[Server[s]]
    /\ goroutine' = [goroutine EXCEPT ![s] = "take"]
    /\ handler' = [handler EXCEPT ![s] = "range"]
    /\ UNCHANGED <<vars, cachedTop, taken, line, cancelled, late>>

\* GetTop copies the cached entries; with none it refreshes for itself, and a
\* failure, certain once the context is cancelled, skips this list.
Take(s) ==
    /\ goroutine[s] = "take"
    /\ LET cached == cachedTop[Server[s]] IN
       \/ /\ cached # <<>>
          /\ taken' = [taken EXCEPT ![s] = cached]
          /\ goroutine' = [goroutine EXCEPT ![s] = "filter"]
       \/ /\ cached = <<>> /\ ~ cancelled[s]
          /\ \E r \in Ranking : taken' = [taken EXCEPT ![s] = First(r, MaxTopSize)]
          /\ goroutine' = [goroutine EXCEPT ![s] = "filter"]
       \/ /\ cached = <<>> /\ (RedisFails \/ cancelled[s])
          /\ goroutine' = [goroutine EXCEPT ![s] = "wait"]
          /\ UNCHANGED taken
    /\ UNCHANGED <<vars, cachedTop, handler, line, cancelled, late>>

OfferAll(s, list) ==
    /\ goroutine[s] = "filter"
    /\ line' = [line EXCEPT ![s] = Append(@, list)]
    /\ taken' = [taken EXCEPT ![s] = <<>>]
    /\ goroutine' = [goroutine EXCEPT ![s] = "send"]
    /\ UNCHANGED <<vars, cachedTop, handler, cancelled, late>>

\* Variants that apply the limit before the stop words, and without them.
FilterLimitFirst(s) ==
    OfferAll(s, Filtered(First(taken[s], Limit(s)), Server[s], Limit(s)))

FilterNothing(s) ==
    OfferAll(s, {taken[s][n] : n \in 1..Len(First(taken[s], Limit(s)))})

\* Under the read lock of the stop words.
Filter(s) == OfferAll(s, Filtered(taken[s], Server[s], Limit(s)))

Enqueue(s) ==
    /\ goroutine[s] = "send"
    /\ InChannel(s) < Capacity
    /\ goroutine' = [goroutine EXCEPT ![s] = "wait"]
    /\ UNCHANGED <<vars, cachedTop, taken, handler, line, cancelled, late>>

\* A variant that puts the list into the channel without a select.
AbandonNever(s) == FALSE /\ UNCHANGED allVars

\* The context is done while the list waits for room.
Abandon(s) ==
    /\ goroutine[s] = "send"
    /\ cancelled[s]
    /\ line' = [line EXCEPT ![s] = SubSeq(@, 1, Len(@) - 1)]
    /\ goroutine' = [goroutine EXCEPT ![s] = "done"]
    /\ UNCHANGED <<vars, cachedTop, taken, handler, cancelled, late>>

Tick(s) ==
    /\ goroutine[s] = "wait"
    /\ goroutine' = [goroutine EXCEPT ![s] = "take"]
    /\ UNCHANGED <<vars, cachedTop, taken, handler, line, cancelled, late>>

\* The goroutine returns and closes the channel.
Leave(s) ==
    /\ goroutine[s] = "wait"
    /\ cancelled[s]
    /\ goroutine' = [goroutine EXCEPT ![s] = "done"]
    /\ UNCHANGED <<vars, cachedTop, taken, handler, line, cancelled, late>>

Receive(s) ==
    /\ handler[s] = "range"
    /\ InChannel(s) > 0
    /\ handler' = [handler EXCEPT ![s] = "send"]
    /\ UNCHANGED <<vars, cachedTop, goroutine, taken, line, cancelled, late>>

\* Words in force on i that match a query of the list.
Shows(i, list) == {w \in inForce[i] : \E q \in list : w \in Tokens[q]}

Send(s) ==
    /\ handler[s] = "send"
    /\ handler' = [handler EXCEPT ![s] = "range"]
    /\ line' = [line EXCEPT ![s] = Tail(@)]
    /\ late' = [late EXCEPT ![s] =
                  [w \in Word |-> IF w \in Shows(Server[s], Head(line[s]))
                                    THEN @[w] + 1 ELSE @[w]]]
    /\ UNCHANGED <<vars, cachedTop, goroutine, taken, cancelled>>

\* gRPC cancels the context when a handler returns.
HandlerReturns(s) ==
    /\ handler' = [handler EXCEPT ![s] = "left"]
    /\ cancelled' = [cancelled EXCEPT ![s] = TRUE]

SendFails(s) ==
    /\ handler[s] = "send"
    /\ HandlerReturns(s)
    /\ line' = [line EXCEPT ![s] = Tail(@)]
    /\ UNCHANGED <<vars, cachedTop, goroutine, taken, late>>

RangeEnds(s) ==
    /\ handler[s] = "range"
    /\ goroutine[s] = "done"
    /\ line[s] = <<>>
    /\ HandlerReturns(s)
    /\ UNCHANGED <<vars, cachedTop, goroutine, taken, line, late>>

ClientCancels(s) ==
    /\ handler[s] \in {"range", "send"}
    /\ ~ cancelled[s]
    /\ cancelled' = [cancelled EXCEPT ![s] = TRUE]
    /\ UNCHANGED <<vars, cachedTop, goroutine, taken, handler, line, late>>

\* A word that is no longer in force is not late.
Forget ==
    late' = [s \in Stream |-> [w \in Word |->
               IF w \in inForce'[Server[s]] THEN late[s][w] ELSE 0]]

\* The stop words' own steps.
Words ==
    /\ \/ \E i \in Instance : LoadStopWords(i)
       \/ \E c \in Call : Step(c)
       \/ \E c \in Call, i \in Instance, o \in {"add", "remove"}, w \in Word :
            Invoke(c, i, o, w)
    /\ Forget
    /\ UNCHANGED <<cachedTop, streamVars>>

\* The process dies with its streams and its cache.
ServerCrash(i) ==
    /\ Crash(i)
    /\ LET on == {s \in Stream : Server[s] = i /\ handler[s] # "none"} IN
       /\ cachedTop' = [cachedTop EXCEPT ![i] = <<>>]
       /\ goroutine' = [s \in Stream |-> IF s \in on THEN "done" ELSE goroutine[s]]
       /\ handler' = [s \in Stream |-> IF s \in on THEN "left" ELSE handler[s]]
       /\ line' = [s \in Stream |-> IF s \in on THEN <<>> ELSE line[s]]
       /\ cancelled' = [s \in Stream |-> s \in on \/ cancelled[s]]
    /\ UNCHANGED <<taken, late>>

Goroutine(s) ==
    Take(s) \/ Filter(s) \/ Enqueue(s) \/ Abandon(s) \/ Tick(s) \/ Leave(s)

Handler(s) == Receive(s) \/ Send(s) \/ SendFails(s) \/ RangeEnds(s)

ServingNext ==
    \/ Words
    \/ \E i \in Instance : ServerCrash(i)
    \/ \E i \in Home : Aggregate(i)
    \/ \E s \in Stream : StreamTop(s) \/ Goroutine(s) \/ Handler(s)
                             \/ ClientCancels(s)

ServingSpec == ServingInit /\ [][ServingNext]_allVars

(***************************************************************************)
(* Goroutines are scheduled; a select that again and again finds both the  *)
(* ticker and the context ready chooses at random (SF).  stream.Send may   *)
(* wait for a slow client, but not once the context is cancelled.          *)
(***************************************************************************)
ServingFairSpec ==
    /\ ServingSpec
    /\ \A s \in Stream :
         /\ WF_allVars(Take(s) \/ Filter(s) \/ Enqueue(s) \/ Abandon(s))
         /\ SF_allVars(Leave(s))
         /\ WF_allVars(Receive(s) \/ RangeEnds(s)
                           \/ (cancelled[s] /\ (Send(s) \/ SendFails(s))))
-----------------------------------------------------------------------------
(***************************************************************************)
(* A stop word reaches the open streams with a bounded delay: once its     *)
(* addition is acknowledged and stays in force, a stream shows it at most  *)
(* in the lists that were already under way, the channel's and two more.   *)
(***************************************************************************)
StaleBounded == \A s \in Stream, w \in Word : late[s][w] <= Capacity + 2

(***************************************************************************)
(* Filtering the MaxTopSize cached entries shows what filtering the whole  *)
(* ranking would, as long as stop words match at most MaxTopSize - limit   *)
(* of them; with more, entries are missing although there are others.      *)
(***************************************************************************)
ServedIsTrueTop ==
    [][\A s \in Stream : goroutine[s] = "filter" /\ goroutine'[s] = "send" =>
         \A r \in Ranking :
            LET i == Server[s]
                blocked == {n \in 1..Len(taken[s]) : matchesStopWord(i, taken[s][n])}
            IN /\ taken[s] = First(r, MaxTopSize)
               /\ Len(r) <= MaxTopSize \/ Cardinality(blocked) <= MaxTopSize - Limit(s)
               => line'[s][Len(line'[s])] = Filtered(r, i, Limit(s))]_allVars

(***************************************************************************)
(* No goroutine and no handler outlives a stream whose context is done,    *)
(* whether the client left, a send failed or the channel was full.         *)
(***************************************************************************)
NoLeak ==
    \A s \in Stream :
        cancelled[s] ~> goroutine[s] = "done" /\ handler[s] = "left"
=============================================================================
