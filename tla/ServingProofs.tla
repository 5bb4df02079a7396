--------------------------- MODULE ServingProofs ----------------------------
(***************************************************************************)
(* Theorems about module Serving for any number of instances, streams and  *)
(* calls, any channel and any limit: it implements StopWords, its types,   *)
(* the delay with which a stop word reaches a stream, and when the filter  *)
(* after the cut shows the true top.                                       *)
(***************************************************************************)
EXTENDS Serving, StopWordsProofs, FiniteSetTheorems, SequenceTheorems

Running == {"take", "filter", "send", "wait"}

\* The lists that still show word w are the first k of the line.
CleanAfter(s, w, k) ==
    \A n \in 1..Len(line[s]) : n > k => \A q \in line[s][n] : w \notin Tokens[q]

\* They and the late ones together are no more than fit into the line.
LateOK(s, w) ==
    IF w \in inForce[Server[s]]
      THEN \E k \in 0..Len(line[s]) :
              late[s][w] + k <= Capacity + 2 /\ CleanAfter(s, w, k)
      ELSE late[s][w] = 0

LateInv == \A s \in Stream, w \in Word : LateOK(s, w)

ServingInv == StreamsOK /\ ForceInv /\ LateInv
-----------------------------------------------------------------------------
\* A step of the streams is no step of the stop words, and the others are
\* theirs.
LEMMA StepSimulates == [ServingNext]_allVars => [Next]_vars
<1> SUFFICES ASSUME [ServingNext]_allVars PROVE [Next]_vars
  OBVIOUS
<1>1. CASE Words
  BY <1>1 DEF Words, Next
<1>2. ASSUME NEW i \in Instance, ServerCrash(i) PROVE Next
  BY <1>2 DEF ServerCrash, Next
<1>3. ASSUME NEW i \in Home, Aggregate(i) PROVE UNCHANGED vars
  BY <1>3 DEF Aggregate
<1>4. ASSUME NEW s \in Stream, StreamTop(s) \/ Goroutine(s) \/ Handler(s)
                                   \/ ClientCancels(s)
      PROVE  UNCHANGED vars
  BY <1>4 DEF StreamTop, Goroutine, Take, Filter, OfferAll, Enqueue, Abandon,
              Tick, Leave, Handler, Receive, Send, SendFails, RangeEnds,
              ClientCancels
<1>5. CASE UNCHANGED allVars
  BY <1>5 DEF allVars
<1> QED
  BY <1>1, <1>2, <1>3, <1>4, <1>5 DEF ServingNext

(***************************************************************************)
(* With streams beside them, the stop words are still the specification    *)
(* they are alone: everything proved about StopWords holds in Serving.     *)
(***************************************************************************)
THEOREM ServingImplementsStopWords == ServingSpec => Spec
<1>1. ServingInit => Init
  BY DEF ServingInit
<1> QED
  BY <1>1, StepSimulates, PTL DEF ServingSpec, Spec
-----------------------------------------------------------------------------
\* A ranking is cut to at most the number of entries asked for.
LEMMA FirstType ==
    ASSUME NEW r \in Seq(Query), NEW n \in Nat
    PROVE  /\ First(r, n) \in Seq(Query)
           /\ Len(First(r, n)) = IF Len(r) < n THEN Len(r) ELSE n
           /\ \A m \in 1..Len(First(r, n)) : First(r, n)[m] = r[m]
<1> DEFINE k == IF Len(r) < n THEN Len(r) ELSE n
<1>1. Len(r) \in Nat /\ k \in Nat /\ k <= Len(r)
  BY LenProperties
<1>2. \A i \in 1..k : r[i] \in Query
  BY <1>1, ElementOfSeq
<1>3. First(r, n) = SubSeq(r, 1, k)
  BY DEF First
<1> HIDE DEF k
<1>4. /\ SubSeq(r, 1, k) \in Seq(Query)
      /\ Len(SubSeq(r, 1, k)) = IF 1 <= k THEN k - 1 + 1 ELSE 0
      /\ \A i \in 1..(k - 1 + 1) : SubSeq(r, 1, k)[i] = r[1 + i - 1]
  BY <1>1, <1>2, SubSeqProperties
<1>5. Len(SubSeq(r, 1, k)) = k
  BY <1>1, <1>4
<1>6. \A m \in 1..k : SubSeq(r, 1, k)[m] = r[m]
  BY <1>1, <1>4
<1> QED
  BY <1>3, <1>4, <1>5, <1>6 DEF k

\* A list shows queries of the entries that no stop word matches.
LEMMA FilteredType ==
    ASSUME NEW entries \in Seq(Query), NEW i, NEW limit
    PROVE  /\ Filtered(entries, i, limit) \in SUBSET Query
           /\ \A q \in Filtered(entries, i, limit) : ~ matchesStopWord(i, q)
<1>1. \A n \in 1..Len(entries) : entries[n] \in Query
  BY ElementOfSeq
<1> QED
  BY <1>1 DEF Filtered

\* What the variables of the streams are functions to.
Functions ==
    /\ goroutine \in [Stream -> {"none", "take", "filter", "send", "wait", "done"}]
    /\ taken \in [Stream -> Seq(Query)]
    /\ handler \in [Stream -> {"none", "range", "send", "left"}]
    /\ line \in [Stream -> Seq(SUBSET Query)]
    /\ cancelled \in [Stream -> BOOLEAN]
    /\ late \in [Stream -> [Word -> Nat]]

\* Only stream s takes a step.
Only(s) ==
    /\ \A t \in Stream \ {s} :
         /\ goroutine'[t] = goroutine[t] /\ handler'[t] = handler[t]
         /\ line'[t] = line[t] /\ cancelled'[t] = cancelled[t]
    /\ UNCHANGED <<up, cachedTop>>

\* What one stream does leaves the others alone.
LEMMA OneStream ==
    ASSUME StreamsOK, NEW s \in Stream, Functions', Only(s), StreamOK(s)'
    PROVE  StreamsOK'
<1>1. ASSUME NEW t \in Stream \ {s} PROVE StreamOK(t)'
  <2>1. StreamOK(t)
    BY DEF StreamsOK
  <2>2. /\ goroutine'[t] = goroutine[t] /\ handler'[t] = handler[t]
        /\ line'[t] = line[t] /\ cancelled'[t] = cancelled[t]
        /\ up' = up
    BY DEF Only
  <2> QED
    BY ONLY <2>1, <2>2 DEF StreamOK, InChannel, InHand, Offered
<1>2. UNCHANGED cachedTop
  BY DEF Only
<1> QED
  BY <1>1, <1>2 DEF StreamsOK, Functions

\* The line is as long as handler, channel and goroutine together.
LEMMA LineLength ==
    ASSUME StreamsOK, NEW s \in Stream
    PROVE  /\ line[s] \in Seq(SUBSET Query)
           /\ Len(line[s]) \in Nat
           /\ Len(line[s]) <= Capacity + 2
           /\ InChannel(s) \in 0..Capacity
           /\ InChannel(s) = Len(line[s]) - InHand(s) - Offered(s)
           /\ handler[s] = "send" \/ goroutine[s] = "send" =>
                  Len(line[s]) > 0 /\ line[s] # <<>>
<1>1. line[s] \in Seq(SUBSET Query) /\ StreamOK(s)
  BY DEF StreamsOK
<1>2. Len(line[s]) \in Nat /\ (Len(line[s]) > 0 => line[s] # <<>>)
  BY <1>1, LenProperties, EmptySeq
<1>3. InChannel(s) \in 0..Capacity /\ Capacity \in Nat
  BY <1>1, ServingAssumption DEF StreamOK
<1>4. /\ InHand(s) = IF handler[s] = "send" THEN 1 ELSE 0
      /\ Offered(s) = IF goroutine[s] = "send" THEN 1 ELSE 0
      /\ InChannel(s) = Len(line[s]) - InHand(s) - Offered(s)
  BY DEF InHand, Offered, InChannel
<1>5. /\ Len(line[s]) <= Capacity + 2
      /\ handler[s] = "send" \/ goroutine[s] = "send" => Len(line[s]) > 0
  BY ONLY <1>2, <1>3, <1>4
<1> QED
  BY <1>1, <1>2, <1>3, <1>4, <1>5

\* The same as numbers.
LEMMA InLine ==
    ASSUME StreamsOK, NEW s \in Stream
    PROVE  /\ Len(line[s]) \in Int /\ InHand(s) \in Int /\ Offered(s) \in Int
           /\ InChannel(s) = Len(line[s]) - InHand(s) - Offered(s)
           /\ InChannel(s) \in Int /\ Capacity \in Int
           /\ 0 <= InChannel(s) /\ InChannel(s) <= Capacity
<1>1. InHand(s) \in Int /\ Offered(s) \in Int
  BY DEF InHand, Offered
<1>2. InChannel(s) = Len(line[s]) - InHand(s) - Offered(s)
  BY DEF InChannel
<1> QED
  BY <1>1, <1>2, LineLength, ServingAssumption

\* The first list of a line leaves it, or the last.
LEMMA Shorter ==
    ASSUME StreamsOK, NEW s \in Stream, line[s] # <<>>
    PROVE  /\ Tail(line[s]) \in Seq(SUBSET Query)
           /\ Len(Tail(line[s])) = Len(line[s]) - 1
           /\ \A n \in 1..(Len(line[s]) - 1) : Tail(line[s])[n] = line[s][n + 1]
           /\ SubSeq(line[s], 1, Len(line[s]) - 1) \in Seq(SUBSET Query)
           /\ Len(SubSeq(line[s], 1, Len(line[s]) - 1)) = Len(line[s]) - 1
           /\ \A n \in 1..(Len(line[s]) - 1) :
                 SubSeq(line[s], 1, Len(line[s]) - 1)[n] = line[s][n]
<1> DEFINE l == line[s]
           k == Len(l) - 1
<1>1. l \in Seq(SUBSET Query) /\ l # <<>>
  BY LineLength
<1>2. k \in Nat /\ k + 1 = Len(l)
  BY <1>1, EmptySeq
<1>3. /\ Tail(l) \in Seq(SUBSET Query) /\ Len(Tail(l)) = k
      /\ \A n \in 1..k : Tail(l)[n] = l[n + 1]
  BY <1>1, HeadTailProperties
<1>4. \A n \in 1..k : l[n] \in SUBSET Query
  <2> TAKE n \in 1..k
  <2>1. n \in 1..Len(l)
    BY <1>2
  <2> QED
    BY <1>1, <2>1, ElementOfSeq
<1> HIDE DEF l, k
<1>5. /\ SubSeq(l, 1, k) \in Seq(SUBSET Query)
      /\ Len(SubSeq(l, 1, k)) = IF 1 <= k THEN k - 1 + 1 ELSE 0
      /\ \A n \in 1..(k - 1 + 1) : SubSeq(l, 1, k)[n] = l[1 + n - 1]
  BY <1>2, <1>4, SubSeqProperties
<1>6. /\ Len(SubSeq(l, 1, k)) = k
      /\ \A n \in 1..k : SubSeq(l, 1, k)[n] = l[n]
  BY <1>2, <1>5
<1> QED
  BY <1>3, <1>5, <1>6 DEF l, k

\* What a step of one stream has to keep.
LEMMA StreamKept ==
    ASSUME StreamsOK, NEW s \in Stream, UNCHANGED up,
           Len(line[s])' \in Nat,
           Len(line[s])' - InHand(s)' - Offered(s)' \in 0..Capacity,
           goroutine'[s] = "none" <=> handler'[s] = "none",
           goroutine'[s] \in {"none", "done"} \/ goroutine[s] \notin {"none", "done"},
           handler'[s] \in {"none", "left"} \/ handler[s] \notin {"none", "left"},
           handler'[s] = "left" => cancelled'[s],
           goroutine[s] \in {"none", "take", "filter", "send", "wait", "done"},
           handler[s] \in {"none", "range", "send", "left"}
    PROVE  StreamOK(s)'
<1>1. StreamOK(s)
  BY DEF StreamsOK
<1>2. InChannel(s)' \in 0..Capacity
  BY DEF InChannel
<1>3. goroutine'[s] \in {"take", "filter", "send", "wait"} => up'[Server[s]]
  BY <1>1 DEF StreamOK
<1>4. handler'[s] \in {"range", "send"} => up'[Server[s]]
  BY <1>1 DEF StreamOK
<1> QED
  BY <1>2, <1>3, <1>4 DEF StreamOK

\* The goroutine's steps keep the types.
LEMMA GoroutineTypes ==
    ASSUME StreamsOK, NEW s \in Stream, Goroutine(s)
    PROVE  StreamsOK'
<1>1. Functions /\ StreamOK(s)
  BY DEF StreamsOK, Functions
<1> USE DEF vars, Functions, Only
<1>2. CASE Take(s)
  <2>1. PICK g \in {"filter", "wait"} : goroutine' = [goroutine EXCEPT ![s] = g]
    BY <1>2 DEF Take
  <2>2. goroutine[s] = "take" /\ UNCHANGED <<up, cachedTop, handler, line, cancelled, late>>
    BY <1>2 DEF Take
  <2>3. taken' \in [Stream -> Seq(Query)]
    <3>1. cachedTop[Server[s]] \in Seq(Query)
      BY DEF StreamsOK, Home
    <3>2. \A r \in Ranking : First(r, MaxTopSize) \in Seq(Query)
      BY ServingAssumption, FirstType
    <3>3. CASE taken' = [taken EXCEPT ![s] = cachedTop[Server[s]]]
      BY <1>1, <3>1, <3>3
    <3>4. CASE \E r \in Ranking : taken' = [taken EXCEPT ![s] = First(r, MaxTopSize)]
      BY <1>1, <3>2, <3>4
    <3>5. CASE taken' = taken
      BY <1>1, <3>5
    <3> QED
      BY <1>2, <3>3, <3>4, <3>5 DEF Take
  <2>4. Functions' /\ Only(s)
    BY <1>1, <2>1, <2>2, <2>3
  <2>5. StreamOK(s)'
    BY <1>1, <2>1, <2>2 DEF StreamOK, InChannel, InHand, Offered
  <2> QED
    BY <2>4, <2>5, OneStream
<1>3. CASE Filter(s)
  <2> DEFINE list == Filtered(taken[s], Server[s], Limit(s))
             l == Append(line[s], list)
  <2>1. list \in SUBSET Query
    BY <1>1, FilteredType
  <2> HIDE DEF list
  <2>2. l \in Seq(SUBSET Query) /\ Len(l) = Len(line[s]) + 1
    BY <1>1, <2>1
  <2>3. goroutine[s] = "filter" /\ goroutine' = [goroutine EXCEPT ![s] = "send"]
        /\ line' = [line EXCEPT ![s] = l] /\ taken' = [taken EXCEPT ![s] = <<>>]
        /\ UNCHANGED <<up, cachedTop, handler, cancelled, late>>
    BY <1>3 DEF Filter, OfferAll, list
  <2> HIDE DEF l
  <2>4. Functions' /\ Only(s)
    BY <1>1, <2>2, <2>3, EmptySeq
  <2>5. line'[s] = l /\ goroutine'[s] = "send"
    BY <1>1, <2>3
  <2>6. StreamOK(s)'
    BY <1>1, <2>2, <2>3, <2>5, LineLength DEF StreamOK, InChannel, InHand, Offered
  <2> QED
    BY <2>4, <2>6, OneStream
<1>4. CASE Enqueue(s)
  <2>1. Functions' /\ Only(s)
    BY <1>1, <1>4 DEF Enqueue
  <2>2. /\ goroutine[s] = "send" /\ goroutine'[s] = "wait" /\ line' = line
        /\ UNCHANGED <<up, handler, cancelled>> /\ InChannel(s) < Capacity
    BY <1>1, <1>4 DEF Enqueue
  <2>3. Len(line[s])' - InHand(s)' - Offered(s)' \in 0..Capacity
    <3>1. InHand(s)' = InHand(s) /\ Offered(s) = 1 /\ Offered(s)' = 0
      BY <2>2 DEF InHand, Offered
    <3>2. Len(line[s])' = Len(line[s])
      BY <2>2
    <3>3. InChannel(s) < Capacity
      BY <2>2
    <3>4. /\ Len(line[s]) \in Int /\ InHand(s) \in Int /\ Offered(s) \in Int
          /\ InChannel(s) = Len(line[s]) - InHand(s) - Offered(s)
          /\ Capacity \in Int /\ 0 <= InChannel(s) /\ InChannel(s) <= Capacity
      BY InLine
    <3> QED
      BY ONLY <3>1, <3>2, <3>3, <3>4
  <2>4. Len(line[s])' \in Nat
    BY <2>2, LineLength
  <2>5. StreamOK(s)'
    BY <1>1, <2>2, <2>3, <2>4, StreamKept DEF StreamOK
  <2> QED
    BY <2>1, <2>5, OneStream
<1>5. CASE Abandon(s)
  <2> DEFINE l == SubSeq(line[s], 1, Len(line[s]) - 1)
  <2>1. goroutine[s] = "send" /\ goroutine' = [goroutine EXCEPT ![s] = "done"]
        /\ line' = [line EXCEPT ![s] = l] /\ cancelled[s]
        /\ UNCHANGED <<up, cachedTop, taken, handler, cancelled, late>>
    BY <1>5 DEF Abandon
  <2>2. l \in Seq(SUBSET Query) /\ Len(l) = Len(line[s]) - 1
    BY <2>1, Shorter, LineLength
  <2> HIDE DEF l
  <2>3. Functions' /\ Only(s)
    BY <1>1, <2>1, <2>2
  <2>4. line'[s] = l /\ goroutine'[s] = "done"
    BY <1>1, <2>1
  <2>5. Len(line[s])' - InHand(s)' - Offered(s)' \in 0..Capacity
    <3>1. InHand(s)' = InHand(s) /\ Offered(s) = 1 /\ Offered(s)' = 0
      BY <2>1, <2>4 DEF InHand, Offered
    <3>2. Len(line[s])' = Len(line[s]) - 1
      BY <2>2, <2>4
    <3> QED
      BY <3>1, <3>2, InLine
  <2>6. Len(line[s])' \in Nat
    BY <2>1, <2>2, <2>4, LineLength
  <2>7. StreamOK(s)'
    BY <1>1, <2>1, <2>4, <2>5, <2>6, StreamKept DEF StreamOK
  <2> QED
    BY <2>3, <2>7, OneStream
<1>6. CASE Tick(s)
  <2>1. Functions' /\ Only(s)
    BY <1>1, <1>6 DEF Tick
  <2>2. StreamOK(s)'
    BY <1>1, <1>6 DEF Tick, StreamOK, InChannel, InHand, Offered
  <2> QED
    BY <2>1, <2>2, OneStream
<1>7. CASE Leave(s)
  <2>1. Functions' /\ Only(s)
    BY <1>1, <1>7 DEF Leave
  <2>2. StreamOK(s)'
    BY <1>1, <1>7 DEF Leave, StreamOK, InChannel, InHand, Offered
  <2> QED
    BY <2>1, <2>2, OneStream
<1> QED
  BY <1>2, <1>3, <1>4, <1>5, <1>6, <1>7 DEF Goroutine

\* So do the handler's, and those of the client.
LEMMA HandlerTypes ==
    ASSUME StreamsOK, NEW s \in Stream,
           StreamTop(s) \/ Handler(s) \/ ClientCancels(s)
    PROVE  StreamsOK'
<1>1. Functions /\ StreamOK(s)
  BY DEF StreamsOK, Functions
<1> USE DEF vars, Functions, Only
<1>2. CASE StreamTop(s)
  <2>1. Functions' /\ Only(s)
    BY <1>1, <1>2 DEF StreamTop
  <2>2. StreamOK(s)'
    BY <1>1, <1>2 DEF StreamTop, StreamOK, InChannel, InHand, Offered
  <2> QED
    BY <2>1, <2>2, OneStream
<1>3. CASE Receive(s)
  <2>1. Functions' /\ Only(s)
    BY <1>1, <1>3 DEF Receive
  <2>2. /\ handler[s] = "range" /\ handler'[s] = "send" /\ line' = line
        /\ UNCHANGED <<up, goroutine, cancelled>> /\ InChannel(s) > 0
    BY <1>1, <1>3 DEF Receive
  <2>3. Len(line[s])' - InHand(s)' - Offered(s)' \in 0..Capacity
    <3>1. InHand(s) = 0 /\ InHand(s)' = 1 /\ Offered(s)' = Offered(s)
      BY <2>2 DEF InHand, Offered
    <3>2. Len(line[s])' = Len(line[s])
      BY <2>2
    <3>3. InChannel(s) > 0
      BY <2>2
    <3>4. /\ Len(line[s]) \in Int /\ InHand(s) \in Int /\ Offered(s) \in Int
          /\ InChannel(s) = Len(line[s]) - InHand(s) - Offered(s)
          /\ Capacity \in Int /\ 0 <= InChannel(s) /\ InChannel(s) <= Capacity
      BY InLine
    <3> QED
      BY ONLY <3>1, <3>2, <3>3, <3>4
  <2>4. Len(line[s])' \in Nat
    BY <2>2, LineLength
  <2>5. StreamOK(s)'
    BY <1>1, <2>2, <2>3, <2>4, StreamKept DEF StreamOK
  <2> QED
    BY <2>1, <2>5, OneStream
<1>4. CASE Send(s) \/ SendFails(s)
  <2> DEFINE l == Tail(line[s])
  <2>1. /\ handler[s] = "send" /\ line' = [line EXCEPT ![s] = l]
        /\ \/ handler' = [handler EXCEPT ![s] = "range"] /\ cancelled' = cancelled
           \/ /\ handler' = [handler EXCEPT ![s] = "left"]
              /\ cancelled' = [cancelled EXCEPT ![s] = TRUE]
        /\ UNCHANGED <<up, cachedTop, taken, goroutine>>
    BY <1>4 DEF Send, SendFails, HandlerReturns
  <2>2. l \in Seq(SUBSET Query) /\ Len(l) = Len(line[s]) - 1
    BY <2>1, Shorter, LineLength
  <2> HIDE DEF l
  <2>3. late' \in [Stream -> [Word -> Nat]]
    <3>1. ASSUME NEW S PROVE [w \in Word |-> IF w \in S THEN late[s][w] + 1
                                              ELSE late[s][w]] \in [Word -> Nat]
      <4>1. late[s] \in [Word -> Nat]
        BY <1>1
      <4> QED
        BY <4>1
    <3>2. ASSUME NEW f \in [Word -> Nat]
          PROVE  [late EXCEPT ![s] = f] \in [Stream -> [Word -> Nat]]
      BY <1>1
    <3>3. CASE Send(s)
      <4> DEFINE S == Shows(Server[s], Head(line[s]))
      <4>1. late' = [late EXCEPT ![s] = [w \in Word |-> IF w \in S THEN late[s][w] + 1
                                                               ELSE late[s][w]]]
        BY <3>3 DEF Send
      <4> HIDE DEF S
      <4> QED
        BY <3>1, <3>2, <4>1
    <3>4. CASE SendFails(s)
      BY <1>1, <3>4 DEF SendFails
    <3> QED
      BY <1>4, <3>3, <3>4
  <2>4. Functions' /\ Only(s)
    BY <1>1, <2>1, <2>2, <2>3
  <2>5. line'[s] = l /\ handler'[s] # "send" /\ handler'[s] \in {"range", "left"}
        /\ (handler'[s] = "left" => cancelled'[s])
    BY <1>1, <2>1
  <2>6. Len(line[s])' - InHand(s)' - Offered(s)' \in 0..Capacity
    <3>1. InHand(s) = 1 /\ InHand(s)' = 0 /\ Offered(s)' = Offered(s)
      BY <2>1, <2>5 DEF InHand, Offered
    <3>2. Len(line[s])' = Len(line[s]) - 1
      BY <2>2, <2>5
    <3> QED
      BY <3>1, <3>2, InLine
  <2>7. Len(line[s])' \in Nat
    BY <2>1, <2>2, <2>5, LineLength
  <2>8. StreamOK(s)'
    BY <1>1, <2>1, <2>5, <2>6, <2>7, StreamKept DEF StreamOK
  <2> QED
    BY <2>4, <2>8, OneStream
<1>5. CASE RangeEnds(s)
  <2>1. Functions' /\ Only(s)
    BY <1>1, <1>5 DEF RangeEnds, HandlerReturns
  <2>2. StreamOK(s)'
    BY <1>1, <1>5 DEF RangeEnds, HandlerReturns, StreamOK, InChannel, InHand, Offered
  <2> QED
    BY <2>1, <2>2, OneStream
<1>6. CASE ClientCancels(s)
  <2>1. Functions' /\ Only(s)
    BY <1>1, <1>6 DEF ClientCancels
  <2>2. StreamOK(s)'
    BY <1>1, <1>6 DEF ClientCancels, StreamOK, InChannel, InHand, Offered
  <2> QED
    BY <2>1, <2>2, OneStream
<1> QED
  BY <1>2, <1>3, <1>4, <1>5, <1>6 DEF Handler

\* The stop words' steps bring instances up and none down.
LEMMA WordsTypes ==
    ASSUME StreamsOK, TypeOK, Words
    PROVE  StreamsOK'
<1>1. \A i \in Instance : up[i] => up'[i]
  <2>1. ASSUME NEW i \in Instance, LoadStopWords(i)
        PROVE  \A j \in Instance : up[j] => up'[j]
    BY <2>1 DEF LoadStopWords, TypeOK
  <2>2. ASSUME NEW c \in Call, Step(c) PROVE UNCHANGED up
    BY <2>2 DEF Step, WriteRedis, WriteFails, UpdateMap
  <2>3. ASSUME NEW c \in Call, NEW i \in Instance, NEW o \in {"add", "remove"},
               NEW w \in Word, Invoke(c, i, o, w) PROVE UNCHANGED up
    BY <2>3 DEF Invoke
  <2> QED
    BY <2>1, <2>2, <2>3 DEF Words
<1>2. UNCHANGED <<cachedTop, goroutine, taken, handler, line, cancelled>>
  BY DEF Words, streamVars
<1>3. late' \in [Stream -> [Word -> Nat]]
  BY DEF Words, Forget, StreamsOK
<1>4. ASSUME NEW s \in Stream PROVE StreamOK(s)'
  <2>1. StreamOK(s) /\ Server[s] \in Instance
    BY ServingAssumption DEF StreamsOK
  <2> QED
    BY <1>1, <1>2, <2>1 DEF StreamOK, InChannel, InHand, Offered
<1> QED
  BY <1>2, <1>3, <1>4 DEF StreamsOK

\* A crash empties what belonged to the instance.
LEMMA CrashTypes ==
    ASSUME StreamsOK, TypeOK, NEW i \in Instance, ServerCrash(i)
    PROVE  StreamsOK'
<1>1. up' = [up EXCEPT ![i] = FALSE] /\ UNCHANGED <<taken, late>>
      /\ cachedTop' = [cachedTop EXCEPT ![i] = <<>>]
  BY DEF ServerCrash, Crash
<1>2. ASSUME NEW s \in Stream
      PROVE  \/ /\ goroutine'[s] = "done" /\ handler'[s] = "left"
                /\ line'[s] = <<>> /\ cancelled'[s] = TRUE
             \/ /\ goroutine'[s] = goroutine[s] /\ handler'[s] = handler[s]
                /\ line'[s] = line[s] /\ cancelled'[s] = cancelled[s]
                /\ Server[s] # i \/ handler[s] = "none"
  BY DEF ServerCrash, StreamsOK
<1>3. Functions'
  <2>1. /\ goroutine' = [s \in Stream |-> goroutine'[s]]
        /\ handler' = [s \in Stream |-> handler'[s]]
        /\ line' = [s \in Stream |-> line'[s]]
        /\ cancelled' = [s \in Stream |-> cancelled'[s]]
    BY DEF ServerCrash
  <2>2. Functions
    BY DEF StreamsOK, Functions
  <2>3. \A s \in Stream :
           /\ goroutine'[s] \in {"none", "take", "filter", "send", "wait", "done"}
           /\ handler'[s] \in {"none", "range", "send", "left"}
           /\ line'[s] \in Seq(SUBSET Query) /\ cancelled'[s] \in BOOLEAN
    BY <1>2, <2>2, EmptySeq DEF Functions
  <2> QED
    BY <1>1, <2>1, <2>2, <2>3 DEF Functions
<1>4. /\ cachedTop' \in [Home -> Seq(Query)]
      /\ \A j \in Home : Len(cachedTop'[j]) <= MaxTopSize
  <2>1. /\ cachedTop \in [Home -> Seq(Query)]
        /\ \A j \in Home : Len(cachedTop[j]) <= MaxTopSize
    BY DEF StreamsOK
  <2>2. <<>> \in Seq(Query) /\ Len(<<>>) = 0 /\ MaxTopSize \in Nat /\ 0 <= MaxTopSize
    BY EmptySeq, ServingAssumption
  <2>3. \A j \in Home : cachedTop'[j] = <<>> \/ cachedTop'[j] = cachedTop[j]
    BY <1>1, <2>1
  <2> QED
    BY ONLY <1>1, <2>1, <2>2, <2>3
<1>5. ASSUME NEW s \in Stream PROVE StreamOK(s)'
  <2>1. StreamOK(s) /\ Server[s] \in Instance /\ Capacity \in Nat
    BY ServingAssumption DEF StreamsOK
  <2>2. Len(<<>>) = 0
    BY EmptySeq
  <2>3. CASE goroutine'[s] = "done" /\ handler'[s] = "left" /\ line'[s] = <<>>
             /\ cancelled'[s] = TRUE
    BY <2>1, <2>2, <2>3 DEF StreamOK, InChannel, InHand, Offered
  <2>4. CASE /\ goroutine'[s] = goroutine[s] /\ handler'[s] = handler[s]
             /\ line'[s] = line[s] /\ cancelled'[s] = cancelled[s]
             /\ Server[s] # i \/ handler[s] = "none"
    BY <1>1, <2>1, <2>4 DEF StreamOK, InChannel, InHand, Offered, TypeOK
  <2> QED
    BY <1>2, <2>3, <2>4
<1> QED
  BY <1>3, <1>4, <1>5 DEF StreamsOK, Functions

\* What is cached is never longer than the cut.
LEMMA AggregateTypes ==
    ASSUME StreamsOK, NEW i \in Home, Aggregate(i)
    PROVE  StreamsOK'
<1>1. PICK r \in Ranking : cachedTop' = [cachedTop EXCEPT ![i] = First(r, MaxTopSize)]
  BY DEF Aggregate
<1>2. r \in Seq(Query) /\ MaxTopSize \in Nat /\ Len(r) \in Nat
  BY ServingAssumption, LenProperties
<1>3. First(r, MaxTopSize) \in Seq(Query) /\ Len(First(r, MaxTopSize)) <= MaxTopSize
  BY <1>2, FirstType
<1>4. UNCHANGED <<goroutine, taken, handler, line, cancelled, up, late>>
  BY DEF Aggregate, streamVars, vars
<1>5. \A s \in Stream : StreamOK(s)'
  BY <1>4 DEF StreamsOK, StreamOK, InChannel, InHand, Offered
<1>6. /\ cachedTop' \in [Home -> Seq(Query)]
      /\ \A j \in Home : Len(cachedTop'[j]) <= MaxTopSize
  BY <1>1, <1>3 DEF StreamsOK
<1> QED
  BY <1>4, <1>5, <1>6 DEF StreamsOK

\* Nothing is cached and no stream is open.
LEMMA StreamsInit == ServingInit => StreamsOK
<1> SUFFICES ASSUME ServingInit PROVE StreamsOK
  OBVIOUS
<1>1. Functions /\ cachedTop \in [Home -> Seq(Query)]
  BY EmptySeq DEF ServingInit, Functions
<1>2. \A i \in Home : Len(cachedTop[i]) <= MaxTopSize
  <2>1. Len(<<>>) = 0 /\ MaxTopSize \in Nat
    BY EmptySeq, ServingAssumption
  <2>2. \A i \in Home : cachedTop[i] = <<>>
    BY DEF ServingInit
  <2>3. ASSUME NEW i \in Home PROVE Len(cachedTop[i]) = 0
    BY <2>1, <2>2
  <2>4. 0 <= MaxTopSize
    BY <2>1
  <2> QED
    BY <2>3, <2>4
<1>3. ASSUME NEW s \in Stream PROVE StreamOK(s)
  BY EmptySeq, ServingAssumption
     DEF ServingInit, StreamOK, InChannel, InHand, Offered
<1> QED
  BY <1>1, <1>2, <1>3 DEF StreamsOK, Functions

\* Every step keeps the types of the streams.
LEMMA StreamsStep == StreamsOK /\ TypeOK /\ [ServingNext]_allVars => StreamsOK'
<1> SUFFICES ASSUME StreamsOK, TypeOK, [ServingNext]_allVars PROVE StreamsOK'
  OBVIOUS
<1>1. CASE UNCHANGED allVars
  <2>1. UNCHANGED <<cachedTop, goroutine, taken, handler, line, cancelled, late, up>>
    BY <1>1 DEF allVars, vars, servingVars, streamVars
  <2>2. \A s \in Stream : StreamOK(s)'
    BY <2>1 DEF StreamsOK, StreamOK, InChannel, InHand, Offered
  <2> QED
    BY <2>1, <2>2 DEF StreamsOK
<1> QED
  BY <1>1, GoroutineTypes, HandlerTypes, WordsTypes, CrashTypes, AggregateTypes
     DEF ServingNext

(***************************************************************************)
(* The cache never holds more than the cut, a channel never more than its  *)
(* capacity, nothing of a stream outlives its process, and a handler that  *)
(* returned has cancelled the stream's context.                            *)
(***************************************************************************)
THEOREM ServingTypes == ServingSpec => []ServingTypeOK
<1>1. ServingInit => ServingTypeOK
  BY StreamsInit, TypeInit DEF ServingInit, ServingTypeOK
<1>2. ServingTypeOK /\ [ServingNext]_allVars => ServingTypeOK'
  BY StreamsStep, StepSimulates, TypeStep DEF ServingTypeOK
<1> QED
  BY <1>1, <1>2, PTL DEF ServingSpec
-----------------------------------------------------------------------------
\* Where line, late lists and words in force stay, so does the bound.
LEMMA LateSame ==
    ASSUME NEW s \in Stream, NEW w \in Word, LateOK(s, w),
           UNCHANGED <<line[s], late[s][w], inForce>>
    PROVE  LateOK(s, w)'
BY DEF LateOK, CleanAfter

\* A new list joins the line: it shows no word that is in force.
LEMMA LateFilter ==
    ASSUME ServingInv, NEW s \in Stream, NEW w \in Word, Filter(s)
    PROVE  LateOK(s, w)'
<1> DEFINE i == Server[s]
           list == Filtered(taken[s], i, Limit(s))
<1>1. /\ goroutine[s] = "filter" /\ line' = [line EXCEPT ![s] = Append(line[s], list)]
      /\ UNCHANGED <<late, inForce>>
  BY DEF Filter, OfferAll, vars
<1>2. i \in Instance /\ up[i] /\ inForce[i] \subseteq stopWords[i]
  BY <1>1, ServingAssumption
     DEF ServingInv, StreamsOK, StreamOK, ForceInv, InForceKept
<1>3. list \in SUBSET Query /\ \A q \in list : ~ matchesStopWord(i, q)
  BY FilteredType DEF ServingInv, StreamsOK
<1>4. w \in inForce[i] => \A q \in list : w \notin Tokens[q]
  BY <1>2, <1>3 DEF matchesStopWord
<1>5. line[s] \in Seq(SUBSET Query) /\ line \in [Stream -> Seq(SUBSET Query)]
      /\ Len(line[s]) \in Nat
  BY LineLength DEF ServingInv, StreamsOK
<1> HIDE DEF i, list
<1>6. /\ Len(Append(line[s], list)) = Len(line[s]) + 1
      /\ \A n \in 1..Len(line[s]) : Append(line[s], list)[n] = line[s][n]
      /\ Append(line[s], list)[Len(line[s]) + 1] = list
  BY <1>3, <1>5, AppendProperties
<1>7. line'[s] = Append(line[s], list)
  BY <1>1, <1>5
<1>8. LateOK(s, w)
  BY DEF ServingInv, LateInv
<1>9. CASE w \in inForce[i]
  <2>1. PICK k \in 0..Len(line[s]) :
           late[s][w] + k <= Capacity + 2 /\ CleanAfter(s, w, k)
    BY <1>8, <1>9 DEF LateOK, i
  <2>2. CleanAfter(s, w, k)'
    <3> SUFFICES ASSUME NEW n \in 1..(Len(line[s]) + 1), n > k
                 PROVE  \A q \in Append(line[s], list)[n] : w \notin Tokens[q]
      BY <1>6, <1>7 DEF CleanAfter
    <3>1. CASE n = Len(line[s]) + 1
      BY <1>4, <1>6, <1>9, <3>1
    <3>2. CASE n # Len(line[s]) + 1
      <4>1. n \in 1..Len(line[s])
        BY <1>5, <3>2
      <4> QED
        BY <1>6, <2>1, <4>1 DEF CleanAfter
    <3> QED
      BY <3>1, <3>2
  <2>3. k \in 0..Len(line'[s])
    BY <1>5, <1>6, <1>7
  <2> QED
    BY <1>1, <1>9, <2>1, <2>2, <2>3 DEF LateOK, i
<1>10. CASE w \notin inForce[i]
  BY <1>1, <1>8, <1>10 DEF LateOK, i
<1> QED
  BY <1>9, <1>10

\* The last list leaves the line.
LEMMA LateAbandon ==
    ASSUME ServingInv, NEW s \in Stream, NEW w \in Word, Abandon(s)
    PROVE  LateOK(s, w)'
<1> DEFINE l == SubSeq(line[s], 1, Len(line[s]) - 1)
<1>1. goroutine[s] = "send" /\ line' = [line EXCEPT ![s] = l]
      /\ UNCHANGED <<late, inForce>>
  BY DEF Abandon, vars
<1>2. /\ line[s] # <<>> /\ Len(line[s]) \in Nat /\ Len(line[s]) > 0
      /\ line \in [Stream -> Seq(SUBSET Query)] /\ late \in [Stream -> [Word -> Nat]]
  BY <1>1, LineLength DEF ServingInv, StreamsOK
<1>3. /\ Len(l) = Len(line[s]) - 1
      /\ \A n \in 1..(Len(line[s]) - 1) : l[n] = line[s][n]
  BY <1>2, Shorter DEF ServingInv
<1> HIDE DEF l
<1>4. line'[s] = l
  BY <1>1, <1>2
<1>5. LateOK(s, w) /\ late[s][w] \in Nat /\ Capacity \in Nat
  BY <1>2, ServingAssumption DEF ServingInv, LateInv
<1>6. CASE w \in inForce[Server[s]]
  <2>1. PICK k \in 0..Len(line[s]) :
           late[s][w] + k <= Capacity + 2 /\ CleanAfter(s, w, k)
    BY <1>5, <1>6 DEF LateOK
  <2>2. PICK j \in 0..Len(l) :
           /\ late[s][w] + j <= Capacity + 2
           /\ \A n \in 1..(Len(line[s]) - 1) : n > j => n \in 1..Len(line[s]) /\ n > k
    <3>1. CASE k = Len(line[s])
      <4>1. k - 1 \in 0..Len(l) /\ late[s][w] + (k - 1) <= Capacity + 2
        BY <1>2, <1>3, <1>5, <2>1, <3>1
      <4>2. \A n \in 1..(Len(line[s]) - 1) :
               n > k - 1 => n \in 1..Len(line[s]) /\ n > k
        BY <1>2, <2>1, <3>1
      <4> QED
        BY <4>1, <4>2
    <3>2. CASE k # Len(line[s])
      <4>1. k \in 0..Len(l) /\ late[s][w] + k <= Capacity + 2
        BY <1>2, <1>3, <1>5, <2>1, <3>2
      <4>2. \A n \in 1..(Len(line[s]) - 1) :
               n > k => n \in 1..Len(line[s]) /\ n > k
        BY <1>2, <2>1, <3>2
      <4> QED
        BY <4>1, <4>2
    <3> QED
      BY <3>1, <3>2
  <2>4. CleanAfter(s, w, j)'
    <3>1. ASSUME NEW n \in 1..(Len(line[s]) - 1), n > j
          PROVE  \A q \in l[n] : w \notin Tokens[q]
      BY <1>3, <2>1, <2>2, <3>1 DEF CleanAfter
    <3> QED
      BY <1>3, <1>4, <3>1 DEF CleanAfter
  <2>5. j \in 0..Len(line'[s]) /\ late'[s][w] + j <= Capacity + 2
    BY <1>1, <1>4, <2>2
  <2>6. w \in inForce'[Server[s]]
    BY <1>1, <1>6
  <2> QED
    BY <2>4, <2>5, <2>6 DEF LateOK
<1>7. CASE w \notin inForce[Server[s]]
  BY <1>1, <1>5, <1>7 DEF LateOK
<1> QED
  BY <1>6, <1>7

\* The first list leaves the line, sent or not: if it showed the word, one
\* less in the line does.
LEMMA LateSend ==
    ASSUME ServingInv, NEW s \in Stream, NEW w \in Word, Send(s) \/ SendFails(s)
    PROVE  LateOK(s, w)'
<1> DEFINE l == Tail(line[s])
           shown == Shows(Server[s], Head(line[s]))
<1>1. handler[s] = "send" /\ line' = [line EXCEPT ![s] = l] /\ UNCHANGED inForce
  BY DEF Send, SendFails, vars
<1>2. /\ line[s] # <<>> /\ Len(line[s]) \in Nat /\ Len(line[s]) > 0
      /\ line[s] \in Seq(SUBSET Query)
      /\ line \in [Stream -> Seq(SUBSET Query)] /\ late \in [Stream -> [Word -> Nat]]
  BY <1>1, LineLength DEF ServingInv, StreamsOK
<1>3. /\ Len(l) = Len(line[s]) - 1
      /\ \A n \in 1..(Len(line[s]) - 1) : l[n] = line[s][n + 1]
  BY <1>2, Shorter DEF ServingInv
<1>4. Head(line[s]) = line[s][1]
  BY <1>2, HeadTailProperties
<1>5. late'[s][w] = late[s][w] \/ (w \in shown /\ late'[s][w] = late[s][w] + 1)
  BY <1>2 DEF Send, SendFails
<1>6. w \in shown => w \in inForce[Server[s]] /\ \E q \in line[s][1] : w \in Tokens[q]
  BY <1>4 DEF Shows
<1> HIDE DEF l, shown
<1>7. line'[s] = l
  BY <1>1, <1>2
<1>8. LateOK(s, w) /\ late[s][w] \in Nat /\ Capacity \in Nat
  BY <1>2, ServingAssumption DEF ServingInv, LateInv
<1>9. CASE w \in inForce[Server[s]]
  <2>1. PICK k \in 0..Len(line[s]) :
           late[s][w] + k <= Capacity + 2 /\ CleanAfter(s, w, k)
    BY <1>8, <1>9 DEF LateOK
  <2> DEFINE j == IF k = 0 THEN 0 ELSE k - 1
  <2>2. w \in shown => k > 0
    <3> SUFFICES ASSUME w \in shown, k = 0 PROVE FALSE
      BY <2>1
    <3>1. 1 \in 1..Len(line[s]) /\ 1 > k
      BY <1>2
    <3>2. \A q \in line[s][1] : w \notin Tokens[q]
      BY <2>1, <3>1 DEF CleanAfter
    <3> QED
      BY <1>6, <3>2
  <2>3. j \in 0..Len(l) /\ late'[s][w] + j <= Capacity + 2
    BY <1>2, <1>3, <1>5, <1>8, <2>1, <2>2
  <2>4. CleanAfter(s, w, j)'
    <3> SUFFICES ASSUME NEW n \in 1..(Len(line[s]) - 1), n > j
                 PROVE  \A q \in l[n] : w \notin Tokens[q]
      BY <1>3, <1>7 DEF CleanAfter
    <3>1. n + 1 \in 1..Len(line[s]) /\ n + 1 > k
      BY <1>2, <2>1
    <3> QED
      BY <1>3, <2>1, <3>1 DEF CleanAfter
  <2> HIDE DEF j
  <2> QED
    BY <1>1, <1>7, <1>9, <2>3, <2>4 DEF LateOK
<1>10. CASE w \notin inForce[Server[s]]
  BY <1>1, <1>5, <1>6, <1>8, <1>10 DEF LateOK
<1> QED
  BY <1>9, <1>10

\* A word comes in force: all of the line may still show it.
LEMMA LateWords ==
    ASSUME ServingInv, NEW s \in Stream, NEW w \in Word, Words
    PROVE  LateOK(s, w)'
<1>1. LateOK(s, w) /\ UNCHANGED line
  BY DEF ServingInv, LateInv, Words, streamVars
<1>2. late'[s][w] = IF w \in inForce'[Server[s]] THEN late[s][w] ELSE 0
  BY DEF Words, Forget
<1>3. CASE w \in inForce'[Server[s]] /\ w \in inForce[Server[s]]
  BY <1>1, <1>2, <1>3 DEF LateOK, CleanAfter
<1>4. CASE w \in inForce'[Server[s]] /\ w \notin inForce[Server[s]]
  <2>1. late'[s][w] = 0
    BY <1>1, <1>2, <1>4 DEF LateOK
  <2>2. Len(line[s]) \in Nat /\ Len(line[s]) <= Capacity + 2
    BY LineLength DEF ServingInv
  <2>3. CleanAfter(s, w, Len(line[s]))'
    BY <1>1, <2>2 DEF CleanAfter
  <2> DEFINE k == Len(line[s])
  <2>4. k \in 0..Len(line'[s]) /\ late'[s][w] + k <= Capacity + 2
    BY <1>1, <2>1, <2>2
  <2> QED
    BY <1>1, <1>4, <2>3, <2>4 DEF LateOK
<1>5. CASE w \notin inForce'[Server[s]]
  BY <1>2, <1>5 DEF LateOK
<1> QED
  BY <1>3, <1>4, <1>5

\* A crash empties the line.
LEMMA LateCrash ==
    ASSUME ServingInv, NEW s \in Stream, NEW w \in Word,
           NEW i \in Instance, ServerCrash(i)
    PROVE  LateOK(s, w)'
<1>1. UNCHANGED <<inForce, late>> /\ (line'[s] = line[s] \/ line'[s] = <<>>)
  BY DEF ServerCrash, Crash
<1>2. LateOK(s, w) /\ late[s][w] \in Nat /\ Len(line[s]) \in Nat
  BY LineLength DEF ServingInv, LateInv, StreamsOK
<1>3. CASE line'[s] = line[s]
  BY <1>1, <1>2, <1>3 DEF LateOK, CleanAfter
<1>4. CASE line'[s] = <<>> /\ w \in inForce[Server[s]]
  <2>1. PICK k \in 0..Len(line[s]) : late[s][w] + k <= Capacity + 2
    BY <1>2, <1>4 DEF LateOK
  <2>2. late[s][w] + 0 <= Capacity + 2
    BY <1>2, <2>1, ServingAssumption
  <2>3. CleanAfter(s, w, 0)' /\ 0 \in 0..Len(line'[s])
    BY <1>4, EmptySeq DEF CleanAfter
  <2> QED
    BY <1>1, <1>4, <2>2, <2>3 DEF LateOK
<1>5. CASE w \notin inForce[Server[s]]
  BY <1>1, <1>2, <1>5 DEF LateOK
<1> QED
  BY <1>1, <1>3, <1>4, <1>5

\* Every step keeps what the delay rests on.
LEMMA ServingStep == ServingInv /\ [ServingNext]_allVars => ServingInv'
<1> SUFFICES ASSUME ServingInv, [ServingNext]_allVars PROVE ServingInv'
  OBVIOUS
<1>1. StreamsOK' /\ ForceInv'
  BY StreamsStep, StepSimulates, ForceStep DEF ServingInv, ForceInv
<1>2. ASSUME NEW s \in Stream, NEW w \in Word PROVE LateOK(s, w)'
  <2>1. LateOK(s, w) /\ s \in Stream
    BY DEF ServingInv, LateInv
  <2>2. CASE UNCHANGED <<line, late, inForce>>
    BY <2>1, <2>2, LateSame
  <2>3. CASE Words
    BY <2>3, LateWords
  <2>4. ASSUME NEW i \in Instance, ServerCrash(i) PROVE LateOK(s, w)'
    BY <2>4, LateCrash
  <2>5. ASSUME NEW i \in Home, Aggregate(i) PROVE UNCHANGED <<line, late, inForce>>
    BY <2>5 DEF Aggregate, vars, streamVars
  <2>6. ASSUME NEW t \in Stream, StreamTop(t) \/ Goroutine(t) \/ Handler(t)
                                    \/ ClientCancels(t)
        PROVE  LateOK(s, w)'
    <3>1. CASE Filter(t) \/ Abandon(t) \/ Send(t) \/ SendFails(t)
      <4>1. CASE t = s
        BY <3>1, <4>1, LateFilter, LateAbandon, LateSend
      <4>2. CASE t # s
        <5>1. line'[s] = line[s] /\ late'[s] = late[s] /\ UNCHANGED inForce
          BY <3>1, <4>2 DEF Filter, OfferAll, Abandon, Send, SendFails, vars,
                            ServingInv, StreamsOK
        <5> QED
          BY <2>1, <5>1, LateSame
      <4> QED
        BY <4>1, <4>2
    <3>2. CASE \/ StreamTop(t) \/ Take(t) \/ Enqueue(t) \/ Tick(t) \/ Leave(t)
               \/ Receive(t) \/ RangeEnds(t) \/ ClientCancels(t)
      BY <2>2, <3>2 DEF StreamTop, Take, Enqueue, Tick, Leave, Receive, RangeEnds,
                        ClientCancels, vars
    <3> QED
      BY <2>6, <3>1, <3>2 DEF Goroutine, Handler
  <2>7. CASE UNCHANGED allVars
    BY <2>2, <2>7 DEF allVars, vars, servingVars, streamVars
  <2> QED
    BY <2>2, <2>3, <2>4, <2>5, <2>6, <2>7 DEF ServingNext
<1> QED
  BY <1>1, <1>2 DEF ServingInv, LateInv

(***************************************************************************)
(* A stream shows a word whose addition was acknowledged at most in the    *)
(* lists that were under way then, the channel's and two more, whatever    *)
(* the instances, calls, crashes and failures around it: the goroutine     *)
(* filters when it makes a list and nobody filters again.                  *)
(***************************************************************************)
THEOREM StaleListsBounded == ServingSpec => []StaleBounded
<1>1. ServingInit => ServingInv
  <2> SUFFICES ASSUME ServingInit PROVE ServingInv
    OBVIOUS
  <2>1. StreamsOK /\ ForceInv
    BY StreamsInit, ForceInit DEF ServingInit
  <2>2. LateInv
    BY ServingAssumption DEF ServingInit, Init, LateInv, LateOK
  <2> QED
    BY <2>1, <2>2 DEF ServingInv
<1>2. ServingInv => StaleBounded
  <2> SUFFICES ASSUME ServingInv, NEW s \in Stream, NEW w \in Word
               PROVE  late[s][w] <= Capacity + 2
    BY DEF StaleBounded
  <2>1. LateOK(s, w) /\ late[s][w] \in Nat /\ Len(line[s]) \in Nat /\ Capacity \in Nat
    BY LineLength, ServingAssumption DEF ServingInv, LateInv, StreamsOK
  <2>2. CASE w \in inForce[Server[s]]
    <3>1. PICK k \in 0..Len(line[s]) : late[s][w] + k <= Capacity + 2
      BY <2>1, <2>2 DEF LateOK
    <3> QED
      BY <2>1, <3>1
  <2>3. CASE w \notin inForce[Server[s]]
    BY <2>1, <2>3 DEF LateOK
  <2> QED
    BY <2>2, <2>3
<1> QED
  BY <1>1, <1>2, ServingStep, PTL DEF ServingSpec
-----------------------------------------------------------------------------
\* The entries no stop word matches, by their positions.
Open(entries, i) == {n \in 1..Len(entries) : ~ matchesStopWord(i, entries[n])}

\* Filtering what was cut shows what filtering all would, unless so many
\* entries are blocked that fewer than the limit are left.
LEMMA CutShowsAll ==
    ASSUME NEW r \in Seq(Query), NEW i, NEW limit \in Nat, NEW M \in Nat,
           \/ Len(r) <= M
           \/ Cardinality({n \in 1..Len(First(r, M)) :
                             matchesStopWord(i, First(r, M)[n])}) <= M - limit
    PROVE  Filtered(First(r, M), i, limit) = Filtered(r, i, limit)
<1> DEFINE cut == First(r, M)
           k == Len(cut)
           Blocked == {n \in 1..k : matchesStopWord(i, cut[n])}
<1>1. /\ Len(r) \in Nat /\ k \in Nat /\ k <= Len(r) /\ k <= M
      /\ (k = Len(r) \/ k = M) /\ \A m \in 1..k : cut[m] = r[m]
  BY FirstType, LenProperties
<1>2. Len(r) <= M => k = Len(r)
  BY FirstType, LenProperties
<1>3. Len(r) <= M \/ Cardinality(Blocked) <= M - limit
  OBVIOUS
<1>4. /\ Filtered(cut, i, limit) = {cut[n] : n \in
             {m \in Open(cut, i) : Cardinality(Open(cut, i) \cap (1..m)) <= limit}}
      /\ Filtered(r, i, limit) = {r[n] : n \in
             {m \in Open(r, i) : Cardinality(Open(r, i) \cap (1..m)) <= limit}}
  BY DEF Filtered, Open
<1>5. Open(cut, i) = {n \in 1..k : ~ matchesStopWord(i, cut[n])}
  BY DEF Open
<1>6. Open(r, i) = {n \in 1..Len(r) : ~ matchesStopWord(i, r[n])}
  BY DEF Open
<1> HIDE DEF cut, k, Blocked
<1>7. ASSUME NEW m \in 1..k
      PROVE  /\ m \in Open(cut, i) <=> m \in Open(r, i)
             /\ Open(cut, i) \cap (1..m) = Open(r, i) \cap (1..m)
  <2>1. m \in 1..Len(r) /\ \A n \in 1..m : n \in 1..k /\ n \in 1..Len(r)
    BY <1>1
  <2> QED
    BY <1>1, <1>5, <1>6, <2>1
<1>8. ASSUME NEW m \in Open(r, i), Cardinality(Open(r, i) \cap (1..m)) <= limit
      PROVE  m \in 1..k
  <2> SUFFICES ASSUME m \notin 1..k PROVE FALSE
    OBVIOUS
  <2>1. m \in 1..Len(r) /\ m > k /\ k = M /\ Cardinality(Blocked) <= M - limit
    BY <1>1, <1>2, <1>3, <1>6
  <2>2. IsFiniteSet(1..k) /\ Cardinality(1..k) = k
    <3>1. 1 \in Int /\ k \in Int
      BY <1>1
    <3>2. IsFiniteSet(1..k) /\ Cardinality(1..k) = IF 1 > k THEN 0 ELSE k - 1 + 1
      BY <3>1, FS_Interval
    <3> QED
      BY <1>1, <3>2
  <2>3. Blocked \subseteq 1..k /\ Open(cut, i) = (1..k) \ Blocked
    BY <1>5 DEF Blocked
  <2>4. /\ IsFiniteSet(Blocked) /\ Cardinality(Blocked) \in Nat
        /\ IsFiniteSet(Open(cut, i))
        /\ Cardinality(Open(cut, i)) = Cardinality(1..k) - Cardinality((1..k) \cap Blocked)
    BY <2>2, <2>3, FS_Subset, FS_Difference, FS_CardinalityType
  <2>5. (1..k) \cap Blocked = Blocked
    BY <2>3
  <2>6. Cardinality(Open(cut, i)) >= limit
    <3>1. Cardinality(Open(cut, i)) = k - Cardinality(Blocked)
      BY <2>2, <2>4, <2>5
    <3> QED
      BY <1>1, <2>1, <2>4, <3>1
  <2>7. Open(cut, i) \cup {m} \subseteq Open(r, i) \cap (1..m)
    <3>1. ASSUME NEW n \in Open(cut, i) PROVE n \in Open(r, i) /\ n \in 1..m
      <4>1. n \in 1..k
        BY <1>5, <3>1
      <4>2. n \in 1..m
        BY <1>1, <2>1, <4>1
      <4> QED
        BY <1>7, <3>1, <4>1, <4>2
    <3>2. m \in 1..m
      BY <2>1
    <3> QED
      BY <3>1, <3>2
  <2>8. m \notin Open(cut, i)
    BY <1>5, <2>1
  <2>9. /\ IsFiniteSet(Open(cut, i) \cup {m})
        /\ Cardinality(Open(cut, i) \cup {m}) = Cardinality(Open(cut, i)) + 1
    BY <2>4, <2>8, FS_AddElement
  <2>10. IsFiniteSet(Open(r, i) \cap (1..m))
    <3>1. IsFiniteSet(1..m)
      BY <2>1, FS_Interval
    <3> QED
      BY <3>1, FS_Subset
  <2>11. Cardinality(Open(cut, i) \cup {m}) <= Cardinality(Open(r, i) \cap (1..m))
    BY <2>7, <2>10, FS_Subset
  <2>12. Cardinality(Open(cut, i)) \in Nat /\ Cardinality(Open(r, i) \cap (1..m)) \in Nat
    BY <2>4, <2>10, FS_CardinalityType
  <2> QED
    BY <1>8, <2>6, <2>9, <2>11, <2>12
<1>9. Open(cut, i) \subseteq 1..k
  BY <1>5
<1>10. {m \in Open(cut, i) : Cardinality(Open(cut, i) \cap (1..m)) <= limit}
        = {m \in Open(r, i) : Cardinality(Open(r, i) \cap (1..m)) <= limit}
  BY <1>7, <1>8, <1>9
<1> DEFINE S == {m \in Open(cut, i) : Cardinality(Open(cut, i) \cap (1..m)) <= limit}
<1>11. \A n \in S : cut[n] = r[n]
  BY <1>1, <1>9
<1>12. {cut[n] : n \in S} = {r[n] : n \in S}
  BY <1>11
<1> QED
  BY <1>4, <1>10, <1>12 DEF cut

(***************************************************************************)
(* A stream shows the true top, up to its limit, of the ranking it took    *)
(* its entries from, as long as stop words match at most MaxTopSize minus  *)
(* the limit of the cached ones, for every size, limit and ranking.        *)
(***************************************************************************)
THEOREM ServedTrueTop == ServingSpec => ServedIsTrueTop
<1> DEFINE A == \A s \in Stream : goroutine[s] = "filter" /\ goroutine'[s] = "send" =>
         \A r \in Ranking :
            LET i == Server[s]
                blocked == {n \in 1..Len(taken[s]) : matchesStopWord(i, taken[s][n])}
            IN /\ taken[s] = First(r, MaxTopSize)
               /\ Len(r) <= MaxTopSize \/ Cardinality(blocked) <= MaxTopSize - Limit(s)
               => line'[s][Len(line'[s])] = Filtered(r, i, Limit(s))
<1>1. ServingTypeOK /\ [ServingNext]_allVars => [A]_allVars
  <2> SUFFICES ASSUME StreamsOK, ServingNext, NEW s \in Stream,
                      goroutine[s] = "filter", goroutine'[s] = "send",
                      NEW r \in Ranking, taken[s] = First(r, MaxTopSize),
                      \/ Len(r) <= MaxTopSize
                      \/ Cardinality({n \in 1..Len(taken[s]) :
                              matchesStopWord(Server[s], taken[s][n])})
                           <= MaxTopSize - Limit(s)
               PROVE  line'[s][Len(line'[s])] = Filtered(r, Server[s], Limit(s))
    BY DEF ServingTypeOK
  <2> DEFINE list == Filtered(taken[s], Server[s], Limit(s))
  <2>1. Filter(s)
    <3>1. ~ Words
      BY DEF Words, streamVars
    <3>2. /\ \A i \in Instance : ~ ServerCrash(i)
          /\ \A i \in Home : ~ Aggregate(i)
      BY DEF ServerCrash, Aggregate, streamVars
    <3>3. PICK t \in Stream : StreamTop(t) \/ Goroutine(t) \/ Handler(t)
                                \/ ClientCancels(t)
      BY <3>1, <3>2 DEF ServingNext
    <3>4. \A u \in Stream : goroutine' # [goroutine EXCEPT ![u] = "take"]
                            /\ goroutine' # [goroutine EXCEPT ![u] = "wait"]
                            /\ goroutine' # [goroutine EXCEPT ![u] = "done"]
                            /\ goroutine' # [goroutine EXCEPT ![u] = "filter"]
      BY DEF StreamsOK
    <3>5. goroutine' # goroutine
      OBVIOUS
    <3>6. Filter(t)
      BY <3>3, <3>4, <3>5 DEF StreamTop, Goroutine, Take, Enqueue, Abandon, Tick,
          Leave, Handler, Receive, Send, SendFails, RangeEnds, ClientCancels
    <3>7. t = s
      BY <3>6 DEF Filter, OfferAll, StreamsOK
    <3> QED
      BY <3>6, <3>7
  <2>2. line'[s] = Append(line[s], list)
    BY <2>1 DEF Filter, OfferAll, StreamsOK
  <2>3. list \in SUBSET Query /\ line[s] \in Seq(SUBSET Query)
    BY FilteredType DEF StreamsOK
  <2>4. Limit(s) \in Nat /\ MaxTopSize \in Nat /\ r \in Seq(Query)
    BY ServingAssumption DEF Limit
  <2>5. list = Filtered(r, Server[s], Limit(s))
    <3>1. taken[s] = First(r, MaxTopSize)
      OBVIOUS
    <3>2. \/ Len(r) <= MaxTopSize
          \/ Cardinality({n \in 1..Len(First(r, MaxTopSize)) :
                  matchesStopWord(Server[s], First(r, MaxTopSize)[n])})
               <= MaxTopSize - Limit(s)
      BY <3>1, Zenon
    <3>3. Filtered(First(r, MaxTopSize), Server[s], Limit(s))
            = Filtered(r, Server[s], Limit(s))
      BY ONLY <2>4, <3>2, CutShowsAll, Zenon
    <3> QED
      BY <3>1, <3>3
  <2> HIDE DEF list
  <2>6. line'[s][Len(line'[s])] = list
    BY <2>2, <2>3, AppendProperties
  <2> QED
    BY <2>5, <2>6
<1> QED
  BY <1>1, ServingTypes, PTL DEF ServingSpec, ServedIsTrueTop
=============================================================================
