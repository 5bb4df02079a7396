---------------------------- MODULE TrendIngest -----------------------------
(***************************************************************************)
(* Ingestion of search events: the durable consumer (SearchStream), the    *)
(* subscription of each service instance (Broker.Subscribe and             *)
(* Consumer.Consume), TrendService.Ingest, and the Redis calls it makes    *)
(* (CheckDedup and IncrementBucket) with one action per Redis command.     *)
(* Between two actions anything else may happen: another instance's        *)
(* command, the clock, a shutdown, a crash.                                *)
(*                                                                         *)
(* Time is relative: every TTL and deadline is a countdown moved by Tick,  *)
(* so the state space is finite without a bound on time.  A query is a     *)
(* model value, the result of normalizeQuery; what matchesStopWord answers *)
(* for it is the set StopMatch[e], with both answers where the stop words  *)
(* may change while the event is on its way.                               *)
(***************************************************************************)
EXTENDS SearchStream, Sequences

CONSTANTS
    Instance,                     \* service instances on the same consumer
    NoEvent,                      \* no message is being handled
    NoID,                         \* the empty identifier
    UserID, SessionID, DeviceID,  \* of each event
    Query,                        \* normalised query of each event
    EmptyQuery,                   \* nothing left after normalizeQuery
    Minute,                       \* minute bucket of each event's created_at
    Malformed,                    \* events that do not unmarshal
    StopMatch,                    \* possible answers of matchesStopWord
    DedupWindow,                  \* TTL of a dedup key, in ticks
    MaxExec,                      \* executions of one command by go-redis's
                                  \*   own retries
    Faults                        \* what may go wrong

FaultKind == {"redis", "stop", "crash", "ackloss", "stall", "ageout"}

ASSUME IngestAssumption ==
    /\ NoEvent \notin Event
    /\ DedupWindow \in Nat \ {0}
    /\ MaxExec \in Nat \ {0}
    /\ Malformed \subseteq Event
    /\ Faults \subseteq FaultKind
    /\ StopMatch \in [Event -> SUBSET BOOLEAN]

VARIABLES
    mode,       \* [Instance]: up, cancelled (its context), stopping (the
                \*   subscription has ended, too) or down
    buffer,     \* [Instance]: messages prefetched by the pull subscription
    pc,         \* [Instance]: what the message callback does next
    cur,        \* [Instance]: the message it handles (NoEvent when idle)
    hits,       \* [Instance]: what INCR returned, 0 if nothing
    dedupN,     \* [Key]: value of the dedup key, 0 if absent
    dedupTTL,   \* [Key]: ticks to its expiry, 0 if it has none
    bucket,     \* [minute]: whether the bucket exists and has a TTL
    counted,    \* [Event]: what the event added to its bucket's score
    age,        \* history: ticks since the key was created, up to DedupWindow
    backed      \* history: counted at least once since the key was created
                \*   or, if it is gone, since it went

serviceVars == <<mode, buffer, pc, cur, hits>>
dedupVars == <<dedupN, dedupTTL, age>>
countVars == <<bucket, counted, backed>>
vars == <<streamVars, serviceVars, dedupVars, countVars>>
-----------------------------------------------------------------------------
\* user_id, else session_id, else device_id, else no deduplication at all.
DedupID(e) == IF UserID[e] # NoID THEN UserID[e]
              ELSE IF SessionID[e] # NoID THEN SessionID[e]
              ELSE DeviceID[e]

KeyOf(e) == <<DedupID(e), Query[e]>>
Identified(e) == DedupID(e) # NoID
Key == {KeyOf(e) : e \in {f \in Event : Identified(f)}}
Bucket == {Minute[e] : e \in Event}

\* Acknowledged without touching Redis, whatever the stop words.
Ignored(e) == e \in Malformed \/ Query[e] = EmptyQuery

\* CheckDedup only asks whether the counter is above one.
MaxHits == 2
Saturate(n) == IF n > MaxHits THEN MaxHits ELSE n

Step == {"idle", "incr", "expire", "zincrby", "bucketExpire", "ack", "nak"}

\* Handler i owes the count for key k: its INCR created the key.
Claims(i, k) == /\ pc[i] \in {"expire", "zincrby"}
                /\ hits[i] = 1
                /\ KeyOf(cur[i]) = k

TypeOK ==
    /\ StreamTypeOK
    /\ mode \in [Instance -> {"up", "cancelled", "stopping", "down"}]
    /\ buffer \in [Instance -> Seq(Event)]
    /\ pc \in [Instance -> Step]
    /\ cur \in [Instance -> Event \cup {NoEvent}]
    /\ hits \in [Instance -> 0..MaxHits]
    /\ dedupN \in [Key -> 0..MaxHits]
    /\ dedupTTL \in [Key -> 0..DedupWindow]
    /\ bucket \in [Bucket -> {"absent", "persistent", "expiring"}]
    /\ counted \in [Event -> Nat]
    /\ age \in [Key -> 0..DedupWindow]
    /\ backed \in [Key -> BOOLEAN]
    /\ \A i \in Instance :
         /\ pc[i] # "idle" => cur[i] \in Event
         /\ pc[i] \in {"incr", "expire"} => Identified(cur[i])

Init ==
    /\ StreamInit
    /\ mode = [i \in Instance |-> "up"]
    /\ buffer = [i \in Instance |-> <<>>]
    /\ pc = [i \in Instance |-> "idle"]
    /\ cur = [i \in Instance |-> NoEvent]
    /\ hits = [i \in Instance |-> 0]
    /\ dedupN = [k \in Key |-> 0]
    /\ dedupTTL = [k \in Key |-> 0]
    /\ bucket = [b \in Bucket |-> "absent"]
    /\ counted = [e \in Event |-> 0]
    /\ age = [k \in Key |-> DedupWindow]
    /\ backed = [k \in Key |-> FALSE]
-----------------------------------------------------------------------------
Cancelled(i) == mode[i] \in {"cancelled", "stopping"}

(***************************************************************************)
(* One Redis call as go-redis makes it: how often the command ran on the   *)
(* server and whether the caller got its reply.  A network error may hide  *)
(* an executed command, and the client's own retries may run it again.     *)
(* Once the context is cancelled go-redis refuses every new call; a call   *)
(* already under way completes, which is the call returning before Stop.   *)
(***************************************************************************)
Call(i) ==
    {c \in [exec : 0..MaxExec, ok : BOOLEAN] :
       /\ c.ok => c.exec > 0
       /\ IF Cancelled(i) THEN c.exec = 0
          ELSE "redis" \notin Faults => c.ok /\ c.exec = 1}

\* msg.Ack() and msg.Nak() are sent with their errors ignored.
Sent(i) == IF "ackloss" \in Faults \/ Cancelled(i)
             THEN BOOLEAN ELSE {TRUE}

Goto(i, step) == pc' = [pc EXCEPT ![i] = step]

Return(i) ==
    /\ Goto(i, "idle")
    /\ cur' = [cur EXCEPT ![i] = NoEvent]
    /\ hits' = [hits EXCEPT ![i] = 0]
-----------------------------------------------------------------------------
\* Messages come until the subscription has ended.
Deliver(i, e) ==
    /\ mode[i] \in {"up", "cancelled"}
    /\ HandOut(e)
    /\ buffer' = [buffer EXCEPT ![i] = Append(@, e)]
    /\ UNCHANGED <<mode, pc, cur, hits, dedupVars, countVars>>

\* The subscription calls back for the oldest buffered message.
Receive(i, step) ==
    /\ pc[i] = "idle"
    /\ buffer[i] # <<>>
    /\ buffer' = [buffer EXCEPT ![i] = Tail(@)]
    /\ cur' = [cur EXCEPT ![i] = Head(buffer[i])]
    /\ hits' = [hits EXCEPT ![i] = 0]
    /\ Goto(i, step)
    /\ UNCHANGED <<streamVars, mode, dedupVars, countVars>>

\* Not a SearchEvent, an empty query, or a query a stop word matches.
ReceiveDropped(i) ==
    /\ buffer[i] # <<>>
    /\ \/ Ignored(Head(buffer[i]))
       \/ TRUE \in StopMatch[Head(buffer[i])]
    /\ Receive(i, "ack")

\* A variant that does not ask whether there is any identifier.
ReceiveQueryAnyID(i) ==
    /\ buffer[i] # <<>>
    /\ ~Ignored(Head(buffer[i]))
    /\ FALSE \in StopMatch[Head(buffer[i])]
    /\ Receive(i, "incr")

ReceiveQuery(i) ==
    /\ buffer[i] # <<>>
    /\ ~Ignored(Head(buffer[i]))
    /\ FALSE \in StopMatch[Head(buffer[i])]
    /\ Receive(i, IF Identified(Head(buffer[i])) THEN "incr" ELSE "zincrby")

\* A variant that sets the TTL on duplicates only.
IncrDedupNoTTL(i) ==
    /\ pc[i] = "incr"
    /\ LET k == KeyOf(cur[i])
           n == Saturate(dedupN[k] + 1)
       IN /\ dedupN' = [dedupN EXCEPT ![k] = n]
          /\ age' = [age EXCEPT ![k] = IF n = 1 THEN 0 ELSE @]
          /\ backed' = [backed EXCEPT ![k] = n # 1 /\ @]
          /\ hits' = [hits EXCEPT ![i] = n]
          /\ Goto(i, IF n > 1 THEN "expire" ELSE "zincrby")
    /\ UNCHANGED <<streamVars, mode, buffer, cur, dedupTTL, bucket, counted>>

\* An INCR that creates the key starts its age; the key has no TTL yet.
IncrDedup(i) ==
    /\ pc[i] = "incr"
    /\ \E c \in Call(i) :
         LET k == KeyOf(cur[i])
             n == Saturate(dedupN[k] + c.exec)
             created == dedupN[k] = 0 /\ c.exec > 0
         IN /\ dedupN' = [dedupN EXCEPT ![k] = n]
            /\ age' = [age EXCEPT ![k] = IF created THEN 0 ELSE @]
            /\ backed' = [backed EXCEPT ![k] = IF created THEN FALSE ELSE @]
            /\ hits' = [hits EXCEPT ![i] = IF c.ok THEN n ELSE 0]
            /\ Goto(i, IF c.ok THEN "expire" ELSE "zincrby")
    /\ UNCHANGED <<streamVars, mode, buffer, cur, dedupTTL, bucket, counted>>

\* Variants of the next action: a TTL one tick short; the key deleted when its
\* EXPIRE fails; the duplicate test off by one, either way.
ExpireDedupShort(i) ==
    /\ pc[i] = "expire"
    /\ dedupTTL' = [dedupTTL EXCEPT ![KeyOf(cur[i])] =
                      IF dedupN[KeyOf(cur[i])] > 0 THEN DedupWindow - 1 ELSE @]
    /\ Goto(i, IF hits[i] > 1 THEN "ack" ELSE "zincrby")
    /\ UNCHANGED <<streamVars, mode, buffer, cur, hits, dedupN, age, countVars>>

ExpireDedupUndo(i) ==
    /\ pc[i] = "expire"
    /\ \E c \in Call(i) :
         /\ dedupTTL' = [dedupTTL EXCEPT ![KeyOf(cur[i])] =
                           IF c.ok THEN DedupWindow ELSE 0]
         /\ dedupN' = [dedupN EXCEPT ![KeyOf(cur[i])] = IF c.ok THEN @ ELSE 0]
         /\ Goto(i, IF c.ok /\ hits[i] > 1 THEN "ack" ELSE "zincrby")
    /\ UNCHANGED <<streamVars, mode, buffer, cur, hits, age, countVars>>

ExpireDedupTesting(i, dup) ==
    /\ pc[i] = "expire"
    /\ dedupTTL' = [dedupTTL EXCEPT ![KeyOf(cur[i])] =
                      IF dedupN[KeyOf(cur[i])] > 0 THEN DedupWindow ELSE @]
    /\ Goto(i, IF dup THEN "ack" ELSE "zincrby")
    /\ UNCHANGED <<streamVars, mode, buffer, cur, hits, dedupN, age, countVars>>

ExpireDedupAlways(i) == ExpireDedupTesting(i, hits[i] >= 1)
ExpireDedupNever(i) == ExpireDedupTesting(i, hits[i] > MaxHits)

\* EXPIRE runs for a duplicate too.  An error hides the verdict: fail open.
ExpireDedup(i) ==
    /\ pc[i] = "expire"
    /\ \E c \in Call(i) :
         LET k == KeyOf(cur[i])
         IN /\ dedupTTL' = [dedupTTL EXCEPT ![k] =
                              IF c.exec > 0 /\ dedupN[k] > 0
                                THEN DedupWindow ELSE @]
            /\ Goto(i, IF c.ok /\ hits[i] > 1 THEN "ack" ELSE "zincrby")
    /\ UNCHANGED <<streamVars, mode, buffer, cur, hits, dedupN, age, countVars>>

\* A variant that ignores the error of ZINCRBY.
IncrBucketUnchecked(i) ==
    /\ pc[i] = "zincrby"
    /\ \E c \in Call(i) :
         /\ counted' = [counted EXCEPT ![cur[i]] = @ + c.exec]
         /\ Goto(i, "bucketExpire")
    /\ UNCHANGED <<streamVars, mode, buffer, cur, hits, dedupVars, bucket, backed>>

IncrBucket(i) ==
    /\ pc[i] = "zincrby"
    /\ \E c \in Call(i) :
         LET e == cur[i]
         IN /\ counted' = [counted EXCEPT ![e] = @ + c.exec]
            /\ bucket' = [bucket EXCEPT ![Minute[e]] =
                            IF c.exec > 0 /\ @ = "absent"
                              THEN "persistent" ELSE @]
            /\ backed' = [k \in Key |->
                            backed[k] \/ (k = KeyOf(e) /\ c.exec > 0)]
            /\ Goto(i, IF c.ok THEN "bucketExpire" ELSE "nak")
    /\ UNCHANGED <<streamVars, mode, buffer, cur, hits, dedupVars>>

ExpireBucket(i) ==
    /\ pc[i] = "bucketExpire"
    /\ \E c \in Call(i) :
         /\ bucket' = [bucket EXCEPT ![Minute[cur[i]]] =
                         IF c.exec > 0 /\ @ # "absent" THEN "expiring" ELSE @]
         /\ Goto(i, IF c.ok THEN "ack" ELSE "nak")
    /\ UNCHANGED <<streamVars, mode, buffer, cur, hits, dedupVars, counted, backed>>

\* A variant that waits for the server to confirm the ack, which it does not
\* for a message whose delivery it has given up.
AckConfirming(i) ==
    /\ pc[i] = "ack"
    /\ status[cur[i]] = "pending"
    /\ Settle(cur[i])
    /\ Return(i)
    /\ UNCHANGED <<mode, buffer, dedupVars, countVars>>

Ack(i) ==
    /\ pc[i] = "ack"
    /\ \E sent \in Sent(i) : IF sent THEN Settle(cur[i])
                                     ELSE UNCHANGED streamVars
    /\ Return(i)
    /\ UNCHANGED <<mode, buffer, dedupVars, countVars>>

Nak(i) ==
    /\ pc[i] = "nak"
    /\ \E sent \in Sent(i) : IF sent THEN Requeue(cur[i])
                                     ELSE UNCHANGED streamVars
    /\ Return(i)
    /\ UNCHANGED <<mode, buffer, dedupVars, countVars>>

\* Broker.Stop cancels the context; the subscription calls back as before.
Stop(i) ==
    /\ "stop" \in Faults
    /\ mode[i] = "up"
    /\ mode' = [mode EXCEPT ![i] = "cancelled"]
    /\ UNCHANGED <<streamVars, buffer, pc, cur, hits, dedupVars, countVars>>

\* Consume stops the subscription, which drops what it has prefetched; a
\* callback that runs goes on until the process exits.
Unsubscribe(i) ==
    /\ mode[i] = "cancelled"
    /\ mode' = [mode EXCEPT ![i] = "stopping"]
    /\ buffer' = [buffer EXCEPT ![i] = <<>>]
    /\ UNCHANGED <<streamVars, pc, cur, hits, dedupVars, countVars>>

Down(i) ==
    /\ mode' = [mode EXCEPT ![i] = "down"]
    /\ buffer' = [buffer EXCEPT ![i] = <<>>]
    /\ Return(i)
    /\ UNCHANGED <<streamVars, dedupVars, countVars>>

\* Nothing waits for the callback: the process may end in the middle of it.
\* If a callback's error made Consume return before, nothing unsubscribes.
Exit(i) == Cancelled(i) /\ Down(i)

Crash(i) == "crash" \in Faults /\ mode[i] = "up" /\ Down(i)

Restart(i) ==
    /\ mode[i] = "down"
    /\ mode' = [mode EXCEPT ![i] = "up"]
    /\ UNCHANGED <<streamVars, buffer, pc, cur, hits, dedupVars, countVars>>

(***************************************************************************)
(* One tick of every clock; a key whose countdown ends is deleted.  How    *)
(* long an expiring bucket has left is open, so it may go at any tick.     *)
(* Unless handlers may stall, a message is handled within the tick it      *)
(* arrives in.                                                             *)
(***************************************************************************)
Prompt == \A i \in Instance : pc[i] = "idle" /\ buffer[i] = <<>>

Tick ==
    /\ "stall" \in Faults \/ Prompt
    /\ AckTimersAdvance
    /\ dedupN' = [k \in Key |-> IF dedupTTL[k] = 1 THEN 0 ELSE dedupN[k]]
    /\ dedupTTL' = [k \in Key |-> IF dedupTTL[k] = 0 THEN 0
                                  ELSE dedupTTL[k] - 1]
    /\ age' = [k \in Key |-> IF age[k] < DedupWindow THEN age[k] + 1
                             ELSE DedupWindow]
    /\ backed' = [k \in Key |-> backed[k] /\ dedupTTL[k] # 1]
    /\ \E gone \in SUBSET {b \in Bucket : bucket[b] = "expiring"} :
         bucket' = [b \in Bucket |-> IF b \in gone THEN "absent" ELSE bucket[b]]
    /\ UNCHANGED <<status, deliveries, serviceVars, counted>>

Callback(i) ==
    \/ ReceiveDropped(i) \/ ReceiveQuery(i)
    \/ IncrDedup(i) \/ ExpireDedup(i)
    \/ IncrBucket(i) \/ ExpireBucket(i)
    \/ Ack(i) \/ Nak(i)

Lifecycle(i) == Stop(i) \/ Unsubscribe(i) \/ Exit(i) \/ Crash(i) \/ Restart(i)

\* The server's own steps leave the service and Redis alone.
Server(e) ==
    /\ \/ Publish(e)
       \/ AckTimeout(e)
       \/ "ageout" \in Faults /\ AgeOut(e)
    /\ UNCHANGED <<serviceVars, dedupVars, countVars>>

Next ==
    \/ \E i \in Instance : Callback(i) \/ Lifecycle(i)
    \/ \E i \in Instance, e \in Event : Deliver(i, e)
    \/ \E e \in Event : Server(e)
    \/ Tick

Spec == Init /\ [][Next]_vars

(***************************************************************************)
(* A running callback is scheduled, the clock moves, the server keeps its  *)
(* deadlines and serves waiting pull requests (they come and go with the   *)
(* instances, hence SF), and a service that went down is restarted         *)
(* (restart: unless-stopped).  Nobody has to publish, stop or crash.       *)
(***************************************************************************)
Fairness ==
    /\ \A i \in Instance : WF_vars(Callback(i)) /\ WF_vars(Exit(i) \/ Restart(i))
    /\ \A e \in Event : /\ SF_vars(\E i \in Instance : Deliver(i, e))
                        /\ WF_vars(AckTimeout(e) /\ Server(e))
    /\ WF_vars(Tick)

FairSpec == Spec /\ Fairness
-----------------------------------------------------------------------------
(***************************************************************************)
(* While the last admission is younger than DedupWindow its key exists and *)
(* will not expire early, whatever calls fail, processes die or handlers   *)
(* stall: CheckDedup's INCR and EXPIRE never lengthen the gap between them *)
(* into a second admission.                                                *)
(***************************************************************************)
KeyCover ==
    \A k \in Key :
        /\ dedupN[k] = 0 => dedupTTL[k] = 0
        /\ age[k] < DedupWindow =>
             /\ dedupN[k] > 0
             /\ dedupTTL[k] = 0 \/ dedupTTL[k] >= DedupWindow - age[k]

(***************************************************************************)
(* The deduplication promise of Ingest: between two admissions of the same *)
(* (identifier, query) at least DedupWindow passes.                        *)
(***************************************************************************)
Throttle == INSTANCE DedupThrottle WITH since <- age, Window <- DedupWindow
Throttled == Throttle!Spec

\* A query no stop word may match, in a message that unmarshals.
Countable(e) == ~Ignored(e) /\ StopMatch[e] = {FALSE}

(***************************************************************************)
(* An event without any identifier is never acknowledged before Redis has  *)
(* counted it: errors, redeliveries, shutdowns and crashes may count it    *)
(* twice but not lose it while the consumer still delivers it.             *)
(***************************************************************************)
AnonymousCounted ==
    \A e \in Event :
        status[e] = "acked" /\ Countable(e) /\ ~Identified(e) => counted[e] > 0

(***************************************************************************)
(* As long as Redis answers and handlers do not stall, a count is made     *)
(* within the tick in which its dedup key was created and is the only one  *)
(* the key lets through, whatever instances stop, crash or lose            *)
(* acknowledgements.  Admissions are DedupWindow apart (Throttled), so the *)
(* counts of one user and query are, too.                                  *)
(***************************************************************************)
OneCountPerKey ==
    [][\A e \in Event :
          counted'[e] # counted[e] /\ Identified(e) =>
              /\ counted'[e] = counted[e] + 1
              /\ ~backed[KeyOf(e)]
              /\ age[KeyOf(e)] = 0]_vars

(***************************************************************************)
(* A key that makes CheckDedup answer "duplicate" stands for a count: made *)
(* since the key was created, or about to be made by the handler that      *)
(* created it.  True only while no handler is interrupted between INCR and *)
(* ZINCRBY.                                                                *)
(***************************************************************************)
MarkBacked ==
    \A k \in Key :
        dedupN[k] > 0 => backed[k] \/ \E i \in Instance : Claims(i, k)

(***************************************************************************)
(* "TTL on all keys": a key without one is about to get it from the        *)
(* handler that created it.                                                *)
(***************************************************************************)
EveryKeyExpires ==
    /\ \A k \in Key :
         dedupN[k] > 0 /\ dedupTTL[k] = 0 =>
             \E i \in Instance : pc[i] = "expire" /\ KeyOf(cur[i]) = k
    /\ \A b \in Bucket :
         bucket[b] = "persistent" =>
             \E i \in Instance : pc[i] = "bucketExpire" /\ Minute[cur[i]] = b

(***************************************************************************)
(* What a user of the service expects of "one user, one query, counted     *)
(* once": an acknowledged event was counted, or an event it duplicates     *)
(* was, or is about to be.                                                 *)
(***************************************************************************)
AckedEventCounted ==
    \A e \in Event :
        status[e] = "acked" /\ Countable(e) /\ Identified(e) =>
            \/ \E f \in Event : KeyOf(f) = KeyOf(e) /\ counted[f] > 0
            \/ \E i \in Instance : Claims(i, KeyOf(e))

(***************************************************************************)
(* "Counted once every 30 seconds": an event is only held a duplicate      *)
(* while the last admitted one is younger than DedupWindow.                *)
(***************************************************************************)
CountedAgainAfterWindow ==
    [][\A i \in Instance :
          /\ pc[i] = "incr"
          /\ pc'[i] = "expire"
          /\ hits'[i] > 1
          => age[KeyOf(cur[i])] < DedupWindow]_vars

(***************************************************************************)
(* While nothing interrupts the handlers every published event is counted  *)
(* at last, or one it duplicates is (since the dedup key was created, or   *)
(* went), unless it ages out or is to be dropped: no handler keeps the     *)
(* messages behind it waiting, and no lapsed key holds new events back.    *)
(***************************************************************************)
EventuallyCounted ==
    \A e \in Event :
        status[e] = "ready" /\ deliveries[e] = 0 /\ Countable(e) ~>
            \/ counted[e] > 0
            \/ Identified(e) /\ backed[KeyOf(e)]
            \/ status[e] = "aged"
=============================================================================
