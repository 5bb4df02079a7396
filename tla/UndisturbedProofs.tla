-------------------------- MODULE UndisturbedProofs ---------------------------
(***************************************************************************)
(* What ingestion guarantees while part of its environment behaves, for    *)
(* any number of instances and events.  With no Redis errors, shutdowns    *)
(* and crashes every key expires, every dedup key stands for a count, and  *)
(* no acknowledged event goes uncounted; the runs with those faults show   *)
(* that neither holds without the assumption.  With no Redis errors and no *)
(* stalled handlers a dedup key lets one count through, whatever instances *)
(* stop or crash.                                                          *)
(***************************************************************************)
EXTENDS TrendIngestProofs

\* Redis answers and every handler runs to its end, however slowly.
Undisturbed == Faults \cap {"redis", "stop", "crash"} = {}

\* Redis answers and every handler that is not stopped is quick.
Steady == Faults \cap {"redis", "stall"} = {}
-----------------------------------------------------------------------------
\* A call of an instance that is not being stopped runs once and is answered.
LEMMA Answered ==
    ASSUME "redis" \notin Faults, NEW i, ~ Cancelled(i), NEW c \in Call(i)
    PROVE  c.ok /\ c.exec = 1
BY DEF Call

\* INCR counts the hit and leaves the verdict to EXPIRE.
LEMMA IncrAnswered ==
    ASSUME TypeOK, "redis" \notin Faults, NEW i \in Instance, ~ Cancelled(i),
           IncrDedup(i)
    PROVE  LET k == KeyOf(cur[i])
               n == IF dedupN[k] = 0 THEN 1 ELSE 2
           IN /\ k \in Key
              /\ dedupN' = [dedupN EXCEPT ![k] = n]
              /\ backed' = [backed EXCEPT ![k] = dedupN[k] # 0 /\ @]
              /\ hits' = [hits EXCEPT ![i] = n]
              /\ pc' = [pc EXCEPT ![i] = "expire"]
<1> DEFINE k == KeyOf(cur[i])
           n == IF dedupN[k] = 0 THEN 1 ELSE 2
<1>1. k \in Key
  BY KeyOfIdentified DEF TypeOK, IncrDedup
<1>2. PICK c \in Call(i) :
        /\ dedupN' = [dedupN EXCEPT ![k] = Saturate(dedupN[k] + c.exec)]
        /\ backed' = [backed EXCEPT ![k] = IF dedupN[k] = 0 /\ c.exec > 0
                                             THEN FALSE ELSE @]
        /\ hits' = [hits EXCEPT ![i] = IF c.ok THEN Saturate(dedupN[k] + c.exec)
                                              ELSE 0]
        /\ pc' = [pc EXCEPT ![i] = IF c.ok THEN "expire" ELSE "zincrby"]
  BY DEF IncrDedup, Goto
<1>3. c.ok /\ c.exec = 1
  BY Answered
<1>4. dedupN[k] \in 0..2 /\ backed \in [Key -> BOOLEAN]
  BY <1>1 DEF TypeOK, MaxHits
<1> HIDE DEF k
<1>5. Saturate(dedupN[k] + c.exec) = n
  BY <1>3, <1>4 DEF Saturate, MaxHits
<1>6. backed' = [backed EXCEPT ![k] = dedupN[k] # 0 /\ @]
  <2>1. backed' = [backed EXCEPT ![k] = IF dedupN[k] = 0 THEN FALSE ELSE @]
    BY <1>2, <1>3
  <2>2. CASE dedupN[k] = 0
    BY <2>1, <2>2
  <2>3. CASE dedupN[k] # 0
    BY <1>1, <1>4, <2>1, <2>3
  <2>4. QED
    BY <2>2, <2>3
<1>7. QED
  BY <1>1, <1>2, <1>3, <1>5, <1>6 DEF k

\* EXPIRE renews the key, and a hit of an existing key is a duplicate.
LEMMA ExpireAnswered ==
    ASSUME TypeOK, "redis" \notin Faults, NEW i \in Instance, ~ Cancelled(i),
           ExpireDedup(i)
    PROVE  LET k == KeyOf(cur[i])
           IN /\ k \in Key
              /\ dedupTTL' = [dedupTTL EXCEPT ![k] =
                                IF dedupN[k] > 0 THEN DedupWindow ELSE @]
              /\ pc' = [pc EXCEPT ![i] = IF hits[i] > 1 THEN "ack" ELSE "zincrby"]
<1>1. KeyOf(cur[i]) \in Key
  BY KeyOfIdentified DEF TypeOK, ExpireDedup
<1>2. PICK c \in Call(i) :
        /\ dedupTTL' = [dedupTTL EXCEPT ![KeyOf(cur[i])] =
                          IF c.exec > 0 /\ dedupN[KeyOf(cur[i])] > 0
                            THEN DedupWindow ELSE @]
        /\ pc' = [pc EXCEPT ![i] = IF c.ok /\ hits[i] > 1 THEN "ack"
                                                          ELSE "zincrby"]
  BY DEF ExpireDedup, Goto
<1>3. c.ok /\ c.exec = 1
  BY Answered
<1>4. QED
  BY <1>1, <1>2, <1>3

\* ZINCRBY counts the event once and backs its key.
LEMMA CountAnswered ==
    ASSUME TypeOK, "redis" \notin Faults, NEW i \in Instance, ~ Cancelled(i),
           IncrBucket(i)
    PROVE  /\ cur[i] \in Event
           /\ counted' = [counted EXCEPT ![cur[i]] = @ + 1]
           /\ bucket' = [bucket EXCEPT ![Minute[cur[i]]] =
                           IF @ = "absent" THEN "persistent" ELSE @]
           /\ backed' = [k \in Key |-> backed[k] \/ k = KeyOf(cur[i])]
           /\ pc' = [pc EXCEPT ![i] = "bucketExpire"]
<1>1. PICK c \in Call(i) :
        /\ counted' = [counted EXCEPT ![cur[i]] = @ + c.exec]
        /\ bucket' = [bucket EXCEPT ![Minute[cur[i]]] =
                        IF c.exec > 0 /\ @ = "absent" THEN "persistent" ELSE @]
        /\ backed' = [k \in Key |->
                        backed[k] \/ (k = KeyOf(cur[i]) /\ c.exec > 0)]
        /\ pc' = [pc EXCEPT ![i] = IF c.ok THEN "bucketExpire" ELSE "nak"]
  BY DEF IncrBucket, Goto
<1>2. c.ok /\ c.exec = 1
  BY Answered
<1>3. cur[i] \in Event
  BY DEF TypeOK, IncrBucket
<1>4. QED
  BY <1>1, <1>2, <1>3

\* EXPIRE of the bucket leaves it with a TTL, if it is still there.
LEMMA BucketAnswered ==
    ASSUME TypeOK, "redis" \notin Faults, NEW i \in Instance, ~ Cancelled(i),
           ExpireBucket(i)
    PROVE  /\ bucket' = [bucket EXCEPT ![Minute[cur[i]]] =
                           IF @ # "absent" THEN "expiring" ELSE @]
           /\ pc' = [pc EXCEPT ![i] = "ack"]
<1>1. PICK c \in Call(i) :
        /\ bucket' = [bucket EXCEPT ![Minute[cur[i]]] =
                        IF c.exec > 0 /\ @ # "absent" THEN "expiring" ELSE @]
        /\ pc' = [pc EXCEPT ![i] = IF c.ok THEN "ack" ELSE "nak"]
  BY DEF ExpireBucket, Goto
<1>2. c.ok /\ c.exec = 1
  BY Answered
<1>3. QED
  BY <1>1, <1>2

\* An instance's step leaves the other instances alone.
LEMMA OthersKept ==
    ASSUME TypeOK, NEW i \in Instance, NEW j \in Instance \ {i},
           Callback(j) \/ Lifecycle(j)
    PROVE  /\ pc'[i] = pc[i] /\ cur'[i] = cur[i] /\ hits'[i] = hits[i]
           /\ mode'[i] = mode[i] /\ buffer'[i] = buffer[i]
BY DEF Callback, ReceiveDropped, ReceiveQuery, Receive, IncrDedup, ExpireDedup,
       IncrBucket, ExpireBucket, Ack, Nak, Lifecycle, Stop, Unsubscribe, Exit,
       Crash, Down, Restart, Return, Goto, TypeOK

\* A step of the server or the clock.
Outside ==
    \/ Tick
    \/ UNCHANGED vars
    \/ \E e \in Event : Server(e)
    \/ \E i \in Instance, e \in Event : Deliver(i, e)

\* Nothing outside the instances moves a handler or a count.
LEMMA OutsideKeeps ==
    ASSUME Outside
    PROVE  /\ UNCHANGED <<mode, pc, cur, hits, counted>>
           /\ UNCHANGED <<dedupVars, countVars>> \/ Tick
BY DEF Outside, Tick, vars, Server, Deliver, serviceVars, countVars

\* The clock may take away a mark or a bucket, never bring one about.
LEMMA OutsideTakes ==
    ASSUME TypeOK, Outside
    PROVE  /\ \A k \in Key : backed'[k] => backed[k]
           /\ \A b \in Bucket :
                bucket'[b] = "persistent" => bucket[b] = "persistent"
<1>1. CASE Tick
  BY <1>1 DEF Tick
<1>2. CASE UNCHANGED countVars
  BY <1>2 DEF countVars
<1>3. QED
  BY <1>1, <1>2, OutsideKeeps
-----------------------------------------------------------------------------
AllUp == \A i \in Instance : mode[i] = "up"

\* Without errors no INCR goes unanswered, and only the handler whose INCR
\* created the key goes on to count an identified event.
InOrder ==
    \A i \in Instance :
        /\ pc[i] = "expire" => hits[i] > 0
        /\ pc[i] = "zincrby" /\ Identified(cur[i]) => hits[i] = 1
        /\ pc[i] # "nak"

\* A key is marked as counted only by a count.
BackedCounted ==
    \A k \in Key : backed[k] => \E e \in Event : KeyOf(e) = k /\ counted[e] > 0

\* An event of the key has been counted, or is about to be.
Accounted(k) ==
    \/ \E e \in Event : KeyOf(e) = k /\ counted[e] > 0
    \/ \E i \in Instance : Claims(i, k)

\* Handler i will acknowledge an event that must be counted.
Settles(i) ==
    \/ pc[i] = "expire" /\ hits[i] > 1
    \/ /\ pc[i] \in {"bucketExpire", "ack"}
       /\ Countable(cur[i])
       /\ Identified(cur[i])

\* It has a count to show for it: its own, or that of the event whose
\* duplicate it handles.
SettlesAccounted ==
    \A i \in Instance : Settles(i) => Accounted(KeyOf(cur[i]))

\* In an undisturbed run only callbacks move an instance.
LEMMA UndisturbedStep ==
    ASSUME Undisturbed, TypeOK, AllUp, [Next]_vars
    PROVE  /\ AllUp'
           /\ Outside \/ \E i \in Instance : Callback(i)
<1>1. \A i \in Instance : ~ Lifecycle(i)
  BY DEF Undisturbed, AllUp, Lifecycle, Stop, Unsubscribe, Exit, Crash, Restart,
         Cancelled
<1>2. ASSUME NEW i \in Instance, Callback(i)
      PROVE  UNCHANGED mode
  BY <1>2 DEF Callback, ReceiveDropped, ReceiveQuery, Receive, IncrDedup,
              ExpireDedup, IncrBucket, ExpireBucket, Ack, Nak
<1>3. Outside \/ \E i \in Instance : Callback(i)
  BY <1>1 DEF Next, Outside
<1>4. QED
  BY <1>2, <1>3, OutsideKeeps DEF AllUp

\* No call is refused before a shutdown begins.
LEMMA NotCancelled ==
    ASSUME Undisturbed, AllUp, NEW i \in Instance
    PROVE  ~ Cancelled(i) /\ "redis" \notin Faults
BY DEF Undisturbed, AllUp, Cancelled

\* Callbacks other than those that make a Redis call.
LEMMA OtherCallbacks ==
    ASSUME TypeOK, NEW i \in Instance, Callback(i),
           ~ IncrDedup(i), ~ ExpireDedup(i), ~ IncrBucket(i), ~ ExpireBucket(i)
    PROVE  /\ UNCHANGED <<dedupVars, countVars>>
           /\ pc[i] \in {"idle", "ack", "nak"}
           /\ pc'[i] \in {"idle", "ack", "incr", "zincrby"}
           /\ hits'[i] = 0
           /\ pc'[i] = "ack" => ~ Countable(cur'[i])
           /\ pc'[i] = "zincrby" => ~ Identified(cur'[i])
<1>1. CASE ReceiveDropped(i)
  BY <1>1 DEF ReceiveDropped, Receive, Goto, Countable, TypeOK
<1>2. CASE ReceiveQuery(i)
  BY <1>2 DEF ReceiveQuery, Receive, Goto, TypeOK
<1>3. CASE Ack(i) \/ Nak(i)
  BY <1>3 DEF Ack, Nak, Return, Goto, TypeOK
<1>4. QED
  BY <1>1, <1>2, <1>3 DEF Callback

\* Handlers of undisturbed runs keep to the order of the calls.
LEMMA InOrderStep ==
    ASSUME Undisturbed, TypeOK, AllUp, InOrder, [Next]_vars
    PROVE  InOrder'
<1>1. SUFFICES ASSUME NEW i \in Instance
               PROVE  /\ pc'[i] = "expire" => hits'[i] > 0
                      /\ pc'[i] = "zincrby" /\ Identified(cur'[i]) => hits'[i] = 1
                      /\ pc'[i] # "nak"
  BY DEF InOrder, Identified, DedupID
<1>2. ~ Cancelled(i) /\ "redis" \notin Faults
  BY NotCancelled
<1>3. CASE pc'[i] = pc[i] /\ cur'[i] = cur[i] /\ hits'[i] = hits[i]
  BY <1>3 DEF InOrder
<1>4. CASE IncrDedup(i)
  BY <1>2, <1>4, IncrAnswered DEF TypeOK
<1>5. CASE ExpireDedup(i)
  <2>1. hits' = hits /\ hits[i] \in 0..2 /\ pc[i] = "expire"
    BY <1>5 DEF ExpireDedup, TypeOK, MaxHits
  <2>2. hits[i] > 0
    BY <2>1 DEF InOrder
  <2>3. pc'[i] = IF hits[i] > 1 THEN "ack" ELSE "zincrby"
    BY <1>2, <1>5, ExpireAnswered DEF TypeOK
  <2>4. QED
    BY <2>1, <2>2, <2>3
<1>6. CASE IncrBucket(i)
  BY <1>2, <1>6, CountAnswered DEF TypeOK
<1>7. CASE ExpireBucket(i)
  BY <1>2, <1>7, BucketAnswered DEF TypeOK
<1>8. ASSUME Callback(i), ~ IncrDedup(i), ~ ExpireDedup(i), ~ IncrBucket(i),
             ~ ExpireBucket(i)
      PROVE  /\ pc'[i] \in {"idle", "ack", "incr", "zincrby"}
             /\ pc'[i] = "zincrby" => ~ Identified(cur'[i])
  BY <1>8, OtherCallbacks
<1>9. QED
  BY <1>3, <1>4, <1>5, <1>6, <1>7, <1>8, UndisturbedStep, OthersKept, OutsideKeeps

\* Handlers keep to the order and the counts they owe are never dropped.
LEMMA UndisturbedOrder == Undisturbed => (Spec => [](TypeOK /\ AllUp /\ InOrder))
<1> SUFFICES ASSUME Undisturbed
             PROVE  Spec => [](TypeOK /\ AllUp /\ InOrder)
  OBVIOUS
<1>1. Init => AllUp /\ InOrder
  BY DEF Init, AllUp, InOrder
<1>2. TypeOK /\ AllUp /\ InOrder /\ [Next]_vars => (AllUp /\ InOrder)'
  BY UndisturbedStep, InOrderStep
<1>3. QED
  BY <1>1, <1>2, TypeCorrect, PTL DEF Spec

\* What a handler claims it keeps claiming until it has counted it.
LEMMA ClaimKept ==
    ASSUME Undisturbed, TypeOK, AllUp, [Next]_vars,
           NEW k \in Key, NEW i \in Instance, Claims(i, k)
    PROVE  Claims(i, k)' \/ IncrBucket(i)
<1>1. pc[i] \in {"expire", "zincrby"} /\ hits[i] = 1
  BY DEF Claims
<1>2. CASE pc'[i] = pc[i] /\ cur'[i] = cur[i] /\ hits'[i] = hits[i]
  BY <1>2 DEF Claims, KeyOf, DedupID
<1>3. CASE ExpireDedup(i)
  <2>1. cur' = cur /\ hits' = hits
    BY <1>3 DEF ExpireDedup
  <2>2. pc' = [pc EXCEPT ![i] = IF hits[i] > 1 THEN "ack" ELSE "zincrby"]
    BY <1>3, NotCancelled, ExpireAnswered
  <2>3. pc'[i] = "zincrby"
    BY <1>1, <2>2 DEF TypeOK
  <2>4. QED
    BY <2>1, <2>3 DEF Claims, KeyOf, DedupID
<1>4. ASSUME IncrDedup(i) \/ ExpireBucket(i)
      PROVE  FALSE
  <2>1. pc[i] \in {"incr", "bucketExpire"}
    BY <1>4 DEF IncrDedup, ExpireBucket
  <2>2. QED
    BY <1>1, <2>1
<1>5. ASSUME Callback(i), ~ IncrDedup(i), ~ ExpireDedup(i), ~ IncrBucket(i),
             ~ ExpireBucket(i)
      PROVE  FALSE
  <2>1. pc[i] \in {"idle", "ack", "nak"}
    BY <1>5, OtherCallbacks
  <2>2. QED
    BY <1>1, <2>1
<1>6. QED
  BY <1>2, <1>3, <1>4, <1>5, UndisturbedStep, OthersKept, OutsideKeeps

\* Only INCR makes a key, and it takes back only the mark of an expired one.
LEMMA MarkMoves ==
    ASSUME TypeOK, [Next]_vars, NEW k \in Key, dedupN'[k] > 0
    PROVE  \/ dedupN[k] > 0 /\ (backed[k] => backed'[k])
           \/ \E i \in Instance : IncrDedup(i) /\ KeyOf(cur[i]) = k
<1> SUFFICES ASSUME ~ \E i \in Instance : IncrDedup(i) /\ KeyOf(cur[i]) = k
             PROVE  dedupN[k] > 0 /\ (backed[k] => backed'[k])
  OBVIOUS
<1>1. ASSUME NEW i \in Instance, IncrDedup(i)
      PROVE  dedupN[k] > 0 /\ (backed[k] => backed'[k])
  <2>1. KeyOf(cur[i]) # k
    BY <1>1
  <2>2. dedupN'[k] = dedupN[k]
    BY <1>1, <2>1, IncrEffect
  <2>3. backed'[k] = backed[k]
    <3>1. PICK b : backed' = [backed EXCEPT ![KeyOf(cur[i])] = b]
      BY <1>1 DEF IncrDedup
    <3>2. QED
      BY <2>1, <3>1 DEF TypeOK
  <2>4. QED
    BY <2>2, <2>3
<1>2. ASSUME NEW i \in Instance, IncrBucket(i)
      PROVE  dedupN[k] > 0 /\ (backed[k] => backed'[k])
  BY <1>2 DEF IncrBucket, dedupVars
<1>3. ASSUME NEW i \in Instance, Callback(i) \/ Lifecycle(i),
             ~ IncrDedup(i), ~ IncrBucket(i)
      PROVE  UNCHANGED <<dedupN, backed>>
  BY <1>3 DEF Callback, ReceiveDropped, ReceiveQuery, Receive, ExpireDedup,
              ExpireBucket, Ack, Nak, Lifecycle, Stop, Unsubscribe, Exit, Crash,
              Restart, Down, dedupVars, countVars
<1>4. CASE Tick
  BY <1>4, IngestAssumption DEF Tick, TypeOK
<1>5. CASE Outside /\ ~ Tick
  BY <1>5, OutsideKeeps DEF dedupVars, countVars
<1>6. QED
  BY <1>1, <1>2, <1>3, <1>4, <1>5 DEF Next, Outside

\* The handler that makes a key owes the count, until it makes it.
LEMMA MarkBackedStep ==
    ASSUME Undisturbed, TypeOK, AllUp, MarkBacked, [Next]_vars
    PROVE  MarkBacked'
<1>1. SUFFICES ASSUME NEW k \in Key, dedupN'[k] > 0
               PROVE  backed'[k] \/ \E i \in Instance : Claims(i, k)'
  BY DEF MarkBacked
<1>2. ASSUME NEW i \in Instance, IncrDedup(i), KeyOf(cur[i]) = k, dedupN[k] = 0
      PROVE  Claims(i, k)'
  <2>1. hits'[i] = 1 /\ pc'[i] = "expire"
    BY <1>2, NotCancelled, IncrAnswered DEF TypeOK
  <2>2. cur' = cur
    BY <1>2 DEF IncrDedup
  <2>3. QED
    BY <1>2, <2>1, <2>2 DEF Claims, KeyOf, DedupID
<1>3. ASSUME NEW i \in Instance, IncrDedup(i), KeyOf(cur[i]) = k, dedupN[k] # 0
      PROVE  backed'[k] = backed[k]
  <2>1. backed' = [backed EXCEPT ![k] = dedupN[k] # 0 /\ @]
    BY <1>3, NotCancelled, IncrAnswered
  <2>2. QED
    BY <1>3, <2>1 DEF TypeOK
<1>4. ASSUME NEW i \in Instance, Claims(i, k), IncrBucket(i)
      PROVE  backed'[k]
  BY <1>4, NotCancelled, CountAnswered DEF Claims
<1>5. dedupN[k] \in 0..2
  BY DEF TypeOK, MaxHits
<1>6. CASE dedupN[k] > 0 /\ (backed[k] => backed'[k])
  BY <1>4, <1>6, ClaimKept DEF MarkBacked
<1>7. ASSUME dedupN[k] # 0
      PROVE  dedupN[k] > 0
  BY <1>5, <1>7
<1>8. QED
  BY <1>1, <1>2, <1>3, <1>6, <1>7, MarkMoves

(***************************************************************************)
(* In an undisturbed run a dedup key stands for a count, made or about to  *)
(* be made, however slow the handlers are and however their keys expire    *)
(* under them.                                                             *)
(***************************************************************************)
THEOREM MarksAreBacked == Undisturbed => (Spec => []MarkBacked)
<1> SUFFICES ASSUME Undisturbed
             PROVE  Spec => []MarkBacked
  OBVIOUS
<1>1. Init => MarkBacked
  BY DEF Init, MarkBacked
<1>2. TypeOK /\ AllUp /\ MarkBacked /\ [Next]_vars => MarkBacked'
  BY MarkBackedStep
<1>3. QED
  BY <1>1, <1>2, UndisturbedOrder, PTL DEF Spec
-----------------------------------------------------------------------------
\* The handler that creates a key gives it a TTL before anything else.
LEMMA KeyTTLStep ==
    ASSUME Undisturbed, TypeOK, AllUp, EveryKeyExpires, [Next]_vars,
           NEW k \in Key, dedupN'[k] > 0, dedupTTL'[k] = 0
    PROVE  \E i \in Instance : pc'[i] = "expire" /\ KeyOf(cur'[i]) = k
<1>1. ASSUME NEW i \in Instance, IncrDedup(i), KeyOf(cur[i]) = k
      PROVE  pc'[i] = "expire" /\ KeyOf(cur'[i]) = k
  <2>1. pc'[i] = "expire"
    BY <1>1, NotCancelled, IncrAnswered DEF TypeOK
  <2>2. cur' = cur
    BY <1>1 DEF IncrDedup
  <2>3. QED
    BY <1>1, <2>1, <2>2
<1>2. ASSUME dedupN[k] > 0, dedupTTL[k] = 0,
             ~ \E i \in Instance : ExpireDedup(i) /\ KeyOf(cur[i]) = k
      PROVE  \E i \in Instance : pc'[i] = "expire" /\ KeyOf(cur'[i]) = k
  <2>1. PICK i \in Instance : pc[i] = "expire" /\ KeyOf(cur[i]) = k
    BY <1>2 DEF EveryKeyExpires
  <2>2. ~ Callback(i)
    <3>1. ~ ExpireDedup(i)
      BY <1>2, <2>1
    <3>2. QED
      BY <2>1, <3>1 DEF Callback, ReceiveDropped, ReceiveQuery, Receive, IncrDedup,
                        IncrBucket, ExpireBucket, Ack, Nak
  <2>3. pc'[i] = pc[i] /\ cur'[i] = cur[i]
    BY <2>2, UndisturbedStep, OthersKept, OutsideKeeps
  <2>4. QED
    BY <2>1, <2>3
<1>3. ASSUME NEW i \in Instance, ExpireDedup(i), KeyOf(cur[i]) = k
      PROVE  FALSE
  <2>1. dedupTTL'[k] = IF dedupN[k] > 0 THEN DedupWindow ELSE dedupTTL[k]
    BY <1>3, NotCancelled, ExpireAnswered DEF TypeOK
  <2>2. dedupN'[k] = dedupN[k]
    BY <1>3 DEF ExpireDedup
  <2>3. QED
    BY <2>1, <2>2, IngestAssumption
<1>4. CASE \E i \in Instance : ExpireDedup(i)
  <2>1. dedupN'[k] = dedupN[k]
    BY <1>4, ExpireEffect
  <2>2. dedupTTL'[k] = dedupTTL[k]
    BY <1>4, ExpireEffect, IngestAssumption
  <2>3. QED
    BY <1>2, <1>3, <2>1, <2>2
<1>5. CASE \E i \in Instance : IncrDedup(i) /\ KeyOf(cur[i]) # k
  <2>1. PICK i \in Instance : IncrDedup(i) /\ KeyOf(cur[i]) # k
    BY <1>5
  <2>2. dedupN'[k] = dedupN[k] /\ dedupTTL'[k] = dedupTTL[k]
    BY <2>1, IncrEffect
  <2>3. PICK j \in Instance : pc[j] = "expire" /\ KeyOf(cur[j]) = k
    BY <2>2 DEF EveryKeyExpires
  <2>4. j # i
    BY <2>1, <2>3
  <2>5. pc'[j] = pc[j] /\ cur'[j] = cur[j]
    BY <2>1, <2>4, OthersKept DEF Callback
  <2>6. QED
    BY <2>3, <2>5
<1>6. CASE Tick
  <2>1. /\ dedupN'[k] = IF dedupTTL[k] = 1 THEN 0 ELSE dedupN[k]
        /\ dedupTTL'[k] = IF dedupTTL[k] = 0 THEN 0 ELSE dedupTTL[k] - 1
        /\ dedupTTL[k] \in Nat
    BY <1>6, IngestAssumption DEF Tick, TypeOK
  <2>2. dedupTTL[k] = 0 /\ dedupN[k] > 0
    BY <2>1
  <2>3. ASSUME NEW i \in Instance, ExpireDedup(i)
        PROVE  FALSE
    <3>1. pc[i] = "expire"
      BY <2>3 DEF ExpireDedup
    <3>2. pc' = [pc EXCEPT ![i] = IF hits[i] > 1 THEN "ack" ELSE "zincrby"]
      BY <2>3, NotCancelled, ExpireAnswered
    <3>3. pc' = pc
      BY <1>6 DEF Tick, serviceVars
    <3>4. QED
      BY <3>1, <3>2, <3>3 DEF TypeOK
  <2>4. QED
    BY <1>2, <2>2, <2>3
<1>7. CASE UNCHANGED dedupVars
  BY <1>2, <1>3, <1>7 DEF dedupVars
<1>8. QED
  BY <1>1, <1>4, <1>5, <1>6, <1>7, DedupVarsKept

\* The handler that creates a bucket gives it a TTL before anything else.
LEMMA BucketTTLStep ==
    ASSUME Undisturbed, TypeOK, AllUp, EveryKeyExpires, [Next]_vars,
           NEW b \in Bucket, bucket'[b] = "persistent"
    PROVE  \E i \in Instance : pc'[i] = "bucketExpire" /\ Minute[cur'[i]] = b
<1>1. ASSUME NEW i \in Instance, IncrBucket(i), Minute[cur[i]] = b
      PROVE  pc'[i] = "bucketExpire" /\ Minute[cur'[i]] = b
  <2>1. pc'[i] = "bucketExpire"
    BY <1>1, NotCancelled, CountAnswered DEF TypeOK
  <2>2. cur' = cur
    BY <1>1 DEF IncrBucket
  <2>3. QED
    BY <1>1, <2>1, <2>2
<1>2. ASSUME NEW i \in Instance, ExpireBucket(i), Minute[cur[i]] = b
      PROVE  FALSE
  <2>1. bucket' = [bucket EXCEPT ![b] = IF @ # "absent" THEN "expiring" ELSE @]
    BY <1>2, NotCancelled, BucketAnswered
  <2>2. bucket'[b] = IF bucket[b] # "absent" THEN "expiring" ELSE bucket[b]
    BY <2>1 DEF TypeOK
  <2>3. QED
    BY <2>2
<1>3. ASSUME bucket[b] = "persistent",
             ~ \E i \in Instance : IncrBucket(i) /\ Minute[cur[i]] = b
      PROVE  \E i \in Instance : pc'[i] = "bucketExpire" /\ Minute[cur'[i]] = b
  <2>1. PICK i \in Instance : pc[i] = "bucketExpire" /\ Minute[cur[i]] = b
    BY <1>3 DEF EveryKeyExpires
  <2>2. ~ Callback(i)
    <3>1. ~ ExpireBucket(i)
      BY <1>2, <2>1
    <3>2. QED
      BY <2>1, <3>1 DEF Callback, ReceiveDropped, ReceiveQuery, Receive, IncrDedup,
                        ExpireDedup, IncrBucket, Ack, Nak
  <2>3. pc'[i] = pc[i] /\ cur'[i] = cur[i]
    BY <2>2, UndisturbedStep, OthersKept, OutsideKeeps
  <2>4. QED
    BY <2>1, <2>3
<1>4. ASSUME ~ \E i \in Instance : IncrBucket(i) /\ Minute[cur[i]] = b
      PROVE  bucket[b] = "persistent"
  <2>1. ASSUME NEW i \in Instance, IncrBucket(i)
        PROVE  bucket'[b] = bucket[b]
    <3>1. PICK s : bucket' = [bucket EXCEPT ![Minute[cur[i]]] = s]
      BY <2>1, NotCancelled, CountAnswered
    <3>2. Minute[cur[i]] # b
      BY <1>4, <2>1
    <3>3. QED
      BY <3>1, <3>2 DEF TypeOK
  <2>2. ASSUME NEW i \in Instance, ExpireBucket(i)
        PROVE  bucket'[b] = bucket[b]
    <3>1. PICK s : bucket' = [bucket EXCEPT ![Minute[cur[i]]] = s]
      BY <2>2, NotCancelled, BucketAnswered
    <3>2. Minute[cur[i]] # b
      BY <1>2, <2>2
    <3>3. QED
      BY <3>1, <3>2 DEF TypeOK
  <2>3. ASSUME NEW i \in Instance, Callback(i), ~ IncrBucket(i), ~ ExpireBucket(i)
        PROVE  bucket' = bucket
    BY <2>3 DEF Callback, ReceiveDropped, ReceiveQuery, Receive, IncrDedup,
                ExpireDedup, Ack, Nak, countVars
  <2>4. CASE Outside
    BY <2>4, OutsideTakes
  <2>5. QED
    BY <2>1, <2>2, <2>3, <2>4, UndisturbedStep
<1>5. QED
  BY <1>1, <1>3, <1>4

(***************************************************************************)
(* "TTL on all keys": in an undisturbed run a dedup key or a bucket lacks  *)
(* its TTL only while the handler that has just written it is about to set *)
(* it.                                                                     *)
(***************************************************************************)
THEOREM KeysExpire == Undisturbed => (Spec => []EveryKeyExpires)
<1> SUFFICES ASSUME Undisturbed
             PROVE  Spec => []EveryKeyExpires
  OBVIOUS
<1>1. Init => EveryKeyExpires
  BY DEF Init, EveryKeyExpires
<1>2. TypeOK /\ AllUp /\ EveryKeyExpires /\ [Next]_vars => EveryKeyExpires'
  <2> SUFFICES ASSUME TypeOK, AllUp, EveryKeyExpires, [Next]_vars
               PROVE  EveryKeyExpires'
    OBVIOUS
  <2>1. \A k \in Key : dedupN'[k] > 0 /\ dedupTTL'[k] = 0 =>
          \E i \in Instance : pc'[i] = "expire" /\ KeyOf(cur'[i]) = k
    BY KeyTTLStep
  <2>2. \A b \in Bucket : bucket'[b] = "persistent" =>
          \E i \in Instance : pc'[i] = "bucketExpire" /\ Minute[cur'[i]] = b
    BY BucketTTLStep
  <2>3. QED
    BY <2>1, <2>2 DEF EveryKeyExpires, KeyOf, DedupID
<1>3. QED
  BY <1>1, <1>2, UndisturbedOrder, PTL DEF Spec
-----------------------------------------------------------------------------
\* Only ZINCRBY marks a key, and only when it has counted an event.
LEMMA BackedByCount ==
    ASSUME TypeOK, [Next]_vars, NEW k \in Key, backed'[k], ~ backed[k]
    PROVE  \E i \in Instance : /\ IncrBucket(i)
                               /\ ~ Cancelled(i)
                               /\ cur[i] \in Event
                               /\ KeyOf(cur[i]) = k
                               /\ counted'[cur[i]] > 0
<1>1. ASSUME NEW i \in Instance, IncrBucket(i)
      PROVE  /\ ~ Cancelled(i) /\ cur[i] \in Event /\ KeyOf(cur[i]) = k
             /\ counted'[cur[i]] > 0
  <2>1. PICK c \in Call(i) :
          /\ counted' = [counted EXCEPT ![cur[i]] = @ + c.exec]
          /\ backed' = [l \in Key |->
                          backed[l] \/ (l = KeyOf(cur[i]) /\ c.exec > 0)]
    BY <1>1 DEF IncrBucket
  <2>2. k = KeyOf(cur[i]) /\ c.exec > 0 /\ c.exec \in Nat
    BY <2>1, CallOutcome
  <2>3. ~ Cancelled(i)
    BY <2>2 DEF Call
  <2>4. cur[i] \in Event /\ counted[cur[i]] \in Nat
    BY <1>1 DEF IncrBucket, TypeOK
  <2>5. counted'[cur[i]] = counted[cur[i]] + c.exec
    BY <2>1, <2>4 DEF TypeOK
  <2>6. counted'[cur[i]] > 0
    BY <2>2, <2>4, <2>5
  <2>7. QED
    BY <2>2, <2>3, <2>4, <2>6
<1>2. ASSUME NEW i \in Instance, IncrDedup(i)
      PROVE  FALSE
  BY <1>2, KeyOfIdentified DEF IncrDedup, TypeOK
<1>3. ASSUME NEW i \in Instance, Callback(i) \/ Lifecycle(i),
             ~ IncrDedup(i), ~ IncrBucket(i)
      PROVE  UNCHANGED backed
  BY <1>3 DEF Callback, ReceiveDropped, ReceiveQuery, Receive, ExpireDedup,
       ExpireBucket, Ack, Nak, Lifecycle, Stop, Unsubscribe, Exit, Crash,
       Restart, Down, countVars
<1>4. ~ Outside
  BY OutsideTakes
<1>5. QED
  BY <1>1, <1>2, <1>3, <1>4 DEF Next, Outside

\* Whatever fails, the mark of a key comes with a count.
LEMMA BackedCountedStep == TypeOK /\ BackedCounted /\ [Next]_vars => BackedCounted'
<1> SUFFICES ASSUME TypeOK, BackedCounted, [Next]_vars, NEW k \in Key, backed'[k]
             PROVE  \E e \in Event : KeyOf(e) = k /\ counted'[e] > 0
  BY DEF BackedCounted, KeyOf, DedupID
<1>1. CASE backed[k]
  BY <1>1, CountedGrows DEF BackedCounted
<1>2. CASE ~ backed[k]
  BY <1>2, BackedByCount
<1>3. QED
  BY <1>1, <1>2

\* The handler that counts an event accounts for its key.
LEMMA CountAccounts ==
    ASSUME Undisturbed, TypeOK, AllUp, NEW i \in Instance, IncrBucket(i)
    PROVE  cur[i] \in Event /\ counted'[cur[i]] > 0
<1>1. cur[i] \in Event /\ counted' = [counted EXCEPT ![cur[i]] = @ + 1]
  BY NotCancelled, CountAnswered
<1>2. counted[cur[i]] \in Nat
  BY <1>1 DEF TypeOK
<1>3. counted'[cur[i]] = counted[cur[i]] + 1
  BY <1>1 DEF TypeOK
<1>4. QED
  BY <1>1, <1>2, <1>3

\* What is accounted for stays so.
LEMMA AccountedKept ==
    ASSUME Undisturbed, TypeOK, AllUp, [Next]_vars, NEW k \in Key, Accounted(k)
    PROVE  Accounted(k)'
<1>1. CASE \E e \in Event : KeyOf(e) = k /\ counted[e] > 0
  <2>1. PICK e \in Event : KeyOf(e) = k /\ counted[e] > 0
    BY <1>1
  <2>2. counted'[e] > 0
    BY <2>1, CountedGrows
  <2>3. QED
    BY <2>1, <2>2 DEF Accounted, KeyOf, DedupID
<1>2. ASSUME NEW i \in Instance, Claims(i, k)
      PROVE  Accounted(k)'
  <2>1. CASE Claims(i, k)'
    BY <2>1 DEF Accounted
  <2>2. CASE IncrBucket(i)
    BY <1>2, <2>2, CountAccounts DEF Accounted, Claims, KeyOf, DedupID
  <2>3. QED
    BY <1>2, <2>1, <2>2, ClaimKept
<1>3. QED
  BY <1>1, <1>2 DEF Accounted

\* An existing key is accounted for.
LEMMA MarkAccounted ==
    ASSUME MarkBacked, BackedCounted, NEW k \in Key, dedupN[k] > 0
    PROVE  Accounted(k)
BY DEF MarkBacked, BackedCounted, Accounted

\* A handler comes to settle an event only when its key is accounted for.
LEMMA SettlesStep ==
    ASSUME Undisturbed, TypeOK, AllUp, MarkBacked, BackedCounted,
           SettlesAccounted, [Next]_vars,
           NEW i \in Instance, Settles(i)'
    PROVE  Accounted(KeyOf(cur[i]))'
<1>0. PICK k : k = KeyOf(cur[i])
  OBVIOUS
<1> USE <1>0
<1>1. ~ Cancelled(i) /\ "redis" \notin Faults
  BY NotCancelled
<1>2. CASE pc'[i] = pc[i] /\ cur'[i] = cur[i] /\ hits'[i] = hits[i]
  <2>1. Settles(i)
    BY <1>2 DEF Settles, Countable, Ignored, Identified, DedupID
  <2>2. Accounted(k)
    BY <2>1 DEF SettlesAccounted
  <2>3. cur[i] \in Event /\ Identified(cur[i])
    BY <2>1 DEF Settles, TypeOK
  <2>4. k \in Key
    BY <2>3, KeyOfIdentified
  <2>5. Accounted(k)'
    BY <2>2, <2>4, AccountedKept
  <2>6. QED
    BY <1>2, <2>5 DEF Accounted, Claims, KeyOf, DedupID
<1>3. CASE IncrDedup(i)
  <2>1. /\ k \in Key
        /\ hits'[i] = IF dedupN[k] = 0 THEN 1 ELSE 2
        /\ pc'[i] = "expire"
    BY <1>1, <1>3, IncrAnswered DEF TypeOK
  <2>2. cur' = cur
    BY <1>3 DEF IncrDedup
  <2>3. dedupN[k] # 0 /\ dedupN[k] \in 0..2
    BY <2>1 DEF Settles, TypeOK, MaxHits
  <2>4. Accounted(k)
    BY <2>1, <2>3, MarkAccounted
  <2>5. Accounted(k)'
    BY <2>1, <2>4, AccountedKept
  <2>6. QED
    BY <2>2, <2>5 DEF Accounted, Claims, KeyOf, DedupID
<1>4. CASE ExpireDedup(i)
  <2>1. k \in Key /\ pc'[i] = IF hits[i] > 1 THEN "ack" ELSE "zincrby"
    BY <1>1, <1>4, ExpireAnswered DEF TypeOK
  <2>2. cur' = cur /\ hits' = hits /\ pc[i] = "expire"
    BY <1>4 DEF ExpireDedup
  <2>3. Accounted(k)
    BY <2>1, <2>2 DEF Settles, SettlesAccounted
  <2>4. Accounted(k)'
    BY <2>1, <2>3, AccountedKept
  <2>5. QED
    BY <2>2, <2>4 DEF Accounted, Claims, KeyOf, DedupID
<1>5. CASE IncrBucket(i)
  <2>1. cur' = cur
    BY <1>5 DEF IncrBucket
  <2>2. QED
    BY <1>5, <2>1, CountAccounts DEF Accounted, KeyOf, DedupID
<1>6. CASE ExpireBucket(i)
  <2>1. cur' = cur /\ hits' = hits /\ pc[i] = "bucketExpire"
    BY <1>6 DEF ExpireBucket
  <2>2. pc'[i] = "ack"
    BY <1>1, <1>6, BucketAnswered DEF TypeOK
  <2>3. Settles(i)
    BY <2>1, <2>2 DEF Settles, Countable, Ignored, Identified, DedupID
  <2>4. Accounted(k)
    BY <2>3 DEF SettlesAccounted
  <2>5. k \in Key
    BY <2>1, <2>3, KeyOfIdentified DEF Settles, TypeOK
  <2>6. Accounted(k)'
    BY <2>4, <2>5, AccountedKept
  <2>7. QED
    BY <2>1, <2>6 DEF Accounted, Claims, KeyOf, DedupID
<1>7. ASSUME Callback(i), ~ IncrDedup(i), ~ ExpireDedup(i), ~ IncrBucket(i),
             ~ ExpireBucket(i)
      PROVE  FALSE
  <2>1. /\ pc'[i] \in {"idle", "ack", "incr", "zincrby"}
        /\ pc'[i] = "ack" => ~ Countable(cur'[i])
    BY <1>7, OtherCallbacks
  <2>2. QED
    BY <2>1 DEF Settles, Countable, Ignored
<1>8. QED
  BY <1>2, <1>3, <1>4, <1>5, <1>6, <1>7, UndisturbedStep, OthersKept, OutsideKeeps

\* An event is acknowledged by a handler that settles it.
LEMMA AckedStep ==
    ASSUME Undisturbed, TypeOK, AllUp, SettlesAccounted, AckedEventCounted,
           [Next]_vars
    PROVE  AckedEventCounted'
<1>1. SUFFICES ASSUME NEW e \in Event, status'[e] = "acked", Countable(e),
                      Identified(e)
               PROVE  Accounted(KeyOf(e))'
  BY DEF AckedEventCounted, Accounted, Claims, Countable, Ignored, Identified,
         KeyOf, DedupID
<1>2. PICK k : k = KeyOf(e)
  OBVIOUS
<1>3. k \in Key
  BY <1>1, <1>2, KeyOfIdentified
<1>4. Accounted(k)
  <2>1. CASE status[e] = "acked"
    BY <1>1, <1>2, <2>1 DEF AckedEventCounted, Accounted
  <2>2. ASSUME NEW i \in Instance, Ack(i), cur[i] = e
        PROVE  Accounted(k)
    BY <1>1, <1>2, <2>2 DEF SettlesAccounted, Settles, Ack
  <2>3. QED
    BY <1>1, <2>1, <2>2, AckedByAck
<1>5. Accounted(k)'
  BY <1>3, <1>4, AccountedKept
<1>6. QED
  BY <1>2, <1>5 DEF Accounted, Claims, KeyOf, DedupID

(***************************************************************************)
(* "One user, one query, counted once" without loss: in an undisturbed run *)
(* an acknowledged event was counted, or one it duplicates was or is about *)
(* to be.                                                                  *)
(***************************************************************************)
THEOREM AckedAreCounted == Undisturbed => (Spec => []AckedEventCounted)
<1> SUFFICES ASSUME Undisturbed
             PROVE  Spec => []AckedEventCounted
  OBVIOUS
<1>1. Init => BackedCounted /\ SettlesAccounted /\ AckedEventCounted
  BY DEF Init, StreamInit, BackedCounted, SettlesAccounted, Settles,
         AckedEventCounted
<1>2. TypeOK /\ BackedCounted /\ [Next]_vars => BackedCounted'
  BY BackedCountedStep
<1>3. /\ TypeOK /\ AllUp /\ MarkBacked /\ BackedCounted /\ SettlesAccounted
      /\ [Next]_vars
      => SettlesAccounted'
  BY SettlesStep DEF SettlesAccounted
<1>4. /\ TypeOK /\ AllUp /\ SettlesAccounted /\ AckedEventCounted /\ [Next]_vars
      => AckedEventCounted'
  BY AckedStep
<1>5. QED
  BY <1>1, <1>2, <1>3, <1>4, UndisturbedOrder, MarksAreBacked, PTL DEF Spec
-----------------------------------------------------------------------------
\* A process that is down handles nothing, and a stopped subscription calls
\* back no more.
DownIsQuiet ==
    \A i \in Instance :
        /\ mode[i] \in {"stopping", "down"} => buffer[i] = <<>>
        /\ mode[i] = "down" => pc[i] = "idle"

\* What InOrder says, of the instances that are not being stopped.
UpInOrder ==
    \A i \in Instance : mode[i] = "up" =>
        /\ pc[i] = "expire" => hits[i] > 0
        /\ pc[i] = "zincrby" /\ Identified(cur[i]) => hits[i] = 1

\* A key owes at most one count, none once it is counted, and makes it good
\* in the tick of its creation.
OneClaim ==
    \A k \in Key, i \in Instance :
        Claims(i, k) => /\ dedupN[k] > 0
                        /\ ~ backed[k]
                        /\ age[k] = 0
                        /\ \A j \in Instance : Claims(j, k) => j = i

\* Whatever fails, a handler runs in a process that is not down.
LEMMA DownIsQuietStep == TypeOK /\ DownIsQuiet /\ [Next]_vars => DownIsQuiet'
<1> SUFFICES ASSUME TypeOK, DownIsQuiet, [Next]_vars, NEW i \in Instance
             PROVE  /\ mode'[i] \in {"stopping", "down"} => buffer'[i] = <<>>
                    /\ mode'[i] = "down" => pc'[i] = "idle"
  BY DEF DownIsQuiet
<1> USE DEF DownIsQuiet, TypeOK
<1>1. CASE mode'[i] = mode[i] /\ buffer'[i] = buffer[i] /\ pc'[i] = pc[i]
  BY <1>1
<1>2. CASE ReceiveDropped(i) \/ ReceiveQuery(i)
  <2>1. buffer[i] # <<>> /\ mode' = mode
    BY <1>2 DEF ReceiveDropped, ReceiveQuery, Receive
  <2>2. QED
    BY <2>1
<1>3. CASE IncrDedup(i) \/ ExpireDedup(i) \/ IncrBucket(i) \/ ExpireBucket(i)
           \/ Ack(i) \/ Nak(i)
  <2>1. mode' = mode /\ buffer' = buffer /\ pc[i] # "idle"
    BY <1>3 DEF IncrDedup, ExpireDedup, IncrBucket, ExpireBucket, Ack, Nak
  <2>2. QED
    BY <2>1
<1>4. CASE Lifecycle(i)
  BY <1>4 DEF Lifecycle, Stop, Unsubscribe, Exit, Crash, Restart, Down, Return,
              Goto
<1>5. ASSUME NEW j \in Instance, NEW e \in Event, Deliver(j, e)
      PROVE  /\ mode' = mode /\ pc' = pc
             /\ mode[i] \in {"stopping", "down"} => buffer'[i] = buffer[i]
  BY <1>5 DEF Deliver
<1>6. CASE Outside
  BY <1>1, <1>5, <1>6 DEF Outside, Tick, Server, vars, serviceVars
<1>7. QED
  BY <1>1, <1>2, <1>3, <1>4, <1>6, OthersKept DEF Next, Outside, Callback

\* A handler of a steady instance is at work only between two ticks.
LEMMA SteadyTick ==
    ASSUME Steady, Tick
    PROVE  \A i \in Instance : pc[i] = "idle" /\ pc'[i] = "idle"
BY DEF Steady, Tick, Prompt, serviceVars

\* An instance that is up makes its calls in order.
LEMMA UpInOrderStep ==
    ASSUME Steady, TypeOK, DownIsQuiet, UpInOrder, [Next]_vars
    PROVE  UpInOrder'
<1>1. SUFFICES ASSUME NEW i \in Instance, mode'[i] = "up"
               PROVE  /\ pc'[i] = "expire" => hits'[i] > 0
                      /\ pc'[i] = "zincrby" /\ Identified(cur'[i]) => hits'[i] = 1
  BY DEF UpInOrder, Identified, DedupID
<1>2. ASSUME Callback(i)
      PROVE  mode[i] = "up" /\ ~ Cancelled(i) /\ "redis" \notin Faults
  BY <1>1, <1>2 DEF Callback, ReceiveDropped, ReceiveQuery, Receive, IncrDedup,
       ExpireDedup, IncrBucket, ExpireBucket, Ack, Nak, Cancelled, Steady
<1>3. CASE mode'[i] = mode[i] /\ pc'[i] = pc[i] /\ cur'[i] = cur[i]
           /\ hits'[i] = hits[i]
  BY <1>1, <1>3 DEF UpInOrder
<1>4. CASE Callback(i) /\ IncrDedup(i)
  BY <1>2, <1>4, IncrAnswered DEF TypeOK
<1>5. CASE Callback(i) /\ ExpireDedup(i)
  <2>1. hits' = hits /\ hits[i] \in 0..2 /\ pc[i] = "expire"
    BY <1>5 DEF ExpireDedup, TypeOK, MaxHits
  <2>2. hits[i] > 0
    BY <1>2, <1>5, <2>1 DEF UpInOrder
  <2>3. pc'[i] = IF hits[i] > 1 THEN "ack" ELSE "zincrby"
    BY <1>2, <1>5, ExpireAnswered DEF TypeOK
  <2>4. QED
    BY <2>1, <2>2, <2>3
<1>6. CASE Callback(i) /\ IncrBucket(i)
  BY <1>2, <1>6, CountAnswered DEF TypeOK
<1>7. CASE Callback(i) /\ ExpireBucket(i)
  BY <1>2, <1>7, BucketAnswered DEF TypeOK
<1>8. ASSUME Callback(i), ~ IncrDedup(i), ~ ExpireDedup(i), ~ IncrBucket(i),
             ~ ExpireBucket(i)
      PROVE  /\ pc'[i] \in {"idle", "ack", "incr", "zincrby"}
             /\ pc'[i] = "zincrby" => ~ Identified(cur'[i])
  BY <1>8, OtherCallbacks
<1>9. CASE Lifecycle(i)
  <2>1. CASE Restart(i)
    BY <2>1 DEF Restart, DownIsQuiet, TypeOK
  <2>2. CASE ~ Restart(i)
    BY <1>1, <1>9, <2>2 DEF Lifecycle, Stop, Unsubscribe, Exit, Crash, Down, TypeOK
  <2>3. QED
    BY <2>1, <2>2
<1>10. QED
  BY <1>3, <1>4, <1>5, <1>6, <1>7, <1>8, <1>9, OthersKept, OutsideKeeps
     DEF Next, Outside

\* An event of one of the modelled keys has an identifier.
LEMMA KeyIdentifies ==
    ASSUME NEW e, KeyOf(e) \in Key
    PROVE  Identified(e)
BY DEF Key, KeyOf, Identified

\* A claim is new only with the INCR that creates the key.
LEMMA ClaimMoves ==
    ASSUME TypeOK, [Next]_vars, NEW k \in Key, NEW i \in Instance, Claims(i, k)'
    PROVE  \/ Claims(i, k)
           \/ /\ IncrDedup(i) /\ dedupN[k] = 0
              /\ dedupN'[k] > 0 /\ ~ backed'[k] /\ age'[k] = 0
<1> USE DEF Claims, KeyOf, DedupID
<1>1. CASE pc'[i] = pc[i] /\ cur'[i] = cur[i] /\ hits'[i] = hits[i]
  BY <1>1
<1>2. CASE IncrDedup(i)
  <2>1. PICK c \in Call(i) :
          /\ dedupN' = [dedupN EXCEPT ![KeyOf(cur[i])] =
                          Saturate(dedupN[KeyOf(cur[i])] + c.exec)]
          /\ backed' = [backed EXCEPT ![KeyOf(cur[i])] =
                          IF dedupN[KeyOf(cur[i])] = 0 /\ c.exec > 0
                            THEN FALSE ELSE @]
          /\ hits' = [hits EXCEPT ![i] =
                        IF c.ok THEN Saturate(dedupN[KeyOf(cur[i])] + c.exec)
                                ELSE 0]
    BY <1>2 DEF IncrDedup
  <2>2. k = KeyOf(cur[i])
    BY <1>2 DEF IncrDedup
  <2>3. c.ok /\ Saturate(dedupN[k] + c.exec) = 1
    BY <2>1, <2>2 DEF TypeOK
  <2>4. c.exec > 0 /\ c.exec \in Nat /\ dedupN[k] \in 0..2
    BY <2>3, CallOutcome DEF TypeOK, MaxHits
  <2>5. dedupN[k] = 0
    BY <2>3, <2>4 DEF Saturate, MaxHits
  <2>6. dedupN'[k] = 1
    BY <2>1, <2>2, <2>3 DEF TypeOK
  <2>7. ~ backed'[k]
    BY <2>1, <2>2, <2>4, <2>5 DEF TypeOK
  <2>8. age' = [age EXCEPT ![k] = 0]
    BY <1>2, <2>2, <2>5, <2>6, IncrEffect
  <2>9. QED
    BY <1>2, <2>5, <2>6, <2>7, <2>8 DEF TypeOK
<1>3. CASE ExpireDedup(i)
  BY <1>3 DEF ExpireDedup
<1>4. CASE IncrBucket(i) \/ ExpireBucket(i)
  BY <1>4 DEF IncrBucket, ExpireBucket, Goto, TypeOK
<1>5. ASSUME Callback(i), ~ IncrDedup(i), ~ ExpireDedup(i), ~ IncrBucket(i),
             ~ ExpireBucket(i)
      PROVE  hits'[i] = 0
  BY <1>5, OtherCallbacks
<1>6. ASSUME Lifecycle(i)
      PROVE  hits'[i] = 0 \/ (pc' = pc /\ cur' = cur /\ hits' = hits)
  BY <1>6 DEF Lifecycle, Stop, Unsubscribe, Exit, Crash, Restart, Down, Return,
              TypeOK
<1>7. QED
  BY <1>1, <1>2, <1>3, <1>4, <1>5, <1>6, OthersKept, OutsideKeeps
     DEF Next, Outside

\* A handler that counts an event of a key claims it.
LEMMA CounterClaims ==
    ASSUME DownIsQuiet, UpInOrder, TypeOK, NEW i \in Instance,
           pc[i] = "zincrby", ~ Cancelled(i), Identified(cur[i])
    PROVE  Claims(i, KeyOf(cur[i]))
<1>1. mode[i] = "up"
  BY DEF DownIsQuiet, Cancelled, TypeOK
<1>2. QED
  BY <1>1 DEF UpInOrder, Claims

\* A claimed key neither expires nor ages before the handler's tick is over.
LEMMA ClaimedKeyStays ==
    ASSUME Steady, TypeOK, [Next]_vars, NEW k \in Key, NEW i \in Instance,
           Claims(i, k), dedupN[k] > 0, age[k] = 0
    PROVE  dedupN'[k] > 0 /\ age'[k] = 0
<1>1. ~ Tick
  BY SteadyTick DEF Claims
<1>2. CASE \E j \in Instance : IncrDedup(j)
  <2>1. PICK j \in Instance : IncrDedup(j)
    BY <1>2
  <2>2. CASE k = KeyOf(cur[j])
    BY <2>1, <2>2, IncrEffect
  <2>3. CASE k # KeyOf(cur[j])
    <3>1. dedupN'[k] = dedupN[k]
      BY <2>1, <2>3, IncrEffect
    <3>2. PICK n : age' = [age EXCEPT ![KeyOf(cur[j])] = n]
      BY <2>1 DEF IncrDedup
    <3>3. age'[k] = age[k]
      BY <2>3, <3>2 DEF TypeOK
    <3>4. QED
      BY <3>1, <3>3
  <2>4. QED
    BY <2>2, <2>3
<1>3. CASE \E j \in Instance : ExpireDedup(j)
  BY <1>3, ExpireEffect
<1>4. CASE UNCHANGED dedupVars
  BY <1>4 DEF dedupVars
<1>5. QED
  BY <1>1, <1>2, <1>3, <1>4, DedupVarsKept

\* The claim ends with the count that marks the key.
LEMMA OneClaimStep ==
    ASSUME Steady, TypeOK, DownIsQuiet, UpInOrder, OneClaim, [Next]_vars
    PROVE  OneClaim'
<1>1. SUFFICES ASSUME NEW k \in Key, NEW i \in Instance, Claims(i, k)'
               PROVE  /\ dedupN'[k] > 0
                      /\ ~ backed'[k]
                      /\ age'[k] = 0
                      /\ \A j \in Instance : Claims(j, k)' => j = i
  BY DEF OneClaim
<1>2. CASE Claims(i, k)
  <2>1. /\ dedupN[k] > 0 /\ ~ backed[k] /\ age[k] = 0
        /\ \A j \in Instance : Claims(j, k) => j = i
    BY <1>2 DEF OneClaim
  <2>2. dedupN'[k] > 0 /\ age'[k] = 0
    BY <1>2, <2>1, ClaimedKeyStays
  <2>3. ASSUME backed'[k]
        PROVE  FALSE
    <3>1. PICK j \in Instance : /\ IncrBucket(j)
                                /\ ~ Cancelled(j)
                                /\ KeyOf(cur[j]) = k
      BY <2>1, <2>3, BackedByCount
    <3>2. Claims(j, k)
      BY <3>1, CounterClaims, KeyIdentifies DEF IncrBucket
    <3>3. j = i
      BY <2>1, <3>2
    <3>4. pc'[i] \in {"bucketExpire", "nak"}
      BY <3>1, <3>3 DEF IncrBucket, Goto, TypeOK
    <3>5. QED
      BY <1>1, <3>4 DEF Claims
  <2>4. ASSUME NEW j \in Instance, Claims(j, k)'
        PROVE  j = i
    <3>1. CASE Claims(j, k)
      BY <2>1, <3>1
    <3>2. CASE dedupN[k] = 0
      BY <2>1, <3>2
    <3>3. QED
      BY <2>4, <3>1, <3>2, ClaimMoves
  <2>5. QED
    BY <2>2, <2>3, <2>4
<1>3. CASE /\ IncrDedup(i) /\ dedupN[k] = 0
           /\ dedupN'[k] > 0 /\ ~ backed'[k] /\ age'[k] = 0
  <2>1. ASSUME NEW j \in Instance, Claims(j, k)', j # i
        PROVE  FALSE
    <3>1. ~ Claims(j, k)
      BY <1>3 DEF OneClaim
    <3>2. IncrDedup(j)
      BY <2>1, <3>1, ClaimMoves
    <3>3. pc[j] = "incr"
      BY <3>2 DEF IncrDedup
    <3>4. Callback(i)
      BY <1>3 DEF Callback
    <3>5. pc'[j] = pc[j]
      BY <2>1, <3>4, OthersKept
    <3>6. QED
      BY <2>1, <3>3, <3>5 DEF Claims
  <2>2. QED
    BY <1>3, <2>1
<1>4. QED
  BY <1>1, <1>2, <1>3, ClaimMoves

\* A count of an identified event is the one its handler claims.
LEMMA CountIsClaimed ==
    ASSUME Steady, TypeOK, DownIsQuiet, UpInOrder, OneClaim, [Next]_vars,
           NEW e \in Event, counted'[e] # counted[e], Identified(e)
    PROVE  /\ counted'[e] = counted[e] + 1
           /\ ~ backed[KeyOf(e)]
           /\ age[KeyOf(e)] = 0
<1>1. ASSUME NEW i \in Instance, IncrBucket(i)
      PROVE  /\ counted'[e] = counted[e] + 1
             /\ ~ backed[KeyOf(e)]
             /\ age[KeyOf(e)] = 0
  <2>1. PICK c \in Call(i) : counted' = [counted EXCEPT ![cur[i]] = @ + c.exec]
    BY <1>1 DEF IncrBucket
  <2>2. cur[i] = e
    BY <2>1 DEF TypeOK
  <2>3. c.exec # 0
    BY <2>1, <2>2 DEF TypeOK
  <2>4. ~ Cancelled(i)
    BY <2>3 DEF Call
  <2>5. c.exec = 1
    BY <2>4, Answered DEF Steady
  <2>6. counted'[e] = counted[e] + 1
    BY <2>1, <2>2, <2>5 DEF TypeOK
  <2>7. Claims(i, KeyOf(e))
    BY <1>1, <2>2, <2>4, CounterClaims DEF IncrBucket
  <2>8. QED
    BY <2>6, <2>7, KeyOfIdentified DEF OneClaim
<1>2. ASSUME NEW i \in Instance, Callback(i) \/ Lifecycle(i), ~ IncrBucket(i)
      PROVE  UNCHANGED counted
  BY <1>2 DEF Callback, ReceiveDropped, ReceiveQuery, Receive, IncrDedup,
       ExpireDedup, ExpireBucket, Ack, Nak, Lifecycle, Stop, Unsubscribe, Exit,
       Crash, Restart, Down, countVars
<1>3. Outside => UNCHANGED counted
  BY OutsideKeeps DEF countVars
<1>4. QED
  BY <1>1, <1>2, <1>3 DEF Next, Outside

(***************************************************************************)
(* While Redis answers and handlers do not stall, a count of an identified *)
(* event is made in the tick in which its dedup key was created, and is    *)
(* the only one that key lets through, whatever instances stop, crash or   *)
(* lose acknowledgements.  A redelivery after the key has expired counts   *)
(* its event again; by Throttling that is at least DedupWindow later.      *)
(***************************************************************************)
THEOREM OneCountEach == Steady => (Spec => OneCountPerKey)
<1> SUFFICES ASSUME Steady
             PROVE  Spec => OneCountPerKey
  OBVIOUS
<1>1. Init => DownIsQuiet /\ UpInOrder /\ OneClaim
  BY DEF Init, DownIsQuiet, UpInOrder, OneClaim, Claims
<1>2. TypeOK /\ DownIsQuiet /\ [Next]_vars => DownIsQuiet'
  BY DownIsQuietStep
<1>3. TypeOK /\ DownIsQuiet /\ UpInOrder /\ [Next]_vars => UpInOrder'
  BY UpInOrderStep
<1>4. TypeOK /\ DownIsQuiet /\ UpInOrder /\ OneClaim /\ [Next]_vars => OneClaim'
  BY OneClaimStep
<1>5. TypeOK /\ DownIsQuiet /\ UpInOrder /\ OneClaim /\ [Next]_vars
        => [\A e \in Event : counted'[e] # counted[e] /\ Identified(e) =>
              /\ counted'[e] = counted[e] + 1
              /\ ~ backed[KeyOf(e)]
              /\ age[KeyOf(e)] = 0]_vars
  BY CountIsClaimed
<1>6. QED
  BY <1>1, <1>2, <1>3, <1>4, <1>5, TypeCorrect, PTL DEF Spec, OneCountPerKey
=============================================================================
