------------------------- MODULE TrendIngestProofs --------------------------
(***************************************************************************)
(* Proofs about ingestion, for any number of instances and events and any  *)
(* combination of faults unless a theorem says otherwise.                  *)
(***************************************************************************)
EXTENDS TrendIngest, TLAPS

\* What one Redis call may look like to its caller.
LEMMA CallOutcome ==
    ASSUME NEW i, NEW c \in Call(i)
    PROVE  /\ c.exec \in 0..MaxExec
           /\ c.exec \in Nat
           /\ c.ok \in BOOLEAN
           /\ c.ok => c.exec > 0
BY IngestAssumption DEF Call

\* An identified event's dedup key is one of the modelled keys.
LEMMA KeyOfIdentified ==
    ASSUME NEW e \in Event, Identified(e)
    PROVE  KeyOf(e) \in Key
BY DEF Key

\* The counter stays in its range, and above zero once it is.
LEMMA SaturateRange ==
    ASSUME NEW n \in Nat
    PROVE  /\ Saturate(n) \in 0..MaxHits
           /\ n > 0 => Saturate(n) > 0
           /\ Saturate(n) >= 0
BY DEF Saturate, MaxHits

\* Each step of the message stream keeps the stream's types.
LEMMA StreamTypes ==
    ASSUME StreamTypeOK, NEW e \in Event,
           \/ Publish(e) \/ HandOut(e) \/ Settle(e) \/ Requeue(e)
           \/ AgeOut(e) \/ UNCHANGED streamVars
    PROVE  StreamTypeOK'
<1> USE StreamAssumption DEF StreamTypeOK, Status
<1>1. CASE Publish(e)
  BY <1>1 DEF Publish
<1>2. CASE HandOut(e)
  BY <1>2 DEF HandOut
<1>3. CASE Settle(e)
  BY <1>3 DEF Settle
<1>4. CASE Requeue(e)
  BY <1>4 DEF Requeue
<1>5. CASE AgeOut(e)
  BY <1>5 DEF AgeOut
<1>6. CASE UNCHANGED streamVars
  BY <1>6 DEF streamVars
<1>7. QED
  BY <1>1, <1>2, <1>3, <1>4, <1>5, <1>6
-----------------------------------------------------------------------------
\* Every step keeps the types.
LEMMA TypeStep == TypeOK /\ [Next]_vars => TypeOK'
<1> SUFFICES ASSUME TypeOK, [Next]_vars
             PROVE  TypeOK'
  OBVIOUS
<1> USE DEF TypeOK, serviceVars, dedupVars, countVars
<1>1. ASSUME NEW i \in Instance, Callback(i)
      PROVE  TypeOK'
  <2>1. ASSUME NEW step \in {"ack", "incr", "zincrby"}, Receive(i, step),
               step = "incr" => Identified(Head(buffer[i]))
        PROVE  TypeOK'
    <3>1. buffer[i] \in Seq(Event) /\ buffer[i] # <<>>
      BY <2>1 DEF Receive
    <3>2. Head(buffer[i]) \in Event /\ Tail(buffer[i]) \in Seq(Event)
      BY <3>1
    <3>3. StreamTypeOK'
      BY <2>1 DEF Receive, StreamTypeOK, streamVars
    <3>4. QED
      BY <2>1, <3>2, <3>3 DEF Receive, Goto, Step, MaxHits
  <2>2. CASE ReceiveDropped(i)
    BY <2>1, <2>2 DEF ReceiveDropped
  <2>3. CASE ReceiveQuery(i)
    BY <2>1, <2>3 DEF ReceiveQuery
  <2>4. CASE IncrDedup(i)
    <3>1. PICK c \in Call(i) :
            LET k == KeyOf(cur[i])
                n == Saturate(dedupN[k] + c.exec)
                created == dedupN[k] = 0 /\ c.exec > 0
            IN /\ dedupN' = [dedupN EXCEPT ![k] = n]
               /\ age' = [age EXCEPT ![k] = IF created THEN 0 ELSE @]
               /\ backed' = [backed EXCEPT ![k] = IF created THEN FALSE ELSE @]
               /\ hits' = [hits EXCEPT ![i] = IF c.ok THEN n ELSE 0]
               /\ Goto(i, IF c.ok THEN "expire" ELSE "zincrby")
      BY <2>4 DEF IncrDedup
    <3> DEFINE k == KeyOf(cur[i])
               n == Saturate(dedupN[k] + c.exec)
    <3>2. cur[i] \in Event /\ Identified(cur[i]) /\ k \in Key
      BY <2>4, KeyOfIdentified DEF IncrDedup
    <3>3. n \in 0..MaxHits /\ 0 \in 0..MaxHits
      <4>1. dedupN[k] + c.exec \in Nat
        <5>1. dedupN[k] \in 0..MaxHits /\ MaxHits = 2
          BY <3>2 DEF MaxHits
        <5>2. c.exec \in Nat
          BY CallOutcome
        <5> HIDE DEF k
        <5>3. QED
          BY <5>1, <5>2
      <4>2. QED
        BY <4>1, SaturateRange DEF MaxHits
    <3>4. StreamTypeOK'
      BY <2>4 DEF IncrDedup, StreamTypeOK, streamVars
    <3>5. dedupN' \in [Key -> 0..MaxHits] /\ hits' \in [Instance -> 0..MaxHits]
      BY <3>1, <3>2, <3>3
    <3>6. age' \in [Key -> 0..DedupWindow]
      BY <3>1, <3>2, IngestAssumption
    <3>7. backed' \in [Key -> BOOLEAN]
      BY <3>1, <3>2
    <3>8. pc' \in [Instance -> Step]
      BY <3>1 DEF Goto, Step
    <3>9. QED
      BY <2>4, <3>1, <3>2, <3>4, <3>5, <3>6, <3>7, <3>8 DEF IncrDedup, Goto
  <2>5. CASE ExpireDedup(i)
    <3>1. StreamTypeOK'
      BY <2>5 DEF ExpireDedup, StreamTypeOK, streamVars
    <3>2. dedupTTL' \in [Key -> 0..DedupWindow]
      <4>1. PICK c \in Call(i) :
              dedupTTL' = [dedupTTL EXCEPT ![KeyOf(cur[i])] =
                             IF c.exec > 0 /\ dedupN[KeyOf(cur[i])] > 0
                               THEN DedupWindow ELSE @]
        BY <2>5 DEF ExpireDedup
      <4>2. KeyOf(cur[i]) \in Key
        BY <2>5, KeyOfIdentified DEF ExpireDedup
      <4>3. QED
        BY <4>1, <4>2, IngestAssumption
    <3>3. /\ pc' \in [Instance -> Step]
          /\ \A j \in Instance : pc'[j] \in {"incr", "expire"} => pc'[j] = pc[j]
          /\ \A j \in Instance : pc'[j] # "idle" => pc[j] # "idle"
      BY <2>5 DEF ExpireDedup, Goto, Step
    <3>4. UNCHANGED <<mode, buffer, cur, hits, dedupN, counted, age, backed>>
      BY <2>5 DEF ExpireDedup
    <3>5. UNCHANGED bucket
      BY <2>5 DEF ExpireDedup
    <3>6. QED
      BY <3>1, <3>2, <3>3, <3>4, <3>5
  <2>6. CASE IncrBucket(i)
    <3>1. PICK c \in Call(i) :
            LET e == cur[i]
            IN /\ counted' = [counted EXCEPT ![e] = @ + c.exec]
               /\ bucket' = [bucket EXCEPT ![Minute[e]] =
                               IF c.exec > 0 /\ @ = "absent"
                                 THEN "persistent" ELSE @]
               /\ backed' = [k \in Key |->
                               backed[k] \/ (k = KeyOf(e) /\ c.exec > 0)]
               /\ Goto(i, IF c.ok THEN "bucketExpire" ELSE "nak")
      BY <2>6 DEF IncrBucket
    <3>2. StreamTypeOK'
      BY <2>6 DEF IncrBucket, StreamTypeOK, streamVars
    <3>3. cur[i] \in Event
      BY <2>6 DEF IncrBucket
    <3>4. counted' \in [Event -> Nat]
      BY <3>1, <3>3, CallOutcome
    <3>5. bucket' \in [Bucket -> {"absent", "persistent", "expiring"}]
      BY <3>1
    <3>6. backed' \in [Key -> BOOLEAN]
      BY <3>1
    <3>7. QED
      BY <2>6, <3>1, <3>2, <3>4, <3>5, <3>6 DEF IncrBucket, Goto, Step
  <2>7. CASE ExpireBucket(i)
    <3>1. StreamTypeOK'
      BY <2>7 DEF ExpireBucket, StreamTypeOK, streamVars
    <3>2. bucket' \in [Bucket -> {"absent", "persistent", "expiring"}]
      BY <2>7 DEF ExpireBucket
    <3>3. /\ pc' \in [Instance -> Step]
          /\ \A j \in Instance : pc'[j] \in {"incr", "expire"} => pc'[j] = pc[j]
          /\ \A j \in Instance : pc'[j] # "idle" => pc[j] # "idle"
      BY <2>7 DEF ExpireBucket, Goto, Step
    <3>4. UNCHANGED <<mode, buffer, cur, hits, dedupN, counted, age, backed>>
      BY <2>7 DEF ExpireBucket
    <3>5. UNCHANGED dedupTTL
      BY <2>7 DEF ExpireBucket
    <3>6. QED
      BY <3>1, <3>2, <3>3, <3>4, <3>5
  <2>8. CASE Ack(i)
    <3>1. cur[i] \in Event
      BY <2>8 DEF Ack
    <3>2. StreamTypeOK'
      BY <2>8, <3>1, StreamTypes DEF Ack
    <3>3. QED
      BY <2>8, <3>2 DEF Ack, Return, Goto, Step, MaxHits
  <2>9. CASE Nak(i)
    <3>1. cur[i] \in Event
      BY <2>9 DEF Nak
    <3>2. StreamTypeOK'
      BY <2>9, <3>1, StreamTypes DEF Nak
    <3>3. QED
      BY <2>9, <3>2 DEF Nak, Return, Goto, Step, MaxHits
  <2>10. QED
    BY <1>1, <2>2, <2>3, <2>4, <2>5, <2>6, <2>7, <2>8, <2>9 DEF Callback
<1>2. ASSUME NEW i \in Instance, Lifecycle(i)
      PROVE  TypeOK'
  <2>1. UNCHANGED streamVars
    BY <1>2 DEF Lifecycle, Stop, Unsubscribe, Exit, Crash, Restart, Down
  <2>2. StreamTypeOK'
    BY <2>1 DEF StreamTypeOK, streamVars
  <2>3. CASE Stop(i)
    BY <2>2, <2>3 DEF Stop
  <2>6. CASE Unsubscribe(i)
    <3>1. <<>> \in Seq(Event)
      OBVIOUS
    <3>2. QED
      BY <2>2, <2>6, <3>1 DEF Unsubscribe
  <2>4. CASE Down(i)
    BY <2>2, <2>4 DEF Down, Return, Goto, Step, MaxHits
  <2>5. CASE Restart(i)
    BY <2>2, <2>5 DEF Restart
  <2>7. QED
    BY <1>2, <2>3, <2>4, <2>5, <2>6 DEF Lifecycle, Exit, Crash
<1>3. ASSUME NEW i \in Instance, NEW e \in Event, Deliver(i, e)
      PROVE  TypeOK'
  <2>1. StreamTypeOK'
    BY <1>3, StreamTypes DEF Deliver
  <2>2. Append(buffer[i], e) \in Seq(Event)
    OBVIOUS
  <2>3. QED
    BY <1>3, <2>1, <2>2 DEF Deliver
<1>4. ASSUME NEW e \in Event, Server(e)
      PROVE  TypeOK'
  <2>1. StreamTypeOK'
    BY <1>4, StreamTypes DEF Server, AckTimeout
  <2>2. QED
    BY <1>4, <2>1 DEF Server
<1>5. CASE Tick
  <2>1. StreamTypeOK'
    BY <1>5, StreamAssumption DEF Tick, AckTimersAdvance, StreamTypeOK, Status
  <2>2. dedupN' \in [Key -> 0..MaxHits]
    BY <1>5 DEF Tick, MaxHits
  <2>3. dedupTTL' \in [Key -> 0..DedupWindow] /\ age' \in [Key -> 0..DedupWindow]
    BY <1>5, IngestAssumption DEF Tick
  <2>4. QED
    BY <1>5, <2>1, <2>2, <2>3 DEF Tick
<1>6. CASE UNCHANGED vars
  BY <1>6 DEF vars, streamVars, StreamTypeOK
<1>7. QED
  BY <1>1, <1>2, <1>3, <1>4, <1>5, <1>6 DEF Next

\* The model's state stays within its types.
THEOREM TypeCorrect == Spec => []TypeOK
<1>1. Init => TypeOK
  BY StreamAssumption, IngestAssumption
     DEF Init, StreamInit, TypeOK, StreamTypeOK, Status, Step, MaxHits
<1>2. QED
  BY <1>1, TypeStep, PTL DEF Spec
-----------------------------------------------------------------------------
\* Only three actions touch a dedup key or its age.
LEMMA DedupVarsKept ==
    ASSUME [Next]_vars,
           ~ Tick,
           \A i \in Instance : ~ IncrDedup(i) /\ ~ ExpireDedup(i)
    PROVE  UNCHANGED dedupVars
<1>1. ASSUME NEW i \in Instance, Callback(i) \/ Lifecycle(i)
      PROVE  UNCHANGED dedupVars
  BY <1>1 DEF Callback, ReceiveDropped, ReceiveQuery, Receive, IncrBucket,
              ExpireBucket, Ack, Nak, Lifecycle, Stop, Unsubscribe, Exit, Crash, Down, Restart
<1>2. QED
  BY <1>1 DEF Next, Deliver, Server, vars

\* What INCR does to its key: it adds to it, and starts its age if it is new.
LEMMA IncrEffect ==
    ASSUME TypeOK, NEW i \in Instance, IncrDedup(i)
    PROVE  LET k == KeyOf(cur[i])
           IN /\ k \in Key
              /\ dedupN[k] > 0 => /\ UNCHANGED age
                                 /\ dedupN'[k] > 0
              /\ dedupN[k] = 0 => \/ /\ UNCHANGED age
                                    /\ dedupN'[k] = 0
                                 \/ /\ age' = [age EXCEPT ![k] = 0]
                                    /\ dedupN'[k] > 0
              /\ \A j \in Key \ {k} : dedupN'[j] = dedupN[j]
              /\ UNCHANGED dedupTTL
<1> DEFINE k == KeyOf(cur[i])
<1>1. k \in Key
  BY KeyOfIdentified DEF TypeOK, IncrDedup
<1>2. PICK c \in Call(i) :
        /\ dedupN' = [dedupN EXCEPT ![k] = Saturate(dedupN[k] + c.exec)]
        /\ age' = [age EXCEPT ![k] = IF dedupN[k] = 0 /\ c.exec > 0
                                        THEN 0 ELSE @]
  BY DEF IncrDedup
<1>3. c.exec \in Nat
  BY CallOutcome
<1>4. dedupN \in [Key -> 0..2] /\ age \in [Key -> 0..DedupWindow]
  BY DEF TypeOK, MaxHits
<1>5. UNCHANGED dedupTTL
  BY DEF IncrDedup
<1> HIDE DEF k
<1>6. dedupN'[k] = Saturate(dedupN[k] + c.exec)
  BY <1>1, <1>2, <1>4
<1>7. dedupN[k] + c.exec \in Nat /\ dedupN[k] \in Nat
  BY <1>1, <1>3, <1>4
<1>8. dedupN[k] + c.exec > 0 <=> dedupN'[k] > 0
  BY <1>6, <1>7 DEF Saturate, MaxHits
<1>9. dedupN'[k] = 0 \/ dedupN'[k] > 0
  BY <1>6, <1>7, SaturateRange DEF MaxHits
<1>10. (dedupN[k] = 0 /\ c.exec > 0) \/ age' = age
  BY <1>1, <1>2, <1>4
<1>11. dedupN[k] > 0 => age' = age /\ dedupN'[k] > 0
  BY <1>3, <1>7, <1>8, <1>10
<1>12. ASSUME dedupN[k] = 0
       PROVE  \/ age' = age /\ dedupN'[k] = 0
              \/ age' = [age EXCEPT ![k] = 0] /\ dedupN'[k] > 0
  <2>1. CASE c.exec = 0
    <3>1. age' = age
      BY <1>10, <2>1
    <3>2. dedupN'[k] = 0
      BY <1>7, <1>8, <1>9, <1>12, <2>1
    <3>3. QED
      BY <3>1, <3>2
  <2>2. CASE c.exec > 0
    <3>1. age' = [age EXCEPT ![k] = 0]
      BY <1>2, <1>12, <2>2
    <3>2. dedupN'[k] > 0
      BY <1>3, <1>7, <1>8, <1>12, <2>2
    <3>3. QED
      BY <3>1, <3>2
  <2>3. QED
    BY <1>3, <2>1, <2>2
<1>13. \A j \in Key \ {k} : dedupN'[j] = dedupN[j]
  BY <1>2, <1>4
<1>14. QED
  BY <1>1, <1>5, <1>11, <1>12, <1>13 DEF k

\* What EXPIRE does to its key: nothing, or a full TTL if the key exists.
LEMMA ExpireEffect ==
    ASSUME TypeOK, NEW i \in Instance, ExpireDedup(i)
    PROVE  /\ UNCHANGED <<dedupN, age>>
           /\ \A k \in Key : \/ dedupTTL'[k] = dedupTTL[k]
                             \/ /\ dedupTTL'[k] = DedupWindow
                                /\ dedupN[k] > 0
<1>1. PICK c \in Call(i) :
        dedupTTL' = [dedupTTL EXCEPT ![KeyOf(cur[i])] =
                       IF c.exec > 0 /\ dedupN[KeyOf(cur[i])] > 0
                         THEN DedupWindow ELSE @]
  BY DEF ExpireDedup
<1>2. KeyOf(cur[i]) \in Key
  BY KeyOfIdentified DEF TypeOK, ExpireDedup
<1>3. UNCHANGED <<dedupN, age>>
  BY DEF ExpireDedup
<1>4. QED
  BY <1>1, <1>2, <1>3 DEF TypeOK

\* EXPIRE gives a whole window, and the clock moves TTL and age together.
LEMMA KeyCoverStep == TypeOK /\ KeyCover /\ [Next]_vars => KeyCover'
<1> SUFFICES ASSUME TypeOK, KeyCover, [Next]_vars, NEW k \in Key
             PROVE  /\ dedupN'[k] = 0 => dedupTTL'[k] = 0
                    /\ age'[k] < DedupWindow =>
                         /\ dedupN'[k] > 0
                         /\ \/ dedupTTL'[k] = 0
                            \/ dedupTTL'[k] >= DedupWindow - age'[k]
  BY DEF KeyCover
<1>1. /\ dedupN[k] \in 0..2 /\ dedupTTL[k] \in 0..DedupWindow
      /\ age \in [Key -> 0..DedupWindow] /\ age[k] \in 0..DedupWindow
      /\ DedupWindow \in Nat /\ DedupWindow > 0
  BY IngestAssumption DEF TypeOK, MaxHits
<1>2. /\ dedupN[k] = 0 => dedupTTL[k] = 0
      /\ age[k] < DedupWindow =>
           /\ dedupN[k] > 0
           /\ dedupTTL[k] = 0 \/ dedupTTL[k] >= DedupWindow - age[k]
  BY DEF KeyCover
<1>3. CASE \E i \in Instance : IncrDedup(i)
  <2>1. PICK i \in Instance : IncrDedup(i)
    BY <1>3
  <2>2. CASE k = KeyOf(cur[i])
    BY <1>1, <1>2, <2>1, <2>2, IncrEffect
  <2>3. CASE k # KeyOf(cur[i])
    <3>1. dedupN'[k] = dedupN[k] /\ dedupTTL'[k] = dedupTTL[k]
      BY <2>1, <2>3, IncrEffect
    <3>2. age' = age \/ age' = [age EXCEPT ![KeyOf(cur[i])] = 0]
      BY <2>1, IncrEffect, KeyOfIdentified, ZenonT(60)
         DEF TypeOK, MaxHits, IncrDedup
    <3>3. age'[k] = age[k]
      BY <1>1, <2>3, <3>2
    <3>4. QED
      BY <1>2, <3>1, <3>3
  <2>4. QED
    BY <2>2, <2>3
<1>4. CASE \E i \in Instance : ExpireDedup(i)
  BY <1>1, <1>2, <1>4, ExpireEffect
<1>5. CASE Tick
  <2>1. /\ dedupN'[k] = IF dedupTTL[k] = 1 THEN 0 ELSE dedupN[k]
        /\ dedupTTL'[k] = IF dedupTTL[k] = 0 THEN 0 ELSE dedupTTL[k] - 1
        /\ age'[k] = IF age[k] < DedupWindow THEN age[k] + 1 ELSE DedupWindow
    BY <1>5 DEF Tick
  <2>2. QED
    BY <1>1, <1>2, <2>1
<1>6. CASE UNCHANGED dedupVars
  BY <1>2, <1>6 DEF dedupVars
<1>7. QED
  BY <1>3, <1>4, <1>5, <1>6, DedupVarsKept

(***************************************************************************)
(* No fault, stall or interleaving lets a dedup key expire early.          *)
(***************************************************************************)
THEOREM KeyCovered == Spec => []KeyCover
<1>1. Init => KeyCover
  BY IngestAssumption DEF Init, KeyCover
<1>2. QED
  BY <1>1, TypeCorrect, KeyCoverStep, PTL DEF Spec

\* A step of ingestion is a step of the throttle, or leaves it alone.
LEMMA ThrottleStep ==
    TypeOK /\ KeyCover /\ [Next]_vars => [Throttle!Next]_age
<1> SUFFICES ASSUME TypeOK, KeyCover, [Next]_vars
             PROVE  [Throttle!Next]_age
  OBVIOUS
<1>1. CASE \E i \in Instance : IncrDedup(i)
  <2>1. PICK i \in Instance : IncrDedup(i)
    BY <1>1
  <2> DEFINE k == KeyOf(cur[i])
  <2>2. CASE UNCHANGED age
    BY <2>2
  <2>3. CASE dedupN[k] = 0 /\ age' = [age EXCEPT ![k] = 0] /\ k \in Key
    <3>1. age[k] = DedupWindow
      <4>1. age[k] \in 0..DedupWindow /\ DedupWindow \in Nat
        BY <2>3, IngestAssumption DEF TypeOK
      <4>2. ~ (age[k] < DedupWindow)
        BY <2>3 DEF KeyCover
      <4>3. QED
        BY <4>1, <4>2
    <3>2. Throttle!Admit(k)
      BY <2>3, <3>1 DEF Throttle!Admit
    <3>3. QED
      BY <2>3, <3>2 DEF Throttle!Next
  <2>4. dedupN[k] \in 0..2
    BY <2>1, IncrEffect DEF TypeOK, MaxHits
  <2>5. QED
    BY <2>1, <2>2, <2>3, <2>4, IncrEffect
<1>2. CASE \E i \in Instance : ExpireDedup(i)
  BY <1>2, ExpireEffect
<1>3. CASE Tick
  BY <1>3 DEF Tick, Throttle!Next, Throttle!Tick
<1>4. CASE UNCHANGED dedupVars
  BY <1>4 DEF dedupVars
<1>5. QED
  BY <1>1, <1>2, <1>3, <1>4, DedupVarsKept

(***************************************************************************)
(* CheckDedup implements the throttle: two admissions of one identifier    *)
(* and query are at least DedupWindow apart, whatever fails in between.    *)
(***************************************************************************)
THEOREM Throttling == Spec => Throttled
<1>1. Init => Throttle!Init
  BY DEF Init, Throttle!Init
<1>2. QED
  BY <1>1, TypeCorrect, KeyCovered, ThrottleStep, PTL
     DEF Spec, Throttled, Throttle!Spec
-----------------------------------------------------------------------------
\* Counts are never taken back.
LEMMA CountedGrows ==
    ASSUME TypeOK, [Next]_vars, NEW e \in Event
    PROVE  counted[e] > 0 => counted'[e] > 0
<1>1. CASE \E i \in Instance : IncrBucket(i)
  <2>1. PICK i \in Instance : IncrBucket(i)
    BY <1>1
  <2>2. PICK c \in Call(i) : counted' = [counted EXCEPT ![cur[i]] = @ + c.exec]
    BY <2>1 DEF IncrBucket
  <2>3. c.exec \in Nat
    BY CallOutcome
  <2>4. QED
    BY <2>2, <2>3 DEF TypeOK
<1>2. ASSUME NEW i \in Instance, Callback(i) \/ Lifecycle(i), ~ IncrBucket(i)
      PROVE  UNCHANGED counted
  BY <1>2 DEF Callback, ReceiveDropped, ReceiveQuery, Receive, IncrDedup,
              ExpireDedup, ExpireBucket, Ack, Nak, Lifecycle, Stop, Unsubscribe, Exit, Crash,
              Down, Restart, countVars
<1>3. QED
  BY <1>1, <1>2 DEF Next, Deliver, Server, Tick, vars, countVars

\* Only the acknowledgement of a finished callback acknowledges a message.
LEMMA AckedByAck ==
    ASSUME TypeOK, [Next]_vars, NEW e \in Event, status'[e] = "acked"
    PROVE  status[e] = "acked" \/ \E i \in Instance : Ack(i) /\ cur[i] = e
<1> USE DEF TypeOK, StreamTypeOK
<1>1. ASSUME NEW i \in Instance, Callback(i), ~ Ack(i)
      PROVE  status[e] = "acked"
  <2>1. CASE Nak(i)
    BY <2>1 DEF Nak, Requeue, streamVars
  <2>2. CASE ~ Nak(i)
    BY <1>1, <2>2 DEF Callback, ReceiveDropped, ReceiveQuery, Receive, IncrDedup,
                      ExpireDedup, IncrBucket, ExpireBucket, streamVars
  <2>3. QED
    BY <2>1, <2>2
<1>2. ASSUME NEW i \in Instance, Ack(i), cur[i] # e
      PROVE  status[e] = "acked"
  BY <1>2 DEF Ack, Settle, streamVars
<1>3. ASSUME NEW i \in Instance, Lifecycle(i)
      PROVE  status[e] = "acked"
  BY <1>3 DEF Lifecycle, Stop, Unsubscribe, Exit, Crash, Restart, Down, streamVars
<1>4. ASSUME NEW i \in Instance, NEW f \in Event, Deliver(i, f)
      PROVE  status[e] = "acked"
  BY <1>4 DEF Deliver, HandOut
<1>5. ASSUME NEW f \in Event, Server(f)
      PROVE  status[e] = "acked"
  BY <1>5 DEF Server, Publish, AckTimeout, Requeue, AgeOut
<1>6. CASE Tick \/ UNCHANGED vars
  BY <1>6 DEF Tick, vars, streamVars
<1>7. QED
  BY <1>1, <1>2, <1>3, <1>4, <1>5, <1>6 DEF Next

\* An event that must be counted and that no dedup key stands for.
Owed(e) == Countable(e) /\ ~ Identified(e)

(***************************************************************************)
(* AnonymousCounted is not inductive: the acknowledgement that would break *)
(* it is preceded by a callback that is past ZINCRBY.                      *)
(***************************************************************************)
AnonymousInv ==
    /\ AnonymousCounted
    /\ \A i \in Instance :
         pc[i] \in {"bucketExpire", "ack"} /\ Owed(cur[i]) => counted[cur[i]] > 0

\* Only a count lets a callback past ZINCRBY.
LEMMA AnonymousStep == TypeOK /\ AnonymousInv /\ [Next]_vars => AnonymousInv'
<1> SUFFICES ASSUME TypeOK, AnonymousInv, [Next]_vars
             PROVE  AnonymousInv'
  OBVIOUS
<1>1. AnonymousCounted'
  <2> SUFFICES ASSUME NEW e \in Event, status'[e] = "acked", Owed(e)
               PROVE  counted'[e] > 0
    BY DEF AnonymousCounted, Owed, Countable, Ignored, Identified, DedupID
  <2>1. CASE status[e] = "acked"
    BY <2>1, CountedGrows DEF AnonymousInv, AnonymousCounted, Owed
  <2>2. CASE \E i \in Instance : Ack(i) /\ cur[i] = e
    BY <2>2, CountedGrows DEF AnonymousInv, Ack
  <2>3. QED
    BY <2>1, <2>2, AckedByAck
<1>2. ASSUME NEW i \in Instance, pc'[i] \in {"bucketExpire", "ack"}, Owed(cur'[i])
      PROVE  counted'[cur'[i]] > 0
  <2>1. CASE pc'[i] = pc[i] /\ cur'[i] = cur[i]
    BY <1>2, <2>1, CountedGrows DEF AnonymousInv, TypeOK
  <2>2. CASE ReceiveDropped(i)
    <3>1. buffer[i] \in Seq(Event) /\ buffer[i] # <<>>
      BY <2>2 DEF ReceiveDropped, TypeOK
    <3>2. cur'[i] = Head(buffer[i])
      BY <2>2 DEF ReceiveDropped, Receive, TypeOK
    <3>3. ~ Owed(Head(buffer[i]))
      BY <2>2 DEF ReceiveDropped, Owed, Countable
    <3>4. QED
      BY <1>2, <3>2, <3>3
  <2>3. CASE ReceiveQuery(i)
    BY <1>2, <2>3 DEF ReceiveQuery, Receive, Goto, TypeOK
  <2>4. CASE IncrDedup(i)
    BY <1>2, <2>4 DEF IncrDedup, Goto, TypeOK
  <2>5. CASE ExpireDedup(i)
    BY <1>2, <2>5 DEF ExpireDedup, TypeOK, Owed
  <2>6. CASE IncrBucket(i)
    <3>1. PICK c \in Call(i) :
            /\ counted' = [counted EXCEPT ![cur[i]] = @ + c.exec]
            /\ Goto(i, IF c.ok THEN "bucketExpire" ELSE "nak")
      BY <2>6 DEF IncrBucket
    <3>2. c.exec > 0 /\ c.exec \in Nat
      BY <1>2, <3>1, CallOutcome DEF Goto, TypeOK
    <3>3. cur'[i] = cur[i] /\ cur[i] \in Event /\ counted[cur[i]] \in Nat
      BY <2>6 DEF IncrBucket, TypeOK
    <3>4. QED
      BY <3>1, <3>2, <3>3 DEF TypeOK
  <2>7. CASE ExpireBucket(i)
    <3>1. cur' = cur /\ counted' = counted /\ pc[i] = "bucketExpire"
      BY <2>7 DEF ExpireBucket
    <3>2. QED
      BY <1>2, <3>1 DEF AnonymousInv
  <2>8. CASE Ack(i) \/ Nak(i) \/ Lifecycle(i)
    BY <1>2, <2>1, <2>8 DEF Ack, Nak, Lifecycle, Stop, Unsubscribe, Exit, Crash,
                            Restart, Down, Return, Goto, TypeOK
  <2>9. ASSUME NEW j \in Instance, j # i, Callback(j) \/ Lifecycle(j)
        PROVE  pc'[i] = pc[i] /\ cur'[i] = cur[i]
    BY <2>9 DEF Callback, ReceiveDropped, ReceiveQuery, Receive, IncrDedup,
                ExpireDedup, IncrBucket, ExpireBucket, Ack, Nak, Lifecycle,
                Stop, Unsubscribe, Exit, Crash, Down, Restart, Return, Goto,
                TypeOK
  <2>10. CASE \/ Tick \/ UNCHANGED vars
              \/ \E e \in Event : Server(e)
              \/ \E j \in Instance, e \in Event : Deliver(j, e)
    BY <2>1, <2>10 DEF Tick, vars, Server, Deliver, serviceVars
  <2>11. QED
    BY <2>1, <2>2, <2>3, <2>4, <2>5, <2>6, <2>7, <2>8, <2>9, <2>10
       DEF Next, Callback
<1>3. QED
  BY <1>1, <1>2 DEF AnonymousInv, Owed, Countable, Ignored, Identified, DedupID

(***************************************************************************)
(* An event without an identifier is acknowledged only after it was        *)
(* counted, under every combination of faults.                             *)
(***************************************************************************)
THEOREM AnonymousAtLeastOnce == Spec => []AnonymousCounted
<1>1. Init => AnonymousInv
  BY DEF Init, StreamInit, AnonymousInv, AnonymousCounted
<1>2. AnonymousInv => AnonymousCounted
  BY DEF AnonymousInv
<1>3. QED
  BY <1>1, <1>2, TypeCorrect, AnonymousStep, PTL DEF Spec
=============================================================================
