--------------------------- MODULE ProducerProofs ---------------------------
(***************************************************************************)
(* Theorems about module Producer, for any number of workers and any       *)
(* flags: the types, the bound on the rate, how far below the rate asked   *)
(* for that is, the bound on the overrun; and, for any texts to pick from  *)
(* and any stop words, what becomes of the texts published.                *)
(***************************************************************************)
EXTENDS Producer, QueryTextProofs, FiniteSetTheorems

Bit(b) == IF b THEN 1 ELSE 0

LastTick == elapsed + nextTick - Interval

Live == {w \in Worker : pc[w] # "done"}
Moving == {w \in Worker : pc[w] \in {"select", "publish", "next"}}
Stuck == {w \in Worker : pc[w] = "extra"}

\* Workers that have a tick for the event they will publish next.
Holding == {w \in Worker : pc[w] \in {"extra", "publish"}}

\* Ticks that were, or still can be, turned into an attempt to publish.
Spent == Attempts + Cardinality(Holding) + Bit(tick)

\* Every one of them is a tick of the past.
RateInv == Spent * Interval <= LastTick

\* A worker that publishes in batches receives Batch + 1 ticks for Batch events.
\* Counted in units of which a tick has Batch and an event costs Batch + 1, this
\* is what a worker at some label, with n events published, has received and not
\* yet turned into events.
Prepaid(label, n) ==
    CASE label = "extra"   -> Batch
      [] label = "publish" -> 2 * Batch - n
      [] label = "next"    -> Batch - n
      [] OTHER             -> 0

Prepayments == [w \in Worker |-> Prepaid(pc[w], published[w])]

\* The sum of what all workers have, as the size of a set: Units(f) has f[w]
\* members for each worker w.
Units(f) == {p \in Worker \X (1..(2 * Batch)) : p[2] <= f[p[1]]}

PrepaidByAll == Cardinality(Units(Prepayments))

Paid == Attempts * (Batch + 1) + PrepaidByAll + Batch * Bit(tick)

\* All of it has come with a tick of the past.
PaidInv == Batch > 1 => Paid * Interval <= Batch * LastTick

\* Without a ticker nobody gets beyond the first select.
NilInv == Rate = 0 => ~ tick /\ \A w \in Worker : pc[w] \in {"select", "done"}

\* Once a tick has come after the deadline, the live workers wait at the
\* second receive, but for the one that has just been released, and each tick
\* ends one of them.
Late == Duration > 0 /\ LastTick > Duration

OneMoves == Late => \A v, w \in Moving : v = w /\ ~ tick

TickIsTaken == Late /\ tick => Stuck # {}

TimeHasPassed == Late /\ elapsed > LastTick => ~ tick /\ Moving = {} /\ Stuck # {}

Released == Cardinality(Worker) - Cardinality(Live)
                + Bit(tick \/ Moving # {})

LastTickBounded == Late => LastTick <= Duration + Released * Interval

OverrunInv == OneMoves /\ TickIsTaken /\ TimeHasPassed /\ LastTickBounded
-----------------------------------------------------------------------------
\* time.NewTicker gets a positive interval.
LEMMA IntervalPositive == Interval \in Nat /\ Interval > 0
<1>1. Cardinality(Worker) \in Nat /\ Cardinality(Worker) > 0
  BY FlagsAssumption, FS_CardinalityType, FS_EmptySet
<1>2. PerWorkerRate \in Nat /\ PerWorkerRate > 0
  <2>1. CASE Rate < Cardinality(Worker)
    BY <2>1 DEF PerWorkerRate
  <2>2. CASE ~ (Rate < Cardinality(Worker))
    <3>1. Rate \in Nat /\ Rate >= Cardinality(Worker)
      BY <1>1, <2>2, FlagsAssumption
    <3>2. Rate \div Cardinality(Worker) \in Nat /\ Rate \div Cardinality(Worker) > 0
      BY <1>1, <3>1, SMTT(30)
    <3> QED
      BY <2>2, <3>2 DEF PerWorkerRate
  <2> QED
    BY <2>1, <2>2
<1> QED
  BY <1>2, RateAssumption, SMTT(30) DEF Interval

\* One more tick is one more interval, and more ticks take more time.
LEMMA Ticks ==
    ASSUME NEW a \in Nat, NEW b \in Nat, NEW c \in Nat
    PROVE  /\ (a + 1) * c = a * c + c
           /\ a <= b => a * c <= b * c
           /\ a * c \in Nat
  BY SMTT(30)

\* A sum of naturals is one.
LEMMA NatSum ==
    ASSUME NEW a \in Nat, NEW b \in Nat
    PROVE  a + b \in Nat
  OBVIOUS

\* The sets of workers are finite.
LEMMA WorkersCounted ==
    ASSUME NEW S \in SUBSET Worker
    PROVE  /\ IsFiniteSet(S)
           /\ Cardinality(S) \in Nat
           /\ Cardinality(S) <= Cardinality(Worker)
           /\ \A w : Cardinality(S \ {w}) = IF w \in S THEN Cardinality(S) - 1
                                                     ELSE Cardinality(S)
           /\ \A w : Cardinality(S \cup {w}) = IF w \in S THEN Cardinality(S)
                                                       ELSE Cardinality(S) + 1
  BY FlagsAssumption, FS_Subset, FS_CardinalityType, FS_AddElement, FS_RemoveElement

\* Every step keeps the types.
LEMMA TypeStep == TypeOK /\ [Next]_vars => TypeOK'
<1> SUFFICES ASSUME TypeOK, [Next]_vars
             PROVE  TypeOK'
  OBVIOUS
<1> USE FlagsAssumption, IntervalPositive DEF TypeOK, clockVars, Goto, ReceiveTick
<1>1. ASSUME NEW w \in Worker, Return(w) PROVE TypeOK'
  BY <1>1 DEF Return
<1>2. ASSUME NEW w \in Worker, StartBatch(w) PROVE TypeOK'
  BY <1>2 DEF StartBatch
<1>3. ASSUME NEW w \in Worker, ExtraTick(w) PROVE TypeOK'
  BY <1>3 DEF ExtraTick
<1>4. ASSUME NEW w \in Worker, NextInBatch(w) PROVE TypeOK'
  BY <1>4 DEF NextInBatch
<1>5. ASSUME NEW w \in Worker, Publish(w) PROVE TypeOK'
  <2>1. published[w] \in Nat /\ published[w] < Batch /\ Batch \in Nat
    OBVIOUS
  <2>2. CASE published[w] + 1 < Batch
    <3>1. pc' = [pc EXCEPT ![w] = "next"]
          /\ published' = [published EXCEPT ![w] = published[w] + 1]
      BY <1>5, <2>2 DEF Publish, AfterPublish
    <3>2. published' \in [Worker -> 0..(Batch - 1)]
      BY <2>1, <2>2, <3>1
    <3> QED
      BY <1>5, <2>1, <3>1, <3>2 DEF Publish
  <2>3. CASE ~ (published[w] + 1 < Batch)
    <3>1. pc' = [pc EXCEPT ![w] = "select"]
          /\ published' = [published EXCEPT ![w] = 0]
      BY <1>5, <2>3 DEF Publish, AfterPublish
    <3>2. published' \in [Worker -> 0..(Batch - 1)]
      BY <2>1, <3>1
    <3> QED
      BY <1>5, <3>1, <3>2 DEF Publish
  <2> QED
    BY <2>2, <2>3
<1>6. CASE ReporterReturns
  BY <1>6 DEF ReporterReturns
<1>7. CASE TimePasses
  BY <1>7 DEF TimePasses, Advance
<1>8. CASE UNCHANGED vars
  BY <1>8 DEF vars
<1> QED
  BY <1>1, <1>2, <1>3, <1>4, <1>5, <1>6, <1>7, <1>8 DEF Next, Work, Exited

(***************************************************************************)
(* The types, and what a worker in the midst of a batch has published.     *)
(***************************************************************************)
THEOREM TypesKept == Spec => []TypeOK
<1>1. Init => TypeOK
  <2> SUFFICES ASSUME Init PROVE TypeOK
    OBVIOUS
  <2>1. elapsed \in Nat /\ nextTick \in 1..Interval /\ reporter \in BOOLEAN
    BY FlagsAssumption, IntervalPositive DEF Init
  <2>2. /\ pc \in [Worker -> {"select", "extra", "publish", "next", "done"}]
        /\ published \in [Worker -> 0..(Batch - 1)]
        /\ \A w \in Worker : pc[w] = "select" /\ published[w] = 0
    BY FlagsAssumption DEF Init
  <2> QED
    BY <2>1, <2>2, FlagsAssumption DEF Init, TypeOK
<1> QED
  BY <1>1, TypeStep, PTL DEF Spec
-----------------------------------------------------------------------------
\* Only the ticker makes a tick; every other step passes one on, or drops it.
LEMMA SpentStep ==
    ASSUME TypeOK, [Next]_vars
    PROVE  /\ Spent' \in Nat
           /\ \/ Spent' <= Spent /\ UNCHANGED clockVars
              \/ Spent' <= Spent /\ TimePasses
              \/ Spent' <= Spent + 1 /\ TimePasses /\ nextTick = 1
<1> DEFINE N == Cardinality(Holding)
<1>0. /\ Holding \in SUBSET Worker /\ Holding' \in SUBSET Worker
      /\ total \in Nat /\ errors \in Nat /\ tick \in BOOLEAN
  BY DEF Holding, TypeOK
<1>n. N \in Nat /\ N' \in Nat
  BY <1>0, WorkersCounted
<1>8. Spent \in Nat
  BY <1>0, <1>n DEF Spent, Attempts, Bit
<1>9. Spent' \in Nat
  BY <1>0, <1>n, TypeStep DEF Spent, Attempts, Bit, TypeOK
<1> USE DEF Goto, ReceiveTick, clockVars
<1>1. ASSUME NEW w \in Worker, Return(w) PROVE Spent' = Spent /\ UNCHANGED clockVars
  <2>1. Holding' = Holding
    BY <1>1 DEF Return, Holding, TypeOK
  <2> QED
    BY <1>1, <2>1 DEF Return, Spent, Attempts, Bit
<1>2. ASSUME NEW w \in Worker, StartBatch(w) PROVE Spent' = Spent /\ UNCHANGED clockVars
  <2>1. Holding' = Holding \cup {w} /\ w \notin Holding
    BY <1>2 DEF StartBatch, Holding, TypeOK
  <2>2. N' = N + 1
    BY <1>0, <2>1, WorkersCounted
  <2> QED
    BY <1>0, <1>n, <1>2, <2>2 DEF StartBatch, Spent, Attempts, Bit
<1>3. ASSUME NEW w \in Worker, ExtraTick(w) PROVE Spent' <= Spent /\ UNCHANGED clockVars
  <2>1. Holding' = Holding
    BY <1>3 DEF ExtraTick, Holding, TypeOK
  <2> QED
    BY <1>0, <1>n, <1>3, <2>1 DEF ExtraTick, Spent, Attempts, Bit
<1>4. ASSUME NEW w \in Worker, NextInBatch(w) PROVE Spent' = Spent /\ UNCHANGED clockVars
  <2>1. Holding' = Holding \cup {w} /\ w \notin Holding
    BY <1>4 DEF NextInBatch, Holding, TypeOK
  <2>2. N' = N + 1
    BY <1>0, <2>1, WorkersCounted
  <2> QED
    BY <1>0, <1>n, <1>4, <2>2 DEF NextInBatch, Spent, Attempts, Bit
<1>5. ASSUME NEW w \in Worker, Publish(w) PROVE Spent' = Spent /\ UNCHANGED clockVars
  <2>1. Holding' = Holding \ {w} /\ w \in Holding
    BY <1>5 DEF Publish, AfterPublish, Holding, TypeOK
  <2>2. N' = N - 1
    BY <1>0, <2>1, WorkersCounted
  <2>3. total' + errors' = total + errors + 1
    BY <1>0, <1>5 DEF Publish
  <2> QED
    BY <1>0, <1>n, <1>5, <2>2, <2>3 DEF Publish, Spent, Attempts, Bit
<1>6. CASE ReporterReturns \/ UNCHANGED vars
  <2>1. Holding' = Holding /\ UNCHANGED <<clockVars, total, errors, tick>>
    BY <1>6 DEF ReporterReturns, vars, Holding
  <2> QED
    BY <1>0, <1>n, <2>1 DEF Spent, Attempts, Bit
<1>7. CASE TimePasses
  <2>1. Holding' = Holding /\ UNCHANGED <<total, errors>>
        /\ tick' = (tick \/ (Rate > 0 /\ nextTick = 1))
    BY <1>7 DEF TimePasses, Advance, Holding
  <2>2. Spent' <= Spent \/ nextTick = 1
    BY <1>0, <1>n, <2>1 DEF Spent, Attempts, Bit
  <2>3. Spent' <= Spent + 1
    BY <1>0, <1>n, <2>1 DEF Spent, Attempts, Bit
  <2> QED
    BY <1>7, <1>8, <1>9, <2>2, <2>3
<1> QED
  BY <1>1, <1>2, <1>3, <1>4, <1>5, <1>6, <1>7, <1>8, <1>9 DEF Next, Work, Exited

\* The last tick comes an interval later with every tick, and stays between.
LEMMA ClockStep ==
    ASSUME TypeOK, TimePasses
    PROVE  /\ nextTick = 1 => LastTick' = LastTick + Interval
           /\ nextTick # 1 => LastTick' = LastTick
           /\ nextTick = 1 => LastTick' = elapsed'
           /\ elapsed' = elapsed + 1
           /\ LastTick \in Int /\ elapsed \in Nat /\ LastTick <= elapsed
  BY IntervalPositive DEF TypeOK, LastTick, TimePasses, Advance

\* No step publishes ahead of the ticker.
LEMMA RateStep == TypeOK /\ RateInv /\ [Next]_vars => RateInv'
<1> SUFFICES ASSUME TypeOK, RateInv, [Next]_vars
             PROVE  RateInv'
  OBVIOUS
<1>1. Spent \in Nat
  <2>1. Holding \in SUBSET Worker
    BY DEF Holding
  <2> QED
    BY <2>1, WorkersCounted DEF Spent, Attempts, Bit, TypeOK
<1>2. Spent' \in Nat
  BY SpentStep
<1>3. Interval \in Nat /\ Spent * Interval <= LastTick /\ LastTick \in Int
  BY IntervalPositive DEF RateInv, TypeOK, LastTick
<1>4. CASE Spent' <= Spent /\ UNCHANGED clockVars
  <2>1. Spent' * Interval <= Spent * Interval /\ Spent * Interval \in Nat
        /\ Spent' * Interval \in Nat
    BY <1>1, <1>2, <1>3, <1>4, Ticks
  <2>2. LastTick' = LastTick
    BY <1>4 DEF LastTick, clockVars
  <2> QED
    BY <1>3, <2>1, <2>2 DEF RateInv
<1>5. CASE Spent' <= Spent /\ TimePasses
  <2>1. Spent' * Interval <= Spent * Interval /\ Spent * Interval \in Nat
        /\ Spent' * Interval \in Nat
    BY <1>1, <1>2, <1>3, <1>5, Ticks
  <2>2. LastTick' \in Int /\ LastTick' >= LastTick
    BY <1>3, <1>5, ClockStep, IntervalPositive
  <2> QED
    BY <1>3, <2>1, <2>2 DEF RateInv
<1>6. CASE Spent' <= Spent + 1 /\ TimePasses /\ nextTick = 1
  <2>1. /\ Spent' * Interval <= (Spent + 1) * Interval
        /\ (Spent + 1) * Interval = Spent * Interval + Interval
        /\ Spent * Interval \in Nat /\ Spent' * Interval \in Nat
    <3>1. Spent + 1 \in Nat /\ Spent' <= Spent + 1
      BY <1>1, <1>6
    <3>2. Spent' * Interval <= (Spent + 1) * Interval
      BY <1>2, <1>3, <3>1, Ticks
    <3>3. (Spent + 1) * Interval = Spent * Interval + Interval
      BY <1>1, <1>3, Ticks
    <3> QED
      BY <1>1, <1>2, <1>3, <3>2, <3>3, Ticks
  <2>2. LastTick' = LastTick + Interval
    BY <1>6, ClockStep
  <2> QED
    BY <1>3, <2>1, <2>2 DEF RateInv
<1> QED
  BY <1>4, <1>5, <1>6, SpentStep

(***************************************************************************)
(* For any number of workers and any rate, no more is published than the   *)
(* one ticker allows.                                                      *)
(***************************************************************************)
THEOREM RateKept == Spec => []WithinRate
<1>1. Init => RateInv
  <2> SUFFICES ASSUME Init PROVE RateInv
    OBVIOUS
  <2>1. Holding = {}
    BY DEF Init, Holding
  <2>2. Spent = 0
    BY <2>1, FS_EmptySet DEF Init, Spent, Attempts, Bit
  <2> QED
    BY <2>2, IntervalPositive DEF Init, RateInv, LastTick
<1>2. TypeOK /\ RateInv => WithinRate
  <2> SUFFICES ASSUME TypeOK, RateInv PROVE WithinRate
    OBVIOUS
  <2>1. Holding \in SUBSET Worker
    BY DEF Holding
  <2>2. Attempts \in Nat /\ Spent \in Nat /\ Attempts <= Spent
    BY <2>1, WorkersCounted DEF Spent, Attempts, Bit, TypeOK
  <2>3. Attempts * Interval <= Spent * Interval
        /\ Attempts * Interval \in Nat /\ Spent * Interval \in Nat
    BY <2>2, IntervalPositive, Ticks
  <2>4. LastTick <= elapsed /\ LastTick \in Int /\ elapsed \in Int
    BY IntervalPositive DEF TypeOK, LastTick
  <2> QED
    BY <2>3, <2>4 DEF RateInv, WithinRate
<1> QED
  BY <1>1, <1>2, RateStep, TypesKept, PTL DEF Spec
-----------------------------------------------------------------------------
\* The units of one worker beside those of the others.
LEMMA UnitsOfOne ==
    ASSUME NEW f \in [Worker -> 0..(2 * Batch)], NEW w \in Worker
    PROVE  LET Rest == {p \in Units(f) : p[1] # w}
           IN /\ IsFiniteSet(Rest) /\ Cardinality(Rest) \in Nat
              /\ Cardinality(Units(f)) = Cardinality(Rest) + f[w]
<1> DEFINE Rest == {p \in Units(f) : p[1] # w}
           Own == {w} \X (1..f[w])
<1>1. Batch \in Nat /\ f[w] \in Nat /\ f[w] <= 2 * Batch
  BY FlagsAssumption
<1>2. IsFiniteSet(1..(2 * Batch)) /\ IsFiniteSet(1..f[w])
      /\ Cardinality(1..f[w]) = f[w]
  BY <1>1, FS_Interval
<1>3. IsFiniteSet(Own) /\ Cardinality(Own) = f[w]
  <2>1. Cardinality({w}) = 1 /\ IsFiniteSet({w})
    BY FS_Singleton
  <2>2. /\ IsFiniteSet(Own)
        /\ Cardinality(Own) = Cardinality({w}) * Cardinality(1..f[w])
    BY <1>2, <2>1, FS_Product, Zenon
  <2> QED
    BY <1>1, <1>2, <2>1, <2>2
<1>4. IsFiniteSet(Rest)
  <2>1. IsFiniteSet(Worker \X (1..(2 * Batch)))
    BY <1>2, FlagsAssumption, FS_Product
  <2>2. Rest \in SUBSET (Worker \X (1..(2 * Batch)))
    BY DEF Units
  <2> QED
    BY <2>1, <2>2, FS_Subset
<1>5. Units(f) = Rest \cup Own /\ Rest \cap Own = {}
  <2>1. \A p \in Units(f) : p \in Rest \/ p \in Own
    BY <1>1 DEF Units
  <2>2. \A p \in Own : p \in Units(f) /\ p[1] = w
    BY <1>1 DEF Units
  <2> QED
    BY <2>1, <2>2
<1> HIDE DEF Rest, Own
<1>6. Cardinality(Rest \cup Own) =
        Cardinality(Rest) + Cardinality(Own) - Cardinality(Rest \cap Own)
  BY <1>3, <1>4, FS_Union, Zenon
<1>7. Cardinality(Rest) \in Nat /\ Cardinality(Rest \cap Own) = 0
  BY <1>4, <1>5, FS_CardinalityType, FS_EmptySet
<1>8. Cardinality(Units(f)) = Cardinality(Rest) + f[w]
  BY <1>1, <1>3, <1>5, <1>6, <1>7
<1> QED
  BY <1>4, <1>7, <1>8 DEF Rest

\* The sum moves with its one term that moves.
LEMMA UnitsStep ==
    ASSUME NEW f \in [Worker -> 0..(2 * Batch)], NEW g \in [Worker -> 0..(2 * Batch)],
           NEW w \in Worker, \A v \in Worker \ {w} : f[v] = g[v]
    PROVE  /\ Cardinality(Units(f)) \in Nat /\ Cardinality(Units(g)) \in Nat
           /\ Cardinality(Units(g)) = Cardinality(Units(f)) - f[w] + g[w]
<1>1. {p \in Units(f) : p[1] # w} = {p \in Units(g) : p[1] # w}
  BY DEF Units
<1>2. f[w] \in Nat /\ g[w] \in Nat
  BY FlagsAssumption
<1>3. PICK n \in Nat : Cardinality(Units(f)) = n + f[w] /\ Cardinality(Units(g)) = n + g[w]
  BY <1>1, UnitsOfOne
<1> QED
  BY <1>2, <1>3

\* Nobody has more than two ticks' worth.
LEMMA PrepaidRange ==
    ASSUME NEW label, NEW n \in 0..(Batch - 1)
    PROVE  Prepaid(label, n) \in 0..(2 * Batch)
BY FlagsAssumption DEF Prepaid

\* A step of one worker changes the sum by what that worker gains or loses.
LEMMA WorkerPays ==
    ASSUME TypeOK, TypeOK', NEW w \in Worker,
           \A v \in Worker \ {w} : pc'[v] = pc[v] /\ published'[v] = published[v]
    PROVE  /\ PrepaidByAll \in Nat /\ PrepaidByAll' \in Nat
           /\ PrepaidByAll' = PrepaidByAll - Prepaid(pc[w], published[w])
                                           + Prepaid(pc'[w], published'[w])
<1>1. Prepayments \in [Worker -> 0..(2 * Batch)]
  BY PrepaidRange DEF Prepayments, TypeOK
<1>2. Prepayments' \in [Worker -> 0..(2 * Batch)]
  BY PrepaidRange DEF Prepayments, Prepaid, TypeOK
<1>3. /\ Prepayments[w] = Prepaid(pc[w], published[w])
      /\ Prepayments'[w] = Prepaid(pc'[w], published'[w])
      /\ \A v \in Worker \ {w} : Prepayments[v] = Prepayments'[v]
  BY DEF Prepayments, Prepaid
<1> QED
  BY <1>1, <1>2, <1>3, UnitsStep DEF PrepaidByAll, Units

\* A tick is paid once, and an event costs what has been paid for it.
LEMMA PaidStep ==
    ASSUME TypeOK, Batch > 1, [Next]_vars
    PROVE  /\ Paid \in Nat /\ Paid' \in Nat
           /\ \/ Paid' <= Paid /\ UNCHANGED clockVars
              \/ Paid' <= Paid /\ TimePasses
              \/ Paid' <= Paid + Batch /\ TimePasses /\ nextTick = 1
<1> DEFINE Cost == Attempts * (Batch + 1)
           InHand == Batch * Bit(tick)
<1>1. TypeOK'
  BY TypeStep
<1>2. /\ Batch \in Nat
      /\ total \in Nat /\ errors \in Nat /\ total' \in Nat /\ errors' \in Nat
      /\ \A w \in Worker : published[w] \in 0..(Batch - 1)
  BY <1>1, FlagsAssumption DEF TypeOK
<1>3. /\ Attempts \in Nat /\ Attempts' \in Nat
      /\ Cost \in Nat /\ Cost' \in Nat
      /\ Attempts' = Attempts + 1 => Cost' = Cost + Batch + 1
      /\ Attempts' = Attempts => Cost' = Cost
  <2>1. Attempts \in Nat /\ Attempts' \in Nat /\ Batch + 1 \in Nat
    BY <1>2, NatSum DEF Attempts
  <2>2. /\ Cost \in Nat /\ Cost' \in Nat
        /\ (Attempts + 1) * (Batch + 1) = Attempts * (Batch + 1) + (Batch + 1)
    BY <2>1, Ticks
  <2> HIDE DEF Cost
  <2>3. Attempts' = Attempts + 1 => Cost' = Cost + (Batch + 1)
    BY <2>2 DEF Cost
  <2>4. Attempts' = Attempts => Cost' = Cost
    BY DEF Cost
  <2> QED
    BY <1>2, <2>1, <2>2, <2>3, <2>4
<1>4. /\ InHand = IF tick THEN Batch ELSE 0
      /\ InHand' = IF tick' THEN Batch ELSE 0
  BY <1>1, <1>2 DEF TypeOK, Bit
<1>5. /\ Paid = Cost + PrepaidByAll + InHand
      /\ Paid' = Cost' + PrepaidByAll' + InHand'
  BY DEF Paid
<1> HIDE DEF Cost, InHand
<1>6. PrepaidByAll \in Nat /\ PrepaidByAll' \in Nat
  <2>1. PICK w : w \in Worker
    BY FlagsAssumption
  <2>2. /\ Prepayments \in [Worker -> 0..(2 * Batch)]
        /\ Prepayments' \in [Worker -> 0..(2 * Batch)]
    BY <1>1, <1>2, PrepaidRange DEF Prepayments, Prepaid, TypeOK
  <2> QED
    BY <2>1, <2>2, UnitsStep DEF PrepaidByAll, Units
<1>7. Paid \in Nat /\ Paid' \in Nat
  <2>1. InHand \in Nat /\ InHand' \in Nat
    BY <1>2, <1>4
  <2> QED
    BY <1>3, <1>5, <1>6, <2>1, NatSum
<1> USE DEF Goto, ReceiveTick
<1>8. ASSUME NEW w \in Worker, Work(w)
      PROVE  Paid' <= Paid /\ UNCHANGED clockVars
  <2> DEFINE had == Prepaid(pc[w], published[w])
             has == Prepaid(pc[w], published[w])'
  <2>1. /\ UNCHANGED clockVars
        /\ \A v \in Worker \ {w} : pc'[v] = pc[v] /\ published'[v] = published[v]
    BY <1>8 DEF Work, Return, StartBatch, ExtraTick, NextInBatch, Publish,
                AfterPublish, TypeOK
  <2>2. PrepaidByAll' = PrepaidByAll - had + has
    BY <1>1, <2>1, WorkerPays DEF Prepaid
  <2>3. published[w] \in 0..(Batch - 1)
    BY <1>2
  <2>4. CASE Return(w)
    <3>1. Attempts' = Attempts /\ tick' = tick /\ has = 0 /\ had \in Nat
      BY <1>2, <2>3, <2>4 DEF Return, Attempts, Prepaid, TypeOK
    <3> QED
      BY <1>2, <1>3, <1>4, <1>5, <1>6, <2>1, <2>2, <3>1
  <2>5. CASE StartBatch(w)
    <3>1. Attempts' = Attempts /\ tick /\ ~ tick' /\ had = 0 /\ has = Batch
      BY <2>5 DEF StartBatch, Attempts, Prepaid, TypeOK
    <3> QED
      BY <1>2, <1>3, <1>4, <1>5, <1>6, <2>1, <2>2, <3>1
  <2>6. CASE ExtraTick(w)
    <3>1. Attempts' = Attempts /\ tick /\ ~ tick' /\ had = Batch /\ has = 2 * Batch
      BY <1>2, <2>6 DEF ExtraTick, Attempts, Prepaid, TypeOK
    <3> QED
      BY <1>2, <1>3, <1>4, <1>5, <1>6, <2>1, <2>2, <3>1
  <2>7. CASE NextInBatch(w)
    <3>1. /\ Attempts' = Attempts /\ tick /\ ~ tick'
          /\ had = Batch - published[w] /\ has = 2 * Batch - published[w]
      BY <2>7 DEF NextInBatch, Attempts, Prepaid, TypeOK
    <3> QED
      BY <1>2, <1>3, <1>4, <1>5, <1>6, <2>1, <2>2, <2>3, <3>1
  <2>8. CASE Publish(w)
    <3>1. Attempts' = Attempts + 1 /\ tick' = tick /\ had = 2 * Batch - published[w]
      BY <1>2, <2>8 DEF Publish, Attempts, Prepaid
    <3>2. has = Batch - published[w] - 1
      <4>1. CASE published[w] + 1 < Batch
        BY <1>2, <2>3, <2>8, <4>1 DEF Publish, AfterPublish, Prepaid, TypeOK
      <4>2. CASE ~ (published[w] + 1 < Batch)
        <5>1. has = 0
          BY <2>8, <4>2 DEF Publish, AfterPublish, Prepaid, TypeOK
        <5> QED
          BY <1>2, <2>3, <4>2, <5>1
      <4> QED
        BY <4>1, <4>2
    <3> QED
      BY <1>2, <1>3, <1>4, <1>5, <1>6, <2>1, <2>2, <2>3, <3>1, <3>2
  <2> QED
    BY <1>8, <2>4, <2>5, <2>6, <2>7, <2>8 DEF Work
<1>9. CASE ReporterReturns \/ UNCHANGED vars
  <2>1. UNCHANGED <<clockVars, pc, published, total, errors, tick>>
    BY <1>9 DEF ReporterReturns, vars
  <2>2. Paid' = Paid
    BY <2>1 DEF Paid, Attempts, PrepaidByAll, Prepayments, Prepaid, Units, Bit
  <2> QED
    BY <1>7, <2>1, <2>2
<1>10. CASE TimePasses
  <2>1. /\ UNCHANGED <<pc, published, total, errors>>
        /\ tick' = (tick \/ (Rate > 0 /\ nextTick = 1))
    BY <1>10 DEF TimePasses, Advance
  <2>2. PrepaidByAll' = PrepaidByAll /\ Attempts' = Attempts
    BY <2>1 DEF Attempts, PrepaidByAll, Prepayments, Prepaid, Units
  <2>3. Paid' <= Paid + Batch
    BY <1>2, <1>3, <1>4, <1>5, <1>6, <2>1, <2>2
  <2>4. nextTick # 1 => tick' = tick
    BY <2>1 DEF TypeOK
  <2>5. nextTick # 1 => Paid' = Paid
    BY <1>3, <1>4, <1>5, <2>2, <2>4
  <2> QED
    BY <1>7, <1>10, <2>3, <2>5
<1> QED
  BY <1>7, <1>8, <1>9, <1>10 DEF Next, Exited

\* Multiplying out.
LEMMA Times ==
    ASSUME NEW a \in Int, NEW b \in Int, NEW c \in Int
    PROVE  /\ (a + b) * c = a * c + b * c
           /\ c * (a + b) = c * a + c * b
           /\ a * b \in Int
           /\ a * b * c = a * c * b
  BY SMTT(30)

\* Paying no more, or a tick's worth more when the clock has moved an interval.
LEMMA PaidBound ==
    ASSUME NEW p \in Nat, NEW q \in Nat, NEW t \in Int, NEW u \in Int,
           NEW b \in Nat, NEW c \in Nat, p * c <= b * t,
           \/ q <= p /\ u = t
           \/ q <= p + b /\ u = t + c
    PROVE  q * c <= b * u
<1>1. CASE q <= p /\ u = t
  <2>1. q * c <= p * c /\ q * c \in Int /\ p * c \in Int /\ b * t \in Int
    BY <1>1, Ticks, Times
  <2> QED
    BY <1>1, <2>1
<1>2. CASE q <= p + b /\ u = t + c
  <2>1. p + b \in Nat
    OBVIOUS
  <2>2. q * c <= (p + b) * c
    BY <1>2, <2>1, Ticks
  <2>3. (p + b) * c = p * c + b * c /\ b * u = b * t + b * c
    BY <1>2, Times
  <2>4. q * c \in Int /\ p * c \in Int /\ b * c \in Int /\ b * t \in Int
    BY Times
  <2> QED
    BY <2>2, <2>3, <2>4
<1> QED
  BY <1>1, <1>2

\* What is paid stays within the ticks there have been.
LEMMA PaidInvStep == TypeOK /\ PaidInv /\ [Next]_vars => PaidInv'
<1> SUFFICES ASSUME TypeOK, PaidInv, [Next]_vars, Batch > 1
             PROVE  Paid' * Interval <= Batch * LastTick'
  BY DEF PaidInv
<1>1. /\ Interval \in Nat /\ Batch \in Nat
      /\ Paid \in Nat /\ Paid' \in Nat
      /\ LastTick \in Int /\ LastTick' \in Int
      /\ Paid * Interval <= Batch * LastTick
  <2>1. LastTick \in Int
    BY IntervalPositive DEF TypeOK, LastTick
  <2>2. LastTick' \in Int
    BY TypeStep, IntervalPositive DEF TypeOK, LastTick
  <2> QED
    BY <2>1, <2>2, IntervalPositive, FlagsAssumption, PaidStep DEF PaidInv
<1>2. CASE Paid' <= Paid /\ LastTick' = LastTick
  BY <1>1, <1>2, PaidBound
<1>3. CASE Paid' <= Paid + Batch /\ LastTick' = LastTick + Interval
  BY <1>1, <1>3, PaidBound
<1>4. Paid' <= Paid => Paid' <= Paid + Batch
  BY <1>1
<1>5. UNCHANGED clockVars => LastTick' = LastTick
  BY DEF LastTick, clockVars
<1>6. /\ TimePasses /\ nextTick = 1 => LastTick' = LastTick + Interval
      /\ TimePasses /\ nextTick # 1 => LastTick' = LastTick
  BY ClockStep
<1> QED
  BY <1>2, <1>3, <1>4, <1>5, <1>6, PaidStep

TicksPerBatch == IF Batch > 1 THEN Batch + 1 ELSE 1

\* Of the ticks of the one ticker, TicksPerBatch make a batch.
BatchesPayExtra == Attempts * TicksPerBatch * Interval <= Batch * elapsed

(***************************************************************************)
(* How far the producer stays behind the rate it is asked for: only one    *)
(* worker's share of it ticks for all, and the second receive of every     *)
(* batch takes one tick more than the batch has events, however many       *)
(* workers there are and however they share out the ticks.                 *)
(***************************************************************************)
THEOREM BatchesCost == Spec => []BatchesPayExtra
<1>1. Init => PaidInv
  <2> SUFFICES ASSUME Init, Batch > 1 PROVE Paid * Interval <= Batch * LastTick
    BY DEF PaidInv
  <2>1. Prepayments = [w \in Worker |-> 0]
    BY DEF Init, Prepayments, Prepaid
  <2>2. Units(Prepayments) = {}
    BY <2>1 DEF Units
  <2>3. PrepaidByAll = 0 /\ Attempts = 0 /\ Bit(tick) = 0
    BY <2>2, FS_EmptySet DEF Init, PrepaidByAll, Attempts, Bit
  <2>4. Paid = 0 /\ LastTick = 0
    BY <2>3, FlagsAssumption, IntervalPositive DEF Init, Paid, LastTick
  <2> QED
    BY <2>4, FlagsAssumption, IntervalPositive
<1>2. TypeOK /\ PaidInv /\ WithinRate => BatchesPayExtra
  <2> SUFFICES ASSUME TypeOK, PaidInv, WithinRate PROVE BatchesPayExtra
    OBVIOUS
  <2>1. Attempts \in Nat /\ elapsed \in Nat /\ Batch \in Nat /\ Interval \in Nat
    BY FlagsAssumption, IntervalPositive, NatSum DEF TypeOK, Attempts
  <2>2. CASE Batch > 1
    <3> DEFINE cost == Attempts * (Batch + 1)
    <3>1. cost \in Nat
      BY <2>1, Ticks
    <3>2. PrepaidByAll \in Nat
      <4>1. PICK w : w \in Worker
        BY FlagsAssumption
      <4>2. Prepayments \in [Worker -> 0..(2 * Batch)]
        BY PrepaidRange DEF Prepayments, TypeOK
      <4> QED
        BY <4>1, <4>2, UnitsStep DEF PrepaidByAll
    <3>3. Batch * Bit(tick) \in Nat
      BY <2>1 DEF TypeOK, Bit
    <3>4. Paid \in Nat /\ cost <= Paid
      BY <3>1, <3>2, <3>3 DEF Paid
    <3>5. cost * Interval <= Paid * Interval
      BY <2>1, <3>1, <3>4, Ticks
    <3>6. LastTick \in Int /\ LastTick <= elapsed
      BY IntervalPositive DEF TypeOK, LastTick
    <3>7. Batch * LastTick <= Batch * elapsed
      BY <2>1, <3>6, SMTT(30)
    <3>8. cost * Interval \in Int /\ Paid * Interval \in Int
          /\ Batch * LastTick \in Int /\ Batch * elapsed \in Int
      BY <2>1, <3>1, <3>4, <3>6, Times
    <3>9. cost * Interval <= Batch * elapsed
      BY <2>2, <3>5, <3>7, <3>8 DEF PaidInv
    <3> QED
      BY <2>2, <3>9 DEF BatchesPayExtra, TicksPerBatch
  <2>3. CASE ~ (Batch > 1)
    <3>1. Batch = 1
      BY <2>1, <2>3, FlagsAssumption
    <3> QED
      BY <2>1, <3>1 DEF BatchesPayExtra, TicksPerBatch, WithinRate
  <2> QED
    BY <2>2, <2>3
<1> QED
  BY <1>1, <1>2, PaidInvStep, TypesKept, RateKept, PTL DEF Spec
-----------------------------------------------------------------------------
\* Without a rate no tick comes, and so nobody starts a batch.
LEMMA NilStep == TypeOK /\ NilInv /\ [Next]_vars => NilInv'
<1> SUFFICES ASSUME TypeOK, NilInv, [Next]_vars, Rate = 0
             PROVE  ~ tick' /\ \A w \in Worker : pc'[w] \in {"select", "done"}
  BY DEF NilInv
<1>1. ~ tick /\ (\A w \in Worker : pc[w] \in {"select", "done"})
      /\ pc \in [Worker -> {"select", "extra", "publish", "next", "done"}]
  BY DEF NilInv, TypeOK
<1> USE DEF Goto, ReceiveTick
<1>2. ASSUME NEW w \in Worker, Work(w)
      PROVE  tick' = tick /\ pc' = [pc EXCEPT ![w] = "done"]
  BY <1>1, <1>2 DEF Work, Return, StartBatch, ExtraTick, NextInBatch, Publish
<1>3. CASE TimePasses
  <2>1. tick' = (tick \/ (Rate > 0 /\ nextTick = 1)) /\ pc' = pc
    BY <1>3 DEF TimePasses, Advance
  <2>2. ~ (Rate > 0)
    OBVIOUS
  <2> QED
    BY <1>1, <2>1, <2>2
<1>4. CASE ReporterReturns \/ UNCHANGED vars
  BY <1>1, <1>4 DEF ReporterReturns, vars
<1> QED
  BY <1>1, <1>2, <1>3, <1>4 DEF Next, Exited

(***************************************************************************)
(* "0 = unlimited": without a rate nothing is ever published, nor tried,   *)
(* for any number of workers and any other flag.                           *)
(***************************************************************************)
THEOREM NothingAtRateZero == Rate = 0 => (Spec => [](Attempts = 0))
<1> SUFFICES ASSUME Rate = 0
             PROVE  Spec => [](Attempts = 0)
  OBVIOUS
<1> DEFINE Idle == total = 0 /\ errors = 0
<1>1. Init => NilInv /\ Idle
  BY DEF Init, NilInv
<1>2. TypeOK /\ NilInv /\ Idle /\ [Next]_vars => Idle'
  BY DEF NilInv, Next, Work, Return, StartBatch, ExtraTick, NextInBatch,
         Publish, ReporterReturns, TimePasses, Advance, Exited, vars
<1>3. Idle => Attempts = 0
  BY DEF Attempts
<1> QED
  BY <1>1, <1>2, <1>3, NilStep, TypesKept, PTL DEF Spec

\* When the clock moves on after the deadline, the workers that live wait at
\* the second receive, and the ticker's channel is empty.
LEMMA OnlyStuck ==
    ASSUME TypeOK, NilInv, TimePasses, Expired
    PROVE  ~ tick /\ Moving = {} /\ Stuck # {} /\ Rate > 0
<1> USE DEF TimePasses, Advance
<1>1. ~ reporter /\ \A w \in Worker : pc[w] \notin {"select", "next", "publish"}
  BY DEF Urgent
<1>2. PICK w \in Worker : pc[w] # "done"
  BY <1>1 DEF Finished
<1>3. pc[w] = "extra"
  BY <1>1, <1>2 DEF TypeOK
<1>4. ~ tick
  BY <1>3 DEF Urgent
<1>5. Rate > 0
  BY <1>3, FlagsAssumption DEF NilInv
<1> QED
  BY <1>1, <1>3, <1>4, <1>5 DEF Moving, Stuck

\* The numbers of live workers and of released ones are within bounds.
LEMMA Counts ==
    ASSUME TypeOK
    PROVE  /\ Live \in SUBSET Worker
           /\ Cardinality(Live) \in Nat /\ Cardinality(Worker) \in Nat
           /\ Cardinality(Live) <= Cardinality(Worker)
           /\ Live = {} \/ Cardinality(Live) > 0
           /\ Released \in Nat
           /\ LastTick \in Int /\ elapsed \in Nat /\ LastTick <= elapsed
           /\ elapsed < LastTick + Interval
<1>1. Live \in SUBSET Worker
  BY DEF Live
<1>2. /\ Cardinality(Live) \in Nat /\ Cardinality(Worker) \in Nat
      /\ Cardinality(Live) <= Cardinality(Worker)
  BY <1>1, WorkersCounted
<1>3. Live = {} \/ Cardinality(Live) > 0
  BY <1>1, <1>2, WorkersCounted, FS_EmptySet
<1>4. Released \in Nat
  BY <1>2 DEF Released, Bit
<1> QED
  BY <1>1, <1>2, <1>3, <1>4, IntervalPositive DEF TypeOK, LastTick

\* A worker's step after a late tick passes the tick on or ends the worker.
LEMMA OverrunWork ==
    ASSUME TypeOK, OverrunInv, NEW w \in Worker, Work(w)
    PROVE  OverrunInv'
<1>1. UNCHANGED clockVars
  BY DEF Work, Return, StartBatch, ExtraTick, NextInBatch, Publish, clockVars
<1>2. LastTick' = LastTick /\ (Late' <=> Late) /\ elapsed' = elapsed
  BY <1>1 DEF LastTick, Late, clockVars
<1>3. CASE ~ Late
  BY <1>2, <1>3 DEF OverrunInv, OneMoves, TickIsTaken, TimeHasPassed, LastTickBounded
<1>4. CASE Late
  <2> USE DEF Goto, ReceiveTick
  <2>0. /\ \A v, u \in Moving : v = u /\ ~ tick
        /\ elapsed > LastTick => ~ tick /\ Moving = {}
        /\ LastTick <= Duration + Released * Interval
    BY <1>4 DEF OverrunInv, OneMoves, TimeHasPassed, LastTickBounded
  <2>c. /\ Live \in SUBSET Worker
        /\ Cardinality(Live) \in Nat /\ Cardinality(Worker) \in Nat
    BY Counts
  <2>1. SUFFICES ASSUME /\ \A v, u \in Moving' : v = u
                        /\ ~ tick'
                        /\ ~ (elapsed > LastTick)
                        /\ Released' = Released
                 PROVE  OverrunInv'
    <3>1. CASE Return(w)
      <4>1. w \in Moving /\ Moving' = {} /\ Live' = Live \ {w} /\ w \in Live
        BY <2>0, <3>1 DEF Return, Moving, Live, TypeOK
      <4>2. Cardinality(Live') = Cardinality(Live) - 1
        BY <2>c, <4>1, WorkersCounted
      <4>3. tick' = tick /\ ~ tick
        BY <2>0, <3>1, <4>1 DEF Return
      <4>4. Released' = Released
        BY <2>c, <4>1, <4>2, <4>3 DEF Released, Bit
      <4> QED
        BY <2>0, <2>1, <4>1, <4>3, <4>4
    <3>2. CASE StartBatch(w) \/ NextInBatch(w)
      <4>1. w \in Moving /\ tick
        BY <3>2 DEF StartBatch, NextInBatch, Moving
      <4> QED
        BY <2>0, <4>1
    <3>3. CASE ExtraTick(w)
      <4>1. tick /\ ~ tick' /\ Moving = {}
        BY <2>0, <3>3 DEF ExtraTick
      <4>2. Moving' = {w} /\ Live' = Live
        BY <3>3, <4>1 DEF ExtraTick, Moving, Live, TypeOK
      <4>3. Released' = Released
        BY <4>1, <4>2 DEF Released, Bit
      <4> QED
        BY <2>0, <2>1, <4>1, <4>2, <4>3
    <3>4. CASE Publish(w)
      <4>1. w \in Moving /\ Moving' = Moving /\ Live' = Live
        BY <3>4 DEF Publish, AfterPublish, Moving, Live, TypeOK
      <4>2. tick' = tick /\ ~ tick
        BY <2>0, <3>4, <4>1 DEF Publish
      <4>3. Released' = Released
        BY <4>1, <4>2 DEF Released, Bit
      <4> QED
        BY <2>0, <2>1, <4>1, <4>2, <4>3
    <3> QED
      BY <3>1, <3>2, <3>3, <3>4 DEF Work
  <2> QED
    BY <1>2, <2>0, <2>1
       DEF OverrunInv, OneMoves, TickIsTaken, TimeHasPassed, LastTickBounded
<1> QED
  BY <1>3, <1>4

\* The clock adds a tick only for a worker that waits for it.
LEMMA OverrunClock ==
    ASSUME TypeOK, NilInv, OverrunInv, TimePasses
    PROVE  OverrunInv'
<1> SUFFICES ASSUME Late' PROVE OverrunInv'
  BY DEF OverrunInv, OneMoves, TickIsTaken, TimeHasPassed, LastTickBounded
<1>1. /\ Duration \in Nat /\ Duration > 0 /\ LastTick' > Duration
      /\ Interval \in Nat /\ Interval > 0
  BY FlagsAssumption, IntervalPositive DEF Late
<1>2. Expired
  BY <1>1, ClockStep DEF Expired, LastTick, TypeOK, TimePasses, Advance
<1>3. ~ tick /\ Moving = {} /\ Stuck # {} /\ Rate > 0
  BY <1>2, OnlyStuck
<1>4. Moving' = Moving /\ Stuck' = Stuck /\ Live' = Live
  BY DEF TimePasses, Advance, Moving, Stuck, Live
<1>5. tick' = (nextTick = 1)
  BY <1>3 DEF TimePasses, Advance
<1>6. OneMoves' /\ TickIsTaken'
  BY <1>3, <1>4 DEF OneMoves, TickIsTaken
<1>7. TimeHasPassed'
  BY <1>3, <1>4, <1>5, Counts, ClockStep DEF TimeHasPassed, TypeOK
<1>8. LastTickBounded'
  <2>1. CASE nextTick = 1
    <3>1. Released' = Released + 1
      <4>1. Bit(tick \/ Moving # {}) = 0 /\ Bit(tick \/ Moving # {})' = 1
        BY <1>3, <1>5, <2>1 DEF Bit
      <4>2. Cardinality(Live)' = Cardinality(Live)
        BY <1>4
      <4> QED
        BY <4>1, <4>2, Counts DEF Released
    <3>2. Released \in Nat /\ LastTick \in Int /\ LastTick' = LastTick + Interval
      BY <2>1, Counts, ClockStep
    <3>3. LastTick <= Duration + Released * Interval
      <4>1. Released * Interval \in Nat
        BY <1>1, <3>2, Ticks
      <4> QED
        BY <1>1, <3>2, <4>1 DEF OverrunInv, LastTickBounded, Late
    <3>4. Released' * Interval = Released * Interval + Interval
          /\ Released * Interval \in Nat
      BY <1>1, <3>1, <3>2, Ticks
    <3> QED
      BY <1>1, <3>2, <3>3, <3>4 DEF LastTickBounded
  <2>2. CASE nextTick # 1
    <3>1. LastTick' = LastTick /\ Released' = Released
      BY <1>3, <1>4, <1>5, <2>2, ClockStep DEF Released
    <3> QED
      BY <1>1, <3>1 DEF OverrunInv, LastTickBounded, Late
  <2> QED
    BY <2>1, <2>2
<1> QED
  BY <1>6, <1>7, <1>8 DEF OverrunInv

\* What the invariant says of the clock: not even the last of the workers
\* waits for a further tick.
LEMMA OverrunFollows == TypeOK /\ OverrunInv => OverrunBounded
<1> SUFFICES ASSUME TypeOK, OverrunInv, Duration > 0
             PROVE  elapsed <= Duration + Cardinality(Worker) * Interval
  BY DEF OverrunBounded
<1> DEFINE W == Cardinality(Worker)
<1>1. /\ Duration \in Nat /\ Interval \in Nat /\ Interval > 0
      /\ LastTick \in Int /\ elapsed \in Nat /\ LastTick <= elapsed
      /\ elapsed < LastTick + Interval
      /\ W \in Nat /\ Cardinality(Live) \in Nat /\ Cardinality(Live) <= W
      /\ Released \in Nat /\ W * Interval \in Nat /\ Released * Interval \in Nat
  BY FlagsAssumption, IntervalPositive, Counts, Ticks
<1>2. CASE ~ Late
  <2>1. 1 <= W
    BY <1>1, FlagsAssumption, FS_EmptySet
  <2>2. 1 * Interval <= W * Interval
    BY <1>1, <2>1, Ticks
  <2> QED
    BY <1>1, <1>2, <2>2 DEF Late
<1>3. CASE Late
  <2>1. LastTick <= Duration + Released * Interval
    BY <1>3 DEF OverrunInv, LastTickBounded
  <2>2. Moving # {} \/ Stuck # {} => Cardinality(Live) > 0
    BY Counts DEF Moving, Stuck, Live
  <2>3. CASE elapsed = LastTick
    <3>1. Released <= W
      BY <1>1, <1>3, <2>2 DEF OverrunInv, TickIsTaken, Released, Bit
    <3>2. Released * Interval <= W * Interval
      BY <1>1, <3>1, Ticks
    <3> QED
      BY <1>1, <2>1, <2>3, <3>2
  <2>4. CASE elapsed > LastTick
    <3>1. Released + 1 <= W
      BY <1>1, <1>3, <2>2, <2>4 DEF OverrunInv, TimeHasPassed, Released, Bit
    <3>2. /\ (Released + 1) * Interval <= W * Interval
          /\ (Released + 1) * Interval = Released * Interval + Interval
      <4>1. Released + 1 \in Nat
        BY <1>1
      <4> QED
        BY <1>1, <3>1, <4>1, Ticks
    <3> QED
      BY <1>1, <2>1, <3>2
  <2> QED
    BY <1>1, <2>3, <2>4
<1> QED
  BY <1>2, <1>3

(***************************************************************************)
(* For any number of workers, rate, batch and duration, the producer is    *)
(* done one interval for each worker after its deadline at the latest.     *)
(***************************************************************************)
THEOREM OverrunKept == Spec => []OverrunBounded
<1>1. Init => NilInv /\ OverrunInv
  <2> SUFFICES ASSUME Init PROVE NilInv /\ OverrunInv
    OBVIOUS
  <2>1. ~ Late
    BY FlagsAssumption, IntervalPositive DEF Init, Late, LastTick
  <2>2. NilInv
    BY DEF Init, NilInv
  <2> QED
    BY <2>1, <2>2
       DEF OverrunInv, OneMoves, TickIsTaken, TimeHasPassed, LastTickBounded
<1>2. TypeOK /\ NilInv /\ OverrunInv /\ [Next]_vars => OverrunInv'
  <2> SUFFICES ASSUME TypeOK, NilInv, OverrunInv, [Next]_vars
               PROVE  OverrunInv'
    OBVIOUS
  <2>1. CASE ReporterReturns \/ UNCHANGED vars
    <3>1. UNCHANGED <<elapsed, nextTick, tick, pc>>
      BY <2>1 DEF ReporterReturns, vars, clockVars
    <3>2. /\ LastTick' = LastTick /\ Late' = Late
          /\ Moving' = Moving /\ Stuck' = Stuck /\ Live' = Live
      BY <3>1 DEF LastTick, Late, Moving, Stuck, Live
    <3> QED
      BY <3>1, <3>2 DEF OverrunInv, OneMoves, TickIsTaken, TimeHasPassed,
                        LastTickBounded, Released
  <2> QED
    BY <2>1, OverrunWork, OverrunClock DEF Next, Exited
<1> QED
  BY <1>1, <1>2, NilStep, TypesKept, OverrunFollows, PTL DEF Spec
-----------------------------------------------------------------------------
\* What is published is a text.
LEMMA GeneratedTexts ==
    ASSUME TypeOK
    PROVE  picked \in Seq(Char) /\ generateQuery(picked) \subseteq Seq(Char)
<1>1. picked \in Seq(Char)
  BY FlagsAssumption DEF TypeOK
<1>2. ASSUME NEW t \in generateQuery(picked)
      PROVE  t \in Seq(Char)
  <2>1. t \in Disguised(picked) \/ t \in Suffixed(picked, extraWords)
    BY Zenon DEF generateQuery
  <2> QED
    BY <1>1, <2>1, DisguiseIsUndone, ExtraWordOnly, Zenon
<1> QED
  BY <1>1, <1>2

(***************************************************************************)
(* Whatever is picked and however generateQuery disguises it, normalising  *)
(* a stored stop word again when it is loaded leaves it as it was stored.  *)
(***************************************************************************)
THEOREM ReloadKept == Spec => []WordsSurviveReload
<1>1. TypeOK => WordsSurviveReload
  BY GeneratedTexts, Idempotent, Zenon DEF WordsSurviveReload
<1> QED
  BY <1>1, TypesKept, PTL

(***************************************************************************)
(* Upper, lower and title case, outer spaces and punctuation leave the     *)
(* normal form of any text alone; a suffix word adds at most itself to the *)
(* words of the normal form.                                               *)
(***************************************************************************)
THEOREM DisguiseKept == Spec => []DisguiseUndone
<1>1. TypeOK => DisguiseUndone
  <2> SUFFICES ASSUME TypeOK
               PROVE  DisguiseUndone
    OBVIOUS
  <2>1. picked \in Seq(Char)
    BY GeneratedTexts
  <2>2. ASSUME NEW t \in Disguised(picked)
        PROVE  normalizeQuery(t) = normalizeQuery(picked)
    BY <2>1, DisguiseIsUndone
  <2>3. ASSUME NEW t \in generateQuery(picked)
        PROVE  Fields(normalizeQuery(t)) \ Fields(normalizeQuery(picked))
                 \subseteq {<<"1">>, <<"a">>}
    <3>1. CASE t \in Disguised(picked)
      BY <2>2, <3>1
    <3>2. CASE t \in Suffixed(picked, extraWords)
      BY <2>1, <3>2, ExtraWordOnly, Zenon
    <3> QED
      BY <3>1, <3>2, Zenon DEF generateQuery
  <2> QED
    BY <2>2, <2>3, Zenon DEF DisguiseUndone
<1> QED
  BY <1>1, TypesKept, PTL

(***************************************************************************)
(* Whatever text is given to AddStopWord: if one word is left of it, the   *)
(* events it blocks are those with that word among the words of their      *)
(* text, in any case and with any punctuation in or around it.             *)
(***************************************************************************)
THEOREM ReachKept == Spec => []StopWordReach
<1>1. TypeOK => StopWordReach
  <2> SUFFICES ASSUME TypeOK,
                      NEW t \in generateQuery(picked),
                      NEW word \in {normalizeQuery(s) : s \in StopText},
                      Fields(word) = {word}
               PROVE  matchesStopWord(normalizeQuery(t), {word}) <=>
                        \E f \in Fields(t) : normalizeQuery(f) = word
    BY Zenon DEF StopWordReach
  <2>1. t \in Seq(Char)
    BY GeneratedTexts
  <2> QED
    BY <2>1, OneWordMatches, Zenon
<1> QED
  BY <1>1, TypesKept, PTL
=============================================================================
