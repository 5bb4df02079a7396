------------------------------ MODULE Producer ------------------------------
(***************************************************************************)
(* The load producer: its workers, which share one ticker, and the         *)
(* deadline of its context.  A worker waits for a tick, for a second one   *)
(* if it publishes in batches, publishes, and waits for a tick before      *)
(* every further event of the batch.  The ticker's channel holds one tick; *)
(* a tick that finds it full is dropped.                                   *)
(*                                                                         *)
(* Time is counted in units of which a second has Second (nanoseconds in   *)
(* the code).  Workers take their steps at once; only a publish call may   *)
(* take time, until the deadline at the longest.                           *)
(***************************************************************************)
EXTENDS QueryText, FiniteSets

CONSTANTS
    Worker,
    Rate,           \* flag -rate
    Batch,          \* flag -batch
    Duration,       \* flag -duration in units of time, 0 for no deadline
    Silent,         \* flag -silent
    Second,
    PublishFails,   \* whether JetStream may refuse an event
    PublishWaits,   \* whether it may take time to answer
    Horizon,        \* bound: the clock stops there
    Text,           \* what generateQuery picks from: searchQueries, gofakeit
    StopText        \* texts given to AddStopWord of the service

ASSUME FlagsAssumption ==
    /\ IsFiniteSet(Worker) /\ Worker # {}
    /\ Rate \in Nat /\ Batch \in Nat \ {0} /\ Duration \in Nat /\ Horizon \in Nat
    /\ Silent \in BOOLEAN /\ PublishFails \in BOOLEAN
    /\ PublishWaits \in BOOLEAN
    /\ Text \subseteq Seq(Char) /\ <<>> \in Text
    /\ StopText \subseteq Seq(Char)

PerWorkerRate == IF Rate < Cardinality(Worker) THEN 1
                 ELSE Rate \div Cardinality(Worker)

\* time.NewTicker panics when the interval comes out as zero.
ASSUME RateAssumption == Second \in Nat /\ PerWorkerRate <= Second

Interval == Second \div PerWorkerRate

VARIABLES
    elapsed,    \* time since the ticker was made
    nextTick,   \* time to its next tick
    tick,       \* whether its channel holds a tick
    pc,         \* [Worker]: what it waits for, or does
    published,  \* [Worker]: events of the current batch
    total, errors,
    reporter,   \* the goroutine of the statistics runs
    picked      \* the text the last event was generated from

clockVars == <<elapsed, nextTick>>
vars == <<clockVars, tick, pc, published, total, errors, reporter, picked>>

TypeOK ==
    /\ elapsed \in Nat
    /\ nextTick \in 1..Interval
    /\ tick \in BOOLEAN
    /\ pc \in [Worker -> {"select", "extra", "publish", "next", "done"}]
    /\ published \in [Worker -> 0..(Batch - 1)]
    /\ total \in Nat /\ errors \in Nat
    /\ reporter \in BOOLEAN
    /\ picked \in Text
    /\ \A w \in Worker :
         /\ pc[w] \in {"select", "extra"} => published[w] = 0
         /\ pc[w] = "next" => published[w] > 0

Init ==
    /\ elapsed = 0
    /\ nextTick = Interval
    /\ tick = FALSE
    /\ pc = [w \in Worker |-> "select"]
    /\ published = [w \in Worker |-> 0]
    /\ total = 0 /\ errors = 0
    /\ reporter = ~ Silent
    /\ picked = <<>>

Expired == Duration > 0 /\ elapsed >= Duration

\* wg.Wait returns.
Finished == (\A w \in Worker : pc[w] = "done") /\ ~ reporter

Goto(w, l) == pc' = [pc EXCEPT ![w] = l]

ReceiveTick == tick /\ tick' = FALSE
-----------------------------------------------------------------------------
(***************************************************************************)
(* The worker's select statements take either case that is ready.  With    *)
(* rate 0 there is no ticker: the channel is nil and never ready.          *)
(***************************************************************************)
Return(w) ==
    /\ pc[w] \in {"select", "next"}
    /\ Expired
    /\ Goto(w, "done")
    /\ UNCHANGED <<clockVars, tick, published, total, errors, reporter, picked>>

StartBatch(w) ==
    /\ pc[w] = "select"
    /\ ReceiveTick
    /\ Goto(w, IF Batch > 1 THEN "extra" ELSE "publish")
    /\ UNCHANGED <<clockVars, published, total, errors, reporter, picked>>

\* The second receive of a batch does not look at the context.
ExtraTick(w) ==
    /\ pc[w] = "extra"
    /\ ReceiveTick
    /\ Goto(w, "publish")
    /\ UNCHANGED <<clockVars, published, total, errors, reporter, picked>>

NextInBatch(w) ==
    /\ pc[w] = "next"
    /\ ReceiveTick
    /\ Goto(w, "publish")
    /\ UNCHANGED <<clockVars, published, total, errors, reporter, picked>>

\* A variant that goes on in the batch without a select.
AfterPublishBlindly(w) ==
    IF published[w] + 1 < Batch
      THEN Goto(w, "extra") /\ published' = [published EXCEPT ![w] = @ + 1]
      ELSE Goto(w, "select") /\ published' = [published EXCEPT ![w] = 0]

\* On to the next round of the batch, whatever became of this event.
AfterPublish(w) ==
    IF published[w] + 1 < Batch
      THEN Goto(w, "next") /\ published' = [published EXCEPT ![w] = @ + 1]
      ELSE Goto(w, "select") /\ published' = [published EXCEPT ![w] = 0]

\* An event with any text generateQuery(picked') is published; after the
\* deadline the call returns the context's error.
Publish(w) ==
    /\ pc[w] = "publish"
    /\ \/ ~ Expired /\ total' = total + 1 /\ UNCHANGED errors
       \/ (Expired \/ PublishFails) /\ errors' = errors + 1 /\ UNCHANGED total
    /\ AfterPublish(w)
    /\ picked' \in Text
    /\ UNCHANGED <<clockVars, tick, reporter>>

ReporterReturns ==
    /\ reporter /\ Expired
    /\ reporter' = FALSE
    /\ UNCHANGED <<clockVars, tick, pc, published, total, errors, picked>>

\* What waits neither for the clock nor for JetStream.
Urgent ==
    \/ reporter /\ Expired
    \/ \E w \in Worker :
         \/ pc[w] \in {"select", "next"} /\ (tick \/ Expired)
         \/ pc[w] = "extra" /\ tick
         \/ pc[w] = "publish" /\ (Expired \/ ~ PublishWaits)

Advance(due, ticking) ==
    /\ ~ Finished /\ ~ Urgent
    /\ elapsed < Horizon
    /\ elapsed' = elapsed + 1
    /\ nextTick' = IF due THEN Interval ELSE nextTick - 1
    /\ tick' = (tick \/ ticking)
    /\ UNCHANGED <<pc, published, total, errors, reporter, picked>>

\* Variants that tick at the end of every unit, and with a ticker the deadline
\* stops.
TimePassesTicking == Advance(nextTick = 1, Rate > 0)
TimePassesStopping == Advance(nextTick = 1, Rate > 0 /\ nextTick = 1 /\ ~ Expired)

TimePasses == Advance(nextTick = 1, Rate > 0 /\ nextTick = 1)

Work(w) == Return(w) \/ StartBatch(w) \/ ExtraTick(w) \/ NextInBatch(w)
               \/ Publish(w)

\* main has returned and the process is gone, or the clock has stopped.
Exited == (Finished \/ elapsed = Horizon) /\ UNCHANGED vars

Next ==
    \/ \E w \in Worker : Work(w)
    \/ ReporterReturns
    \/ TimePasses
    \/ Exited

Spec == Init /\ [][Next]_vars

(***************************************************************************)
(* The clock moves, goroutines are scheduled, and js.Publish returns at    *)
(* the deadline or its own timeout.                                        *)
(***************************************************************************)
FairSpec ==
    /\ Spec
    /\ WF_vars(TimePasses)
    /\ WF_vars(ReporterReturns)
    /\ \A w \in Worker : WF_vars(Work(w))
-----------------------------------------------------------------------------
Attempts == total + errors

(***************************************************************************)
(* All workers together publish no faster than one ticker ticks, however   *)
(* many they are and however they share the ticks out: the flag's "events  *)
(* per second total" is not exceeded, up to the rounding of the interval   *)
(* and of a rate below one event for each worker.                          *)
(***************************************************************************)
WithinRate == Attempts * Interval <= elapsed

(***************************************************************************)
(* The run outlasts its duration by at most one interval for each worker:  *)
(* those the deadline finds at their batch's second receive have to wait   *)
(* for a tick each, and nobody else holds the program up.                  *)
(***************************************************************************)
OverrunBounded ==
    Duration > 0 => elapsed <= Duration + Cardinality(Worker) * Interval

(***************************************************************************)
(* A run with a duration ends: every worker and the reporter return.       *)
(***************************************************************************)
RunEnds == Duration > 0 => <>Finished

(***************************************************************************)
(* "Events per second total (0 = unlimited)": with a JetStream that takes  *)
(* every event at once the producer is never further behind the rate asked *)
(* for than one second and a batch of every worker; without a rate it has  *)
(* published an event after a second.                                      *)
(***************************************************************************)
RateReached ==
    \/ Expired
    \/ IF Rate = 0 THEN elapsed >= Second => total > 0
                   ELSE (total + Rate + Cardinality(Worker) * Batch) * Second
                            >= Rate * elapsed

(***************************************************************************)
(* "Spoiled formats to check the normalisation": case, outer spaces and    *)
(* punctuation leave the normal form alone, so the service counts a        *)
(* disguised query as the query it was; a suffix word adds at most itself. *)
(***************************************************************************)
DisguiseUndone ==
    /\ \A t \in Disguised(picked) : normalizeQuery(t) = normalizeQuery(picked)
    /\ \A t \in generateQuery(picked) :
         Fields(normalizeQuery(t)) \ Fields(normalizeQuery(picked))
             \subseteq {<<"1">>, <<"a">>}

(***************************************************************************)
(* A normal form is its own normal form.  LoadStopWords normalises again   *)
(* what AddStopWord had normalised before it was stored; were the results  *)
(* different, a stop word would change with a restart.                     *)
(***************************************************************************)
WordsSurviveReload ==
    \A t \in generateQuery(picked) :
        normalizeQuery(normalizeQuery(t)) = normalizeQuery(t)

(***************************************************************************)
(* A stop word of one word blocks exactly the events in whose text it is a *)
(* word of its own, in any case and with any punctuation in or around it:  *)
(* never as a part of a longer word ("samsung" does not block              *)
(* "samsung-galaxy").                                                      *)
(***************************************************************************)
StopWordReach ==
    \A t \in generateQuery(picked), word \in {normalizeQuery(s) : s \in StopText} :
        Fields(word) = {word} =>
            (matchesStopWord(normalizeQuery(t), {word}) <=>
                \E f \in Fields(t) : normalizeQuery(f) = word)
=============================================================================
