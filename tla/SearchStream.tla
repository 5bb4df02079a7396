---------------------------- MODULE SearchStream ----------------------------
(***************************************************************************)
(* The JetStream stream of search events and its durable pull consumer, as *)
(* EnsureStream and EnsureConsumer configure them: explicit acks, an ack   *)
(* deadline per delivery, a bounded number of deliveries and of            *)
(* outstanding messages, and a maximum age.  The consumer is one for all   *)
(* instances of the service (they share its durable name), so its state is *)
(* kept per event.  The order in which the server picks ready messages is  *)
(* left open: redeliveries overtake new messages in any case.              *)
(*                                                                         *)
(* This module holds state and the server's own steps; TrendIngest says    *)
(* when the service takes a message, acknowledges it or rejects it.        *)
(***************************************************************************)
EXTENDS Naturals, FiniteSets

CONSTANTS
    Event,          \* the messages a run publishes, each at most once
    AckWait,        \* ack deadline of a delivery, in ticks
    MaxDeliver,     \* deliveries of one message before the server gives up
    MaxAckPending   \* deliveries outstanding at a time

ASSUME StreamAssumption ==
    /\ AckWait \in Nat \ {0}
    /\ MaxDeliver \in Nat \ {0}
    /\ MaxAckPending \in Nat \ {0}

VARIABLES
    status,         \* where the consumer stands with the message
    deliveries,     \* how often it was delivered
    ackTimer        \* ticks left until a pending delivery's deadline

streamVars == <<status, deliveries, ackTimer>>

Status == {"unsent", "ready", "pending", "acked", "exhausted", "aged"}

StreamTypeOK ==
    /\ status \in [Event -> Status]
    /\ deliveries \in [Event -> 0..MaxDeliver]
    /\ ackTimer \in [Event -> 0..AckWait]
    /\ \A e \in Event :
         status[e] \in {"unsent", "ready"} => deliveries[e] < MaxDeliver

StreamInit ==
    /\ status = [e \in Event |-> "unsent"]
    /\ deliveries = [e \in Event |-> 0]
    /\ ackTimer = [e \in Event |-> 0]

Outstanding == {e \in Event : status[e] = "pending"}

(***************************************************************************)
(* The producer publishes without a Nats-Msg-Id, so the server's own       *)
(* duplicate window never applies.                                         *)
(***************************************************************************)
Publish(e) ==
    /\ status[e] = "unsent"
    /\ status' = [status EXCEPT ![e] = "ready"]
    /\ UNCHANGED <<deliveries, ackTimer>>

\* The server hands the message to a pull request of some instance.
HandOut(e) ==
    /\ status[e] = "ready"
    /\ Cardinality(Outstanding) < MaxAckPending
    /\ status' = [status EXCEPT ![e] = "pending"]
    /\ deliveries' = [deliveries EXCEPT ![e] = @ + 1]
    /\ ackTimer' = [ackTimer EXCEPT ![e] = AckWait]

\* An ack reaches the server; one that comes after a requeue still settles.
Settle(e) ==
    /\ status' = [status EXCEPT ![e] = IF @ \in {"ready", "pending"}
                                          THEN "acked" ELSE @]
    /\ UNCHANGED <<deliveries, ackTimer>>

\* A delivery failed: deliver again at once, or give up after MaxDeliver.
Requeue(e) ==
    /\ status' = [status EXCEPT ![e] =
                    IF @ # "pending" THEN @
                    ELSE IF deliveries[e] < MaxDeliver THEN "ready"
                    ELSE "exhausted"]
    /\ UNCHANGED <<deliveries, ackTimer>>

AckTimeout(e) ==
    /\ status[e] = "pending"
    /\ ackTimer[e] = 0
    /\ Requeue(e)

\* The message outlives the stream's MaxAge before it is acknowledged.
AgeOut(e) ==
    /\ status[e] \in {"ready", "pending"}
    /\ status' = [status EXCEPT ![e] = "aged"]
    /\ UNCHANGED <<deliveries, ackTimer>>

\* One tick of the ack deadlines.
AckTimersAdvance ==
    ackTimer' = [e \in Event |-> IF status[e] = "pending" /\ ackTimer[e] > 0
                                   THEN ackTimer[e] - 1 ELSE 0]
=============================================================================
