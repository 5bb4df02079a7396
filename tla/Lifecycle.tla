----------------------------- MODULE Lifecycle ------------------------------
(***************************************************************************)
(* One run of the service process: App.Run with startComponents, the       *)
(* goroutines it starts (subscription, aggregator, the two servers and the *)
(* watcher of their errors), StreamTop calls, and gracefulShutdown, which  *)
(* stops the parts one after the other.  The parts live concurrently and   *)
(* the provider creates servers lazily, in whichever goroutine asks first. *)
(*                                                                         *)
(* Only NATS, Redis and the servers may fail; a failure found during       *)
(* startup leads to gracefulShutdown or to log.Fatal.  "killed" is the end *)
(* by a signal that Run no longer catches, "crashed" every other end than  *)
(* the return of Run.                                                      *)
(***************************************************************************)
CONSTANTS
    Stream,         \* StreamTop calls that may be open at a time
    MetricsEnabled

ASSUME LifecycleAssumption == MetricsEnabled \in BOOLEAN

VARIABLES
    main,           \* where the main goroutine is
    signalled,      \* SIGINT or SIGTERM has come and was caught
    broker,         \* whether the provider has created the broker
    subscription,   \* the goroutine of Broker.Subscribe
    aggregator,     \* the goroutine of TrendService.aggregateLoop
    stream,         \* [Stream]: an open StreamTop call, with its goroutine
    server,         \* the gRPC server
    grpc, metrics,  \* the goroutines of startGrpc and startMetrics
    grpcErr, metricsErr,    \* their channels
    watcher,        \* the goroutine that waits for their errors
    trouble         \* history: what happened that may end in a crash

brokerVars == <<broker, subscription>>
serverVars == <<server, grpc, metrics, grpcErr, metricsErr, watcher>>
vars == <<main, signalled, brokerVars, aggregator, stream, serverVars, trouble>>

Startup == {"service", "setup", "broker", "servers"}
Shutdown == {"stopBroker", "waitBroker", "stopService", "waitService",
             "askGrpc", "createGrpc", "stopGrpc", "drainGrpc", "stopMetrics",
             "close"}
Ended == {"exited", "crashed", "killed"}

FlagsOK == signalled \in BOOLEAN /\ broker \in BOOLEAN

RunOK ==
    /\ main \in Startup \cup {"running"} \cup Shutdown \cup Ended
    /\ subscription \in {"none", "running", "cancelled", "returned"}
    /\ aggregator \in {"none", "running", "cancelled", "returned"}
    /\ stream \in [Stream -> {"none", "open", "cancelled"}]

ServersOK ==
    /\ server \in {"absent", "created", "stopped"}
    /\ grpc \in {"none", "asking", "creating", "created", "serving", "returned"}
    /\ metrics \in {"none", "serving", "returned"}
    /\ grpcErr \in {"empty", "nil", "error"}
    /\ metricsErr \in {"empty", "nil", "error"}
    /\ watcher \in {"none", "waiting", "done"}

TroubleOK == trouble \subseteq {"redis", "nats", "server", "early", "late stream"}

\* A server is asked for once the rest has started, created before it serves,
\* and serves before it has calls.
ServingOK ==
    /\ main \in Startup => grpc = "none"
    /\ grpc \in {"created", "serving"} => server # "absent"
    /\ \A s \in Stream : stream[s] # "none" => grpc \in {"serving", "returned"}

PartsOK == RunOK /\ ServersOK /\ TroubleOK /\ ServingOK

TypeOK == FlagsOK /\ PartsOK

Init ==
    /\ main = "service"
    /\ signalled = FALSE
    /\ broker = FALSE
    /\ subscription = "none"
    /\ aggregator = "none"
    /\ stream = [s \in Stream |-> "none"]
    /\ server = "absent"
    /\ grpc = "none" /\ metrics = "none"
    /\ grpcErr = "empty" /\ metricsErr = "empty"
    /\ watcher = "none"
    /\ trouble = {}

Alive == main \notin Ended

\* The WaitGroup of TrendService counts the aggregator and the streams.
ServiceBusy == \/ aggregator \in {"running", "cancelled"}
               \/ \E s \in Stream : stream[s] # "none"

Note(what) == trouble' = trouble \cup {what}

PortTaken == /\ UNCHANGED server
             /\ IF server = "absent" THEN Note("server") ELSE UNCHANGED trouble
-----------------------------------------------------------------------------
\* NotifyContext catches what comes before Run returns; only the first matters.
Signal ==
    /\ main \in Startup \cup {"running"}
    /\ ~ signalled
    /\ signalled' = TRUE
    /\ UNCHANGED <<main, brokerVars, aggregator, stream, serverVars, trouble>>

(***************************************************************************)
(* Run's deferred sigCancel runs before its deferred gracefulShutdown, so  *)
(* a signal that comes during the shutdown, be it the second or, after a   *)
(* failed startup, the first, ends the process at once.                    *)
(***************************************************************************)
Kill ==
    /\ main \in Shutdown
    /\ main' = "killed"
    /\ UNCHANGED <<signalled, brokerVars, aggregator, stream, serverVars, trouble>>

(***************************************************************************)
(* startComponents.  TrendService() connects to Redis, with retries until  *)
(* a deadline that is fatal; Start itself only logs a failed load.         *)
(***************************************************************************)
StartService ==
    /\ main = "service"
    /\ \/ main' = "setup" /\ aggregator' = "running" /\ UNCHANGED trouble
       \/ main' = "crashed" /\ Note("redis") /\ UNCHANGED aggregator
    /\ UNCHANGED <<signalled, brokerVars, stream, serverVars>>

\* NatsConn and NatsJS are fatal, EnsureStream and EnsureConsumer an error.
SetupBroker ==
    /\ main = "setup"
    /\ \/ main' = "broker" /\ UNCHANGED trouble
       \/ main' \in {"stopBroker", "crashed"} /\ Note("nats")
    /\ UNCHANGED <<signalled, brokerVars, aggregator, stream, serverVars>>

\* TrendBroker() ensures both again and panics if that fails, which Run
\* recovers from; Subscribe starts its goroutine, whose Consume may fail, or
\* take the error of an early callback for its own.
SubscribeBroker ==
    /\ main = "broker"
    /\ \/ /\ main' = "servers"
          /\ broker' = TRUE
          /\ \/ subscription' = "running" /\ UNCHANGED trouble
             \/ subscription' = "returned" /\ \E what \in {"nats", "redis"} : Note(what)
       \/ main' = "stopBroker" /\ Note("nats") /\ UNCHANGED brokerVars
    /\ UNCHANGED <<signalled, aggregator, stream, serverVars>>

StartServers ==
    /\ main = "servers"
    /\ main' = "running"
    /\ grpc' = "asking"
    /\ metrics' = IF MetricsEnabled THEN "serving" ELSE "none"
    /\ watcher' = "waiting"
    /\ UNCHANGED <<signalled, brokerVars, aggregator, stream, server, grpcErr,
                   metricsErr, trouble>>

\* Run has waited for the signal, which may have come long before.
SignalReceived ==
    /\ main = "running" /\ signalled
    /\ main' = "stopBroker"
    /\ IF grpc = "serving" THEN UNCHANGED trouble ELSE Note("early")
    /\ UNCHANGED <<signalled, brokerVars, aggregator, stream, serverVars>>
-----------------------------------------------------------------------------
\* gracefulShutdown asks the provider for the broker, which is created if
\* there is none yet, and panics if NATS is away: nothing recovers from that.
StopBroker ==
    /\ main = "stopBroker"
    /\ \/ /\ main' = "waitBroker"
          /\ broker' = TRUE
          /\ subscription' = IF subscription = "running" THEN "cancelled"
                                                         ELSE subscription
          /\ UNCHANGED trouble
       \/ ~ broker /\ main' = "crashed" /\ Note("nats") /\ UNCHANGED brokerVars
    /\ UNCHANGED <<signalled, aggregator, stream, serverVars>>

BrokerStopped ==
    /\ main = "waitBroker"
    /\ subscription # "cancelled"
    /\ main' = "stopService"
    /\ UNCHANGED <<signalled, brokerVars, aggregator, stream, serverVars, trouble>>

\* A variant that forgets to cancel the aggregator's context.
StopServiceNoCancel ==
    /\ main = "stopService"
    /\ main' = "waitService"
    /\ UNCHANGED <<signalled, brokerVars, aggregator, stream, serverVars, trouble>>

StopService ==
    /\ main = "stopService"
    /\ main' = "waitService"
    /\ aggregator' = IF aggregator = "running" THEN "cancelled" ELSE aggregator
    /\ UNCHANGED <<signalled, brokerVars, stream, serverVars, trouble>>

\* wg.Wait: also the goroutines of open streams are counted.
ServiceStopped ==
    /\ main = "waitService"
    /\ ~ ServiceBusy
    /\ main' = "askGrpc"
    /\ UNCHANGED <<signalled, brokerVars, aggregator, stream, serverVars, trouble>>

AskGrpc ==
    /\ main = "askGrpc"
    /\ main' = IF server = "absent" THEN "createGrpc" ELSE "stopGrpc"
    /\ UNCHANGED <<signalled, brokerVars, aggregator, stream, serverVars, trouble>>

\* The port may be taken: by something else, or by the other goroutine's call
\* of NewServer.  Either is fatal.
CreateGrpc ==
    /\ main = "createGrpc"
    /\ \/ /\ server = "absent"
          /\ main' = "stopGrpc" /\ server' = "created" /\ UNCHANGED trouble
       \/ main' = "crashed" /\ PortTaken
    /\ UNCHANGED <<signalled, brokerVars, aggregator, stream, grpc, metrics,
                   grpcErr, metricsErr, watcher>>

StopGrpc ==
    /\ main = "stopGrpc"
    /\ main' = "drainGrpc"
    /\ server' = "stopped"
    /\ UNCHANGED <<signalled, brokerVars, aggregator, stream, grpc, metrics,
                   grpcErr, metricsErr, watcher, trouble>>

\* A variant that returns at the timeout without stopping the server.
DrainGrpcReturning ==
    /\ main = "drainGrpc"
    /\ main' = "stopMetrics"
    /\ UNCHANGED <<signalled, brokerVars, aggregator, stream, serverVars, trouble>>

\* GracefulStop returns when no call is left, or at the timeout Stop cancels
\* those that are.
DrainGrpc ==
    /\ main = "drainGrpc"
    /\ main' = "stopMetrics"
    /\ stream' = [s \in Stream |-> IF stream[s] = "open" THEN "cancelled"
                                                         ELSE stream[s]]
    /\ UNCHANGED <<signalled, brokerVars, aggregator, serverVars, trouble>>

StopMetrics ==
    /\ main = "stopMetrics"
    /\ main' = "close"
    /\ IF metrics = "serving"
         THEN metrics' = "returned" /\ metricsErr' = "nil"
         ELSE UNCHANGED <<metrics, metricsErr>>
    /\ UNCHANGED <<signalled, brokerVars, aggregator, stream, server, grpc,
                   grpcErr, watcher, trouble>>

Close ==
    /\ main = "close"
    /\ main' = "exited"
    /\ UNCHANGED <<signalled, brokerVars, aggregator, stream, serverVars, trouble>>
-----------------------------------------------------------------------------
\* Consume and aggregateLoop return when their contexts are cancelled.
SubscriptionReturns ==
    /\ Alive /\ subscription = "cancelled"
    /\ subscription' = "returned"
    /\ UNCHANGED <<main, signalled, broker, aggregator, stream, serverVars, trouble>>

AggregatorReturns ==
    /\ Alive /\ aggregator = "cancelled"
    /\ aggregator' = "returned"
    /\ UNCHANGED <<main, signalled, brokerVars, stream, serverVars, trouble>>

\* startGrpc's goroutine: the provider, NewServer, Serve.
GrpcAsks ==
    /\ Alive /\ grpc = "asking"
    /\ grpc' = IF server = "absent" THEN "creating" ELSE "created"
    /\ UNCHANGED <<main, signalled, brokerVars, aggregator, stream, server,
                   metrics, grpcErr, metricsErr, watcher, trouble>>

GrpcCreates ==
    /\ Alive /\ grpc = "creating"
    /\ \/ /\ server = "absent"
          /\ grpc' = "created" /\ server' = "created" /\ UNCHANGED <<main, trouble>>
       \/ main' = "crashed" /\ PortTaken /\ UNCHANGED grpc
    /\ UNCHANGED <<signalled, brokerVars, aggregator, stream, metrics, grpcErr,
                   metricsErr, watcher>>

\* Serve returns ErrServerStopped if the server is stopped already.
GrpcServes ==
    /\ Alive /\ grpc = "created"
    /\ IF server = "created"
         THEN grpc' = "serving" /\ UNCHANGED grpcErr
         ELSE grpc' = "returned" /\ grpcErr' = "error"
    /\ UNCHANGED <<main, signalled, brokerVars, aggregator, stream, server,
                   metrics, metricsErr, watcher, trouble>>

GrpcReturns ==
    /\ Alive /\ grpc = "serving"
    /\ \/ server = "stopped" /\ grpcErr' = "nil" /\ UNCHANGED trouble
       \/ grpcErr' = "error" /\ Note("server")
    /\ grpc' = "returned"
    /\ UNCHANGED <<main, signalled, brokerVars, aggregator, stream, server,
                   metrics, metricsErr, watcher>>

\* The metrics server's port is taken, or it fails later.
MetricsFails ==
    /\ Alive /\ metrics = "serving"
    /\ metrics' = "returned"
    /\ metricsErr' = "error"
    /\ Note("server")
    /\ UNCHANGED <<main, signalled, brokerVars, aggregator, stream, server,
                   grpc, grpcErr, watcher>>

\* A variant that panics whatever it receives.
WatchPanics ==
    /\ Alive /\ watcher = "waiting"
    /\ grpcErr # "empty" \/ metricsErr # "empty"
    /\ watcher' = "done"
    /\ main' = "crashed"
    /\ UNCHANGED <<signalled, brokerVars, aggregator, stream, server, grpc,
                   metrics, grpcErr, metricsErr, trouble>>

\* The watcher receives one value, from either channel.
Watch ==
    /\ Alive /\ watcher = "waiting"
    /\ \E err \in {grpcErr, metricsErr} \ {"empty"} :
         main' = IF err = "error" THEN "crashed" ELSE main
    /\ watcher' = "done"
    /\ UNCHANGED <<signalled, brokerVars, aggregator, stream, server, grpc,
                   metrics, grpcErr, metricsErr, trouble>>

\* A variant for calls that come before the server serves.
StreamTopAnyTime(s) ==
    /\ Alive /\ stream[s] = "none"
    /\ stream' = [stream EXCEPT ![s] = "open"]
    /\ UNCHANGED <<main, signalled, brokerVars, aggregator, serverVars, trouble>>

(***************************************************************************)
(* A client calls StreamTop.  Its wg.Add may fall between the last Done    *)
(* and the return of Wait, and then the WaitGroup panics in a goroutine    *)
(* nothing recovers.                                                       *)
(***************************************************************************)
StreamTop(s) ==
    /\ Alive /\ stream[s] = "none"
    /\ grpc = "serving" /\ server = "created"
    /\ \/ stream' = [stream EXCEPT ![s] = "open"] /\ UNCHANGED main
       \/ /\ main = "waitService" /\ ~ ServiceBusy
          /\ main' = "crashed" /\ UNCHANGED stream
    /\ IF main \in Shutdown THEN Note("late stream") ELSE UNCHANGED trouble
    /\ UNCHANGED <<signalled, brokerVars, aggregator, serverVars>>

\* The client goes away, and the goroutine sees its context cancelled.
ClientLeaves(s) ==
    /\ Alive /\ stream[s] = "open"
    /\ stream' = [stream EXCEPT ![s] = "cancelled"]
    /\ UNCHANGED <<main, signalled, brokerVars, aggregator, serverVars, trouble>>

StreamReturns(s) ==
    /\ Alive /\ stream[s] = "cancelled"
    /\ stream' = [stream EXCEPT ![s] = "none"]
    /\ UNCHANGED <<main, signalled, brokerVars, aggregator, serverVars, trouble>>

startComponents == StartService \/ SetupBroker \/ SubscribeBroker \/ StartServers

gracefulShutdown ==
    \/ StopBroker \/ BrokerStopped \/ StopService \/ ServiceStopped
    \/ AskGrpc \/ CreateGrpc \/ StopGrpc \/ DrainGrpc
    \/ StopMetrics \/ Close

Run == startComponents \/ SignalReceived \/ gracefulShutdown

Goroutine ==
    \/ SubscriptionReturns \/ AggregatorReturns
    \/ GrpcAsks \/ GrpcCreates \/ GrpcServes \/ GrpcReturns
    \/ MetricsFails \/ Watch

Next ==
    \/ Signal \/ Kill
    \/ Run
    \/ Goroutine
    \/ \E s \in Stream : StreamTop(s) \/ ClientLeaves(s) \/ StreamReturns(s)

Spec == Init /\ [][Next]_vars

(***************************************************************************)
(* Goroutines are scheduled and every call of Run returns, since dials,    *)
(* API requests and the servers' shutdowns have timeouts; wg.Wait has      *)
(* none.  Nobody has to send a signal, not even the second one, and        *)
(* clients may stay.                                                       *)
(***************************************************************************)
FairSpec ==
    /\ Spec
    /\ WF_vars(Run)
    /\ WF_vars(SubscriptionReturns) /\ WF_vars(AggregatorReturns)
    /\ WF_vars(GrpcAsks \/ GrpcCreates \/ GrpcServes)
    /\ \A s \in Stream : WF_vars(StreamReturns(s))
-----------------------------------------------------------------------------
(***************************************************************************)
(* When Run has closed the connections to NATS and Redis, nothing is left  *)
(* that was not told to stop: the subscription and the aggregator have     *)
(* returned and every stream, also one that began during the shutdown, has *)
(* its context cancelled.                                                  *)
(***************************************************************************)
QuietExit ==
    main = "exited" =>
        /\ subscription \in {"none", "returned"}
        /\ aggregator = "returned"
        /\ \A s \in Stream : stream[s] # "open"

(***************************************************************************)
(* The process only crashes for a reason: Redis, NATS or a server failed,  *)
(* the shutdown began before the gRPC server served, or a stream was       *)
(* opened during it.  The watcher and the lazy provider add no other.      *)
(***************************************************************************)
OrderlyShutdown == main = "crashed" => trouble # {}

(***************************************************************************)
(* After a signal or a failed startup the process ends, unless a client    *)
(* keeps a stream open: gracefulShutdown waits for streams before it stops *)
(* the server that could end them, so its ShutdownTimeout does not help.   *)
(***************************************************************************)
ShutdownCompletes ==
    (signalled \/ main \in Shutdown) ~>
        (~ Alive \/ \E s \in Stream : stream[s] = "open")
=============================================================================
