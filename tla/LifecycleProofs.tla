-------------------------- MODULE LifecycleProofs ---------------------------
(***************************************************************************)
(* Proofs about Lifecycle for any number of streams: what is left when the *)
(* process exits, and what a crash presupposes.                            *)
(***************************************************************************)
EXTENDS Lifecycle, TLAPS

\* Each part is told to stop at its place in gracefulShutdown.
Told ==
    /\ main \in {"waitBroker", "stopService", "waitService", "askGrpc",
                 "createGrpc", "stopGrpc", "drainGrpc", "stopMetrics", "close",
                 "exited"} => subscription # "running"
    /\ main \in {"stopService", "waitService", "askGrpc", "createGrpc", "stopGrpc",
                 "drainGrpc", "stopMetrics", "close", "exited"} =>
           subscription \in {"none", "returned"}
    /\ main \notin {"service", "crashed"} => aggregator # "none"
    /\ main \in {"waitService", "askGrpc", "createGrpc", "stopGrpc", "drainGrpc",
                 "stopMetrics", "close", "exited"} => aggregator # "running"
    /\ main \in {"askGrpc", "createGrpc", "stopGrpc", "drainGrpc", "stopMetrics",
                 "close", "exited"} => aggregator = "returned"

\* The server is stopped before its last calls are cancelled, and takes none
\* afterwards.
StreamsTold ==
    /\ main \in {"drainGrpc", "stopMetrics", "close", "exited"} => server = "stopped"
    /\ main \in {"stopMetrics", "close", "exited"} =>
           \A s \in Stream : stream[s] # "open"

QuietInv == PartsOK /\ Told /\ StreamsTold

\* An untroubled shutdown begins with the gRPC server serving, and nobody
\* creates another; errors have a reason.
Reasons ==
    /\ main = "crashed" => trouble # {}
    /\ grpcErr = "error" \/ metricsErr = "error" => trouble # {}
    /\ main \in Shutdown \cup Ended /\ trouble = {} =>
           grpc \in {"serving", "returned"} /\ server # "absent"
    /\ server = "stopped" => main \in Shutdown \cup Ended
    /\ main = "createGrpc" => trouble # {}
    /\ grpc = "creating" /\ server # "absent" => trouble # {}

ReasonInv == PartsOK /\ Reasons
-----------------------------------------------------------------------------
\* The initial state satisfies both invariants.
LEMMA InitAll == Init => QuietInv /\ ReasonInv
BY DEF Init, QuietInv, ReasonInv, PartsOK, RunOK,
       ServersOK, TroubleOK, ServingOK, Told, StreamsTold, Reasons, Startup,
       Shutdown, Ended

\* The main goroutine and the goroutines it starts.
LEMMA RunStep == RunOK /\ [Next]_vars => RunOK'
<1> SUFFICES ASSUME RunOK, [Next]_vars
             PROVE  RunOK'
  OBVIOUS
<1> USE DEF RunOK, Startup, Shutdown, Ended, Alive, PortTaken, serverVars, brokerVars
<1>1. CASE Signal \/ Kill
  BY <1>1 DEF Signal, Kill
<1>2. CASE startComponents
  BY <1>2 DEF startComponents, StartService, SetupBroker, SubscribeBroker, StartServers
<1>3. CASE SignalReceived
  BY <1>3 DEF SignalReceived
<1>4. CASE StopBroker \/ BrokerStopped \/ StopService \/ ServiceStopped
  BY <1>4 DEF StopBroker, BrokerStopped, StopService, ServiceStopped
<1>5. CASE AskGrpc \/ CreateGrpc \/ StopGrpc \/ DrainGrpc \/ StopMetrics \/ Close
  BY <1>5 DEF AskGrpc, CreateGrpc, StopGrpc, DrainGrpc, StopMetrics, Close
<1>6. CASE Goroutine
  BY <1>6, ZenonT(60) DEF Goroutine, SubscriptionReturns, AggregatorReturns,
        GrpcAsks, GrpcCreates, GrpcServes, GrpcReturns, MetricsFails, Watch
<1>7. ASSUME NEW s \in Stream, StreamTop(s) \/ ClientLeaves(s) \/ StreamReturns(s)
      PROVE  RunOK'
  BY <1>7, ZenonT(60) DEF StreamTop, ClientLeaves, StreamReturns
<1>8. CASE UNCHANGED vars
  BY <1>8 DEF vars
<1> QED
  BY <1>1, <1>2, <1>3, <1>4, <1>5, <1>6, <1>7, <1>8 DEF Next, Run, gracefulShutdown

\* The servers, their goroutines and the watcher.
LEMMA ServersStep == ServersOK /\ [Next]_vars => ServersOK'
<1> SUFFICES ASSUME ServersOK, [Next]_vars
             PROVE  ServersOK'
  OBVIOUS
<1> USE DEF ServersOK, PortTaken, serverVars, brokerVars
<1>1. CASE Signal \/ Kill
  BY <1>1 DEF Signal, Kill
<1>2. CASE startComponents
  BY <1>2 DEF startComponents, StartService, SetupBroker, SubscribeBroker, StartServers
<1>3. CASE SignalReceived
  BY <1>3 DEF SignalReceived
<1>4. CASE StopBroker \/ BrokerStopped \/ StopService \/ ServiceStopped
  BY <1>4 DEF StopBroker, BrokerStopped, StopService, ServiceStopped
<1>5. CASE AskGrpc \/ CreateGrpc \/ StopGrpc \/ DrainGrpc \/ StopMetrics \/ Close
  BY <1>5 DEF AskGrpc, CreateGrpc, StopGrpc, DrainGrpc, StopMetrics, Close
<1>6. CASE Goroutine
  BY <1>6 DEF Goroutine, SubscriptionReturns, AggregatorReturns, GrpcAsks,
              GrpcCreates, GrpcServes, GrpcReturns, MetricsFails, Watch
<1>7. ASSUME NEW s \in Stream, StreamTop(s) \/ ClientLeaves(s) \/ StreamReturns(s)
      PROVE  ServersOK'
  BY <1>7 DEF StreamTop, ClientLeaves, StreamReturns
<1>8. CASE UNCHANGED vars
  BY <1>8 DEF vars
<1> QED
  BY <1>1, <1>2, <1>3, <1>4, <1>5, <1>6, <1>7, <1>8 DEF Next, Run, gracefulShutdown

\* What is recorded as trouble.
LEMMA TroubleStep == TroubleOK /\ [Next]_vars => TroubleOK'
<1> SUFFICES ASSUME TroubleOK, [Next]_vars
             PROVE  TroubleOK'
  OBVIOUS
<1> USE DEF TroubleOK, Note, PortTaken, serverVars, brokerVars
<1>1. CASE Signal \/ Kill
  BY <1>1 DEF Signal, Kill
<1>2. CASE startComponents
  BY <1>2 DEF startComponents, StartService, SetupBroker, SubscribeBroker, StartServers
<1>3. CASE SignalReceived
  BY <1>3 DEF SignalReceived
<1>4. CASE StopBroker \/ BrokerStopped \/ StopService \/ ServiceStopped
  BY <1>4 DEF StopBroker, BrokerStopped, StopService, ServiceStopped
<1>5. CASE AskGrpc \/ CreateGrpc \/ StopGrpc \/ DrainGrpc \/ StopMetrics \/ Close
  BY <1>5 DEF AskGrpc, CreateGrpc, StopGrpc, DrainGrpc, StopMetrics, Close
<1>6. CASE Goroutine
  BY <1>6 DEF Goroutine, SubscriptionReturns, AggregatorReturns, GrpcAsks,
              GrpcCreates, GrpcServes, GrpcReturns, MetricsFails, Watch
<1>7. ASSUME NEW s \in Stream, StreamTop(s) \/ ClientLeaves(s) \/ StreamReturns(s)
      PROVE  TroubleOK'
  BY <1>7 DEF StreamTop, ClientLeaves, StreamReturns
<1>8. CASE UNCHANGED vars
  BY <1>8 DEF vars
<1> QED
  BY <1>1, <1>2, <1>3, <1>4, <1>5, <1>6, <1>7, <1>8 DEF Next, Run, gracefulShutdown

\* Nothing takes a created server away.
LEMMA ServingStep == PartsOK /\ [Next]_vars => ServingOK'
<1> SUFFICES ASSUME PartsOK, [Next]_vars
             PROVE  ServingOK'
  OBVIOUS
<1> USE DEF PartsOK, RunOK, ServingOK, Startup, Shutdown, Ended, Alive, PortTaken,
            serverVars, brokerVars
<1>1. CASE Signal \/ Kill
  BY <1>1 DEF Signal, Kill
<1>2. CASE startComponents
  BY <1>2 DEF startComponents, StartService, SetupBroker, SubscribeBroker, StartServers
<1>3. CASE SignalReceived
  BY <1>3 DEF SignalReceived
<1>4. CASE StopBroker \/ BrokerStopped \/ StopService \/ ServiceStopped
  BY <1>4 DEF StopBroker, BrokerStopped, StopService, ServiceStopped
<1>5. CASE AskGrpc \/ CreateGrpc \/ StopGrpc \/ DrainGrpc \/ StopMetrics \/ Close
  BY <1>5 DEF AskGrpc, CreateGrpc, StopGrpc, DrainGrpc, StopMetrics, Close
<1>6. CASE Goroutine
  BY <1>6 DEF Goroutine, SubscriptionReturns, AggregatorReturns, GrpcAsks,
              GrpcCreates, GrpcServes, GrpcReturns, MetricsFails, Watch
<1>7. ASSUME NEW s \in Stream, StreamTop(s) \/ ClientLeaves(s) \/ StreamReturns(s)
      PROVE  ServingOK'
  BY <1>7 DEF StreamTop, ClientLeaves, StreamReturns
<1>8. CASE UNCHANGED vars
  BY <1>8 DEF vars
<1> QED
  BY <1>1, <1>2, <1>3, <1>4, <1>5, <1>6, <1>7, <1>8 DEF Next, Run, gracefulShutdown

\* Together, the inductive invariant of the types.
LEMMA PartsStep == PartsOK /\ [Next]_vars => PartsOK'
BY RunStep, ServersStep, TroubleStep, ServingStep DEF PartsOK

\* The two flags.
LEMMA FlagsStep == FlagsOK /\ [Next]_vars => FlagsOK'
<1> SUFFICES ASSUME FlagsOK, [Next]_vars
             PROVE  FlagsOK'
  OBVIOUS
<1> USE DEF FlagsOK, PortTaken, brokerVars
<1>1. CASE Signal \/ Kill \/ SignalReceived
  BY <1>1 DEF Signal, Kill, SignalReceived
<1>2. CASE startComponents
  BY <1>2 DEF startComponents, StartService, SetupBroker, SubscribeBroker, StartServers
<1>3. CASE gracefulShutdown
  BY <1>3 DEF gracefulShutdown, StopBroker, BrokerStopped, StopService,
              ServiceStopped, AskGrpc, CreateGrpc, StopGrpc, DrainGrpc,
              StopMetrics, Close
<1>4. CASE Goroutine
  BY <1>4 DEF Goroutine, SubscriptionReturns, AggregatorReturns, GrpcAsks,
              GrpcCreates, GrpcServes, GrpcReturns, MetricsFails, Watch
<1>5. ASSUME NEW s \in Stream, StreamTop(s) \/ ClientLeaves(s) \/ StreamReturns(s)
      PROVE  FlagsOK'
  BY <1>5 DEF StreamTop, ClientLeaves, StreamReturns
<1>6. CASE UNCHANGED vars
  BY <1>6 DEF vars
<1> QED
  BY <1>1, <1>2, <1>3, <1>4, <1>5, <1>6 DEF Next, Run

\* gracefulShutdown passes a part only when that part has been told.
LEMMA QuietStep == QuietInv /\ [Next]_vars => QuietInv'
<1> SUFFICES ASSUME QuietInv, [Next]_vars
             PROVE  Told' /\ StreamsTold'
  BY PartsStep DEF QuietInv
<1> USE DEF QuietInv, Told, StreamsTold, serverVars, brokerVars, Ended, Alive, PortTaken
<1>1. CASE Signal \/ Kill
  BY <1>1 DEF Signal, Kill, Shutdown
<1>2. CASE startComponents
  BY <1>2 DEF startComponents, StartService, SetupBroker, SubscribeBroker,
              StartServers, PartsOK, RunOK, ServersOK, ServingOK
<1>3. CASE SignalReceived
  BY <1>3 DEF SignalReceived
<1>4. CASE StopBroker \/ BrokerStopped \/ StopService
  BY <1>4 DEF StopBroker, BrokerStopped, StopService, PartsOK, RunOK, ServersOK, ServingOK
<1>5. CASE ServiceStopped
  BY <1>5 DEF ServiceStopped, ServiceBusy, PartsOK, RunOK, ServersOK, ServingOK
<1>6. CASE AskGrpc \/ CreateGrpc \/ StopGrpc
  BY <1>6 DEF AskGrpc, CreateGrpc, StopGrpc
<1>7. CASE DrainGrpc \/ StopMetrics \/ Close
  BY <1>7 DEF DrainGrpc, StopMetrics, Close
<1>8. CASE SubscriptionReturns \/ AggregatorReturns
  BY <1>8 DEF SubscriptionReturns, AggregatorReturns
<1>9. CASE GrpcAsks \/ GrpcCreates \/ GrpcServes \/ GrpcReturns \/ MetricsFails \/ Watch
  BY <1>9 DEF GrpcAsks, GrpcCreates, GrpcServes, GrpcReturns, MetricsFails, Watch
<1>10. ASSUME NEW s \in Stream, StreamTop(s) \/ ClientLeaves(s) \/ StreamReturns(s)
       PROVE  Told' /\ StreamsTold'
  <2>1. CASE StreamTop(s)
    BY <2>1 DEF StreamTop, PartsOK, RunOK, ServersOK, ServingOK
  <2>2. CASE ClientLeaves(s) \/ StreamReturns(s)
    BY <2>2 DEF ClientLeaves, StreamReturns, PartsOK, RunOK, ServersOK, ServingOK
  <2> QED
    BY <1>10, <2>1, <2>2
<1>11. CASE UNCHANGED vars
  BY <1>11 DEF vars
<1> QED
  BY <1>1, <1>2, <1>3, <1>4, <1>5, <1>6, <1>7, <1>8, <1>9, <1>10, <1>11
     DEF Next, Run, gracefulShutdown, Goroutine

\* No step of an untroubled run crashes or leaves an error behind.
LEMMA ReasonStep == ReasonInv /\ [Next]_vars => ReasonInv'
<1> SUFFICES ASSUME ReasonInv, [Next]_vars
             PROVE  Reasons'
  BY PartsStep DEF ReasonInv
<1> USE DEF ReasonInv, Reasons, serverVars, brokerVars, Startup, Shutdown, Ended,
            Alive, Note, PortTaken
<1>1. CASE Signal \/ Kill
  BY <1>1 DEF Signal, Kill
<1>2. CASE startComponents
  BY <1>2 DEF startComponents, StartService, SetupBroker, SubscribeBroker,
              StartServers, PartsOK, RunOK, ServersOK, ServingOK
<1>3. CASE SignalReceived
  BY <1>3 DEF SignalReceived, PartsOK, RunOK, ServersOK, ServingOK
<1>4. CASE StopBroker \/ BrokerStopped \/ StopService \/ ServiceStopped
  BY <1>4 DEF StopBroker, BrokerStopped, StopService, ServiceStopped
<1>5. CASE AskGrpc \/ CreateGrpc \/ StopGrpc
  BY <1>5 DEF AskGrpc, CreateGrpc, StopGrpc
<1>6. CASE DrainGrpc \/ StopMetrics \/ Close
  BY <1>6 DEF DrainGrpc, StopMetrics, Close
<1>7. CASE SubscriptionReturns \/ AggregatorReturns
  BY <1>7 DEF SubscriptionReturns, AggregatorReturns
<1>8. CASE GrpcAsks \/ GrpcCreates \/ GrpcServes
  BY <1>8 DEF GrpcAsks, GrpcCreates, GrpcServes, PartsOK, RunOK, ServersOK, ServingOK
<1>9. CASE GrpcReturns \/ MetricsFails
  BY <1>9 DEF GrpcReturns, MetricsFails, PartsOK, RunOK, ServersOK, ServingOK
<1>10. CASE Watch
  BY <1>10 DEF Watch, PartsOK, RunOK, ServersOK, ServingOK
<1>11. ASSUME NEW s \in Stream, StreamTop(s) \/ ClientLeaves(s) \/ StreamReturns(s)
       PROVE  Reasons'
  BY <1>11 DEF StreamTop, ClientLeaves, StreamReturns
<1>12. CASE UNCHANGED vars
  BY <1>12 DEF vars
<1> QED
  BY <1>1, <1>2, <1>3, <1>4, <1>5, <1>6, <1>7, <1>8, <1>9, <1>10, <1>11, <1>12
     DEF Next, Run, gracefulShutdown, Goroutine

\* Types, and that no stream is older than the server's Serve.
THEOREM LifecycleTypes == Spec => []TypeOK
<1>1. Init => TypeOK
  BY InitAll DEF Init, QuietInv, TypeOK, FlagsOK
<1> QED
  BY <1>1, PartsStep, FlagsStep, PTL DEF Spec, TypeOK

(***************************************************************************)
(* gracefulShutdown leaves nothing behind that was not told to stop, also  *)
(* streams that begin between svc.Stop and the server's shutdown.          *)
(***************************************************************************)
THEOREM ExitIsQuiet == Spec => []QuietExit
<1>1. Spec => []QuietInv
  BY InitAll, QuietStep, PTL DEF Spec
<1>2. QuietInv => QuietExit
  BY DEF QuietInv, Told, StreamsTold, QuietExit
<1> QED
  BY <1>1, <1>2, PTL

(***************************************************************************)
(* A process whose dependencies and servers work, that is signalled once   *)
(* it serves and gets no stream while it shuts down, does not crash.       *)
(***************************************************************************)
THEOREM CrashesHaveReasons == Spec => []OrderlyShutdown
<1>1. Spec => []ReasonInv
  BY InitAll, ReasonStep, PTL DEF Spec
<1>2. ReasonInv => OrderlyShutdown
  BY DEF ReasonInv, Reasons, OrderlyShutdown
<1> QED
  BY <1>1, <1>2, PTL
=============================================================================
