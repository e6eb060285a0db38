---------------------------- MODULE RabbitService ----------------------------
(***************************************************************************)
(* The service around one consumer (rabbitservice.go): the goroutines that *)
(* carry the consumer's errors to CentralErr and to the error handler, the *)
(* shutdown monitor, and the goroutines that call Shutdown, which run into *)
(* the consume loop of Consumer through StopConsuming and through the      *)
(* pool. Publisher.Shutdown, the first thing Shutdown does, is             *)
(* AutoPublisher's StopAutoPublish and touches nothing here.               *)
(***************************************************************************)
EXTENDS Consumer

CONSTANT CentralCap \* capacity of centralErr (1000 in the code)

ASSUME CentralCapAssumption == CentralCap \in Nat \ {0}

VARIABLES
    shutdown,       \* rs.shutdown
    shutdownSignal, \* a signal is buffered in rs.shutdownSignal
    centralErr,     \* errors buffered in rs.centralErr
    monitor,        \* monitorForShutdown: "run" or "ended"
    collector,      \* collectConsumerErrors: "poll", "send" or "ended"
    handler,        \* processErrors or invokeProcessError: "run" or "ended"
    call            \* where each call of Shutdown is

service == <<shutdown, shutdownSignal, centralErr, monitor, collector, handler>>
serviceVars == <<vars, service, call>>

ServiceInit ==
    /\ Init
    /\ shutdown = FALSE /\ shutdownSignal = FALSE
    /\ centralErr = 0
    /\ monitor = "run" /\ collector = "poll" /\ handler = "run"
    /\ call = [s \in Stoppers |-> "idle"]

-----------------------------------------------------------------------------
(* The service's goroutines                                                *)

MonitorForShutdown ==
    /\ monitor = "run" /\ shutdownSignal
    /\ shutdown' = TRUE
    /\ shutdownSignal' = FALSE
    /\ monitor' = "ended"
    /\ UNCHANGED <<vars, centralErr, collector, handler, call>>

CollectorSeesNoShutdown == FALSE

CollectorSeesShutdown == shutdown

\* The collector looks at the shutdown flag, then at the consumer's errors.
CollectConsumerErrors ==
    /\ collector = "poll"
    /\ IF CollectorSeesShutdown
         THEN collector' = "ended" /\ UNCHANGED errors
         ELSE /\ errors > 0
              /\ errors' = errors - 1
              /\ collector' = "send"
    /\ UNCHANGED <<config, conLock, started, consumeStop, received, loops, stop, pool, stream,
                   broker, kept, history, shutdown, shutdownSignal, centralErr, monitor,
                   handler, call>>

\* rs.centralErr <- err
SendCentralErr ==
    /\ collector = "send"
    /\ centralErr < CentralCap
    /\ centralErr' = centralErr + 1
    /\ collector' = "poll"
    /\ UNCHANGED <<vars, shutdown, shutdownSignal, monitor, handler, call>>

HandlesNoError == centralErr

HandlesError == centralErr - 1

ProcessErrors ==
    /\ handler = "run"
    /\ IF shutdown
         THEN handler' = "ended" /\ UNCHANGED centralErr
         ELSE centralErr > 0 /\ centralErr' = HandlesError /\ UNCHANGED handler
    /\ UNCHANGED <<vars, shutdown, shutdownSignal, monitor, collector, call>>

-----------------------------------------------------------------------------
(* Shutdown                                                                *)

CallGoto(s, label) == call' = [call EXCEPT ![s] = label]

Shutdown(s) ==
    /\ call[s] = "idle"
    /\ CallGoto(s, "signal")
    /\ UNCHANGED <<vars, service>>

\* The send blocks while the monitor has not taken an earlier signal.
SendShutdownSignal(s) ==
    /\ call[s] = "signal"
    /\ ~shutdownSignal
    /\ shutdownSignal' = TRUE
    /\ \E stopConsumers \in BOOLEAN : CallGoto(s, IF stopConsumers THEN "consumers" ELSE "cache")
    /\ UNCHANGED <<vars, shutdown, centralErr, monitor, collector, handler>>

\* consumer.StopConsuming(true)
StopConsumer(s) ==
    /\ call[s] = "consumers"
    /\ \/ /\ StopConsuming(s) /\ stop'[s] = "sendFlush"
          /\ CallGoto(s, "stopping")
       \/ /\ conLock = None /\ ~started
          /\ CallGoto(s, "cache")
          /\ UNCHANGED vars
    /\ UNCHANGED service

ConsumerStopped(s) ==
    /\ call[s] = "stopping"
    /\ \/ StopStep(s) /\ UNCHANGED call
       \/ stop[s] = "done" /\ CallGoto(s, "cache") /\ UNCHANGED vars
    /\ UNCHANGED service

\* ConnectionPool.Shutdown closes what is in the cache, and then every
\* connection, both without an error.
CloseCache(s) ==
    /\ call[s] = "cache"
    /\ Die({c \in Range(channels) : life[c] = "open"}, "closed")
    /\ channels' = <<>>
    /\ CallGoto(s, "connections")
    /\ UNCHANGED <<config, conLock, started, consumeStop, errors, loop, hold, stop, settled,
                   history, service>>

CloseConnections(s) ==
    /\ call[s] = "connections"
    /\ Die({c \in Chans : life[c] = "open"}, "closed")
    /\ CallGoto(s, "done")
    /\ UNCHANGED <<config, conLock, started, consumeStop, errors, loop, hold, stop, channels,
                   settled, history, service>>

CallStep(s) ==
    \/ SendShutdownSignal(s) \/ StopConsumer(s) \/ ConsumerStopped(s)
    \/ CloseCache(s) \/ CloseConnections(s)

-----------------------------------------------------------------------------
ConsumerStep ==
    \/ \E i \in Loops : StartConsuming(i) \/ LoopStep(i) \/ GetChannel(i) \/ LoopExit(i)
    \/ Application \/ Broker

ServiceNext ==
    \/ ConsumerStep /\ UNCHANGED <<service, call>>
    \/ MonitorForShutdown \/ CollectConsumerErrors \/ SendCentralErr \/ ProcessErrors
    \/ \E s \in Stoppers : Shutdown(s) \/ CallStep(s)

\* Every goroutine keeps running; nobody is obliged to call StartConsuming or
\* Shutdown or to take messages. Calls are few, so weak fairness is enough for
\* a goroutine that waits for conLock.
ServiceFairness ==
    /\ \A i \in Loops :
         WF_serviceVars((LoopStep(i) \/ GetChannel(i) \/ LoopExit(i)) /\ UNCHANGED <<service, call>>)
    /\ \A s \in Stoppers : WF_serviceVars(CallStep(s))
    /\ WF_serviceVars(MonitorForShutdown)
    /\ WF_serviceVars(CollectConsumerErrors \/ SendCentralErr)
    /\ WF_serviceVars(ProcessErrors)

ServiceSpec == ServiceInit /\ [][ServiceNext]_serviceVars /\ ServiceFairness

-----------------------------------------------------------------------------
(* Properties                                                              *)

\* The loop waits for what nobody will give it after Shutdown: a channel of
\* the emptied cache, or room in errors.
Stranded(i) == loop[i] # "hand" /\ Blocked(i)

\* Shutdown(true) ends the consume loop, whatever it is doing and however full
\* receivedMessages is, unless the loop is stranded.
ShutdownEndsLoop ==
    (\E s \in Stoppers : call[s] = "stopping")
        ~> \A i \in Loops : ~Alive(i) \/ Stranded(i)

\* Two calls of Shutdown both return: the second signal stays in the buffer,
\* and the second StopConsuming finds a loop that ends. The exception is a
\* stranded loop, which takes no signal.
ShutdownReturns ==
    <>[](\/ \A s \in Stoppers : call[s] \in {"idle", "done"}
         \/ \E i \in Loops : Stranded(i))

\* Every error the consume loop reports reaches the error handler, so that a
\* full buffer never blocks the loop for good, until Shutdown ends the handler.
ErrorsReachHandler ==
    errors > 0 \/ collector = "send" \/ centralErr > 0
        ~> shutdown \/ (errors = 0 /\ collector # "send" /\ centralErr = 0)

\* After Shutdown the service's goroutines end; the collector may be left
\* with an error for a full centralErr that nobody reads any more.
GoroutinesEnd ==
    shutdown ~> /\ monitor = "ended" /\ handler = "ended"
                /\ collector = "ended" \/ (collector = "send" /\ centralErr = CentralCap)
=============================================================================
