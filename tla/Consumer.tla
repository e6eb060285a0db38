------------------------------ MODULE Consumer ------------------------------
(***************************************************************************)
(* One Consumer (consumer.go): the loops StartConsuming starts, the        *)
(* goroutines that call StopConsuming, the application that takes the      *)
(* received messages and answers them (message.go), and the broker.        *)
(*                                                                         *)
(* The pool appears as what ConnectionPool shows of it: a FIFO cache of    *)
(* channels, each lent to one goroutine, an erred one reopened when it is  *)
(* returned. A delivery is a message with the amqp.Channel it came on;     *)
(* when that channel dies the delivery's channel becomes None. The zero    *)
(* delivery of a closed Go channel is <<None, None>>.                      *)
(***************************************************************************)
EXTENDS Naturals, Sequences, FiniteSets, Functions

CONSTANTS Messages,  \* messages in the queue the consumer reads
          AutoAcks, HasActions, \* the settings to check, sets of Booleans
          Chans,     \* cached channels
          Stoppers,  \* goroutines that call StopConsuming once
          None,
          MaxStarts, \* bound: calls of StartConsuming
          BufCap,    \* capacity of receivedMessages (1000 in the code)
          ErrCap,    \* capacity of errors (1000 in the code)
          Prefetch,  \* qosCountOverride; 0 sets no limit
          MaxDeaths, \* bound: channels the broker or the network closes
          MaxCancels \* bound: subscriptions the broker cancels

ASSUME NamesAssumption == None \notin Messages \cup Chans \cup Stoppers

\* The pool caches MaxCacheChannelCount channels.
ASSUME ChansAssumption == IsFiniteSet(Chans)

ASSUME SizesAssumption ==
    /\ AutoAcks \subseteq BOOLEAN /\ HasActions \subseteq BOOLEAN
    /\ MaxStarts \in Nat \ {0}
    /\ BufCap \in Nat \ {0}
    /\ ErrCap \in Nat \ {0}
    /\ Prefetch \in Nat
    /\ MaxDeaths \in Nat
    /\ MaxCancels \in Nat

Loops == 1 .. MaxStarts
Deliveries == (Messages \cup {None}) \X (Chans \cup {None})
Zero == <<None, None>>

VARIABLES
    autoAck, hasAction, \* the configuration, and whether there is an action
    conLock,     \* the goroutine that holds con.conLock
    started,     \* con.started
    consumeStop, \* a signal is buffered in con.consumeStop
    errors,      \* errors buffered in con.errors
    received,    \* the buffer of con.receivedMessages
    loop,        \* where each consume loop is
    hold,        \* the channel a loop has taken from the cache
    hand,        \* the delivery a loop is about to hand over
    stop,        \* where each call of StopConsuming is
    channels,    \* the pool's cache
    life,        \* each cached channel: "open", "erred" or "closed"
    subscribed,  \* channels on which the broker knows the consumer's tag
    cancelled,   \* channels whose subscription the broker has cancelled
    deliveries,  \* messages buffered in each channel's delivery channel
    ready,       \* messages the broker can deliver
    unacked,     \* messages the broker awaits an answer for on a channel
    settled,     \* messages the broker has forgotten
    kept,        \* deliveries the application has and may still answer
    overlapped,  \* a loop was started while another one was running (history)
    deaths, cancels \* what the bounds count

config == <<autoAck, hasAction>>
fields == <<conLock, started, consumeStop, errors, received>>
loops == <<loop, hold, hand>>
pool == <<channels, life>>
stream == <<subscribed, cancelled, deliveries>>
broker == <<ready, unacked, settled>>
history == <<overlapped, deaths, cancels>>
vars == <<config, fields, loops, stop, pool, stream, broker, kept, history>>

TypeOK ==
    /\ autoAck \in BOOLEAN /\ hasAction \in BOOLEAN
    /\ conLock \in Stoppers \cup {None}
    /\ started \in BOOLEAN
    /\ consumeStop \in BOOLEAN
    /\ errors \in 0 .. ErrCap
    /\ received \in Seq(Deliveries) /\ Len(received) <= BufCap
    /\ loop \in [Loops -> {"unborn", "check", "get", "consume", "failed", "error",
                           "report", "read", "hand", "stop", "exit", "dead"}]
    /\ hold \in [Loops -> Chans \cup {None}]
    /\ hand \in [Loops -> Deliveries]
    /\ stop \in [Stoppers -> {"idle", "send", "sendFlush", "flush", "done"}]
    /\ channels \in Seq(Chans)
    /\ life \in [Chans -> {"open", "erred", "closed"}]
    /\ subscribed \subseteq Chans /\ cancelled \subseteq Chans
    /\ deliveries \in [Chans -> Seq(Messages)]
    /\ ready \subseteq Messages /\ settled \subseteq Messages
    /\ unacked \in [Chans -> SUBSET Messages]
    /\ kept \subseteq Deliveries
    /\ overlapped \in BOOLEAN
    /\ deaths \in 0 .. MaxDeaths /\ cancels \in 0 .. MaxCancels

Init ==
    /\ autoAck \in AutoAcks /\ hasAction \in HasActions
    /\ conLock = None
    /\ started = FALSE
    /\ consumeStop = FALSE
    /\ errors = 0
    /\ received = <<>>
    /\ loop = [i \in Loops |-> "unborn"]
    /\ hold = [i \in Loops |-> None]
    /\ hand = [i \in Loops |-> Zero]
    /\ stop = [s \in Stoppers |-> "idle"]
    /\ channels \in {q \in [1 .. Cardinality(Chans) -> Chans] : IsInjective(q)}
    /\ life = [c \in Chans |-> "open"]
    /\ subscribed = {} /\ cancelled = {}
    /\ deliveries = [c \in Chans |-> <<>>]
    /\ ready = Messages /\ settled = {}
    /\ unacked = [c \in Chans |-> {}]
    /\ kept = {}
    /\ overlapped = FALSE
    /\ deaths = 0 /\ cancels = 0

Alive(i) == loop[i] \notin {"unborn", "dead"}

Goto(i, label) == loop' = [loop EXCEPT ![i] = label]

-----------------------------------------------------------------------------
(* Channels, as the library and the broker treat them                      *)

\* Channels die: what is buffered is dropped, the broker takes back what was
\* not answered, and the deliveries handed out can no longer be answered.
Die(dead, how) ==
    LET Stale(d) == IF d[2] \in dead THEN <<d[1], None>> ELSE d IN
      /\ life' = [c \in Chans |-> IF c \in dead THEN how ELSE life[c]]
      /\ deliveries' = [c \in Chans |-> IF c \in dead THEN <<>> ELSE deliveries[c]]
      /\ ready' = ready \cup UNION {unacked[c] : c \in dead}
      /\ unacked' = [c \in Chans |-> IF c \in dead THEN {} ELSE unacked[c]]
      /\ subscribed' = subscribed \ dead
      /\ cancelled' = cancelled \ dead
      /\ received' = [n \in DOMAIN received |-> Stale(received[n])]
      /\ kept' = {Stale(d) : d \in kept}
      /\ hand' = [i \in Loops |-> Stale(hand[i])]

\* A receive from the delivery channel finds it closed, once it is empty.
DeliveriesClosed(c) == life[c] # "open" \/ c \in cancelled

ReopenedNever(c) == life

\* ReturnChannel(chanHost, true) puts a new amqp.Channel into the host.
Reopened(c) == [life EXCEPT ![c] = "open"]

ReturnedNever(c) == channels

\* The channel is back in the cache.
Returned(c) == Append(channels, c)

ReturnErred(i) ==
    /\ life' = Reopened(hold[i])
    /\ channels' = Returned(hold[i])
    /\ hold' = [hold EXCEPT ![i] = None]

-----------------------------------------------------------------------------
(* StartConsuming and startConsumeLoop                                     *)

\* FlushErrors, FlushStop, a new loop and started, under conLock.
StartConsuming(i) ==
    /\ conLock = None
    /\ loop[i] = "unborn"
    /\ errors' = 0
    /\ consumeStop' = FALSE
    /\ started' = TRUE
    /\ Goto(i, "check")
    /\ overlapped' = (overlapped \/ \E j \in Loops : Alive(j))
    /\ UNCHANGED <<config, conLock, received, hold, hand, stop, pool, stream, broker,
                   kept, deaths, cancels>>

\* The stop signal at the head of the loop.
CheckStop(i) ==
    /\ loop[i] = "check"
    /\ consumeStop' = FALSE
    /\ Goto(i, IF consumeStop THEN "exit" ELSE "get")
    /\ UNCHANGED <<config, conLock, started, errors, received, hold, hand, stop, pool,
                   stream, broker, kept, history>>

\* GetChannelFromPool
GetChannel(i) ==
    /\ loop[i] = "get"
    /\ channels # <<>>
    /\ hold' = [hold EXCEPT ![i] = Head(channels)]
    /\ channels' = Tail(channels)
    /\ Goto(i, "consume")
    /\ UNCHANGED <<config, fields, hand, stop, life, stream, broker, kept, history>>

\* Qos and Consume succeed.
Consume(i) ==
    /\ loop[i] = "consume"
    /\ life[hold[i]] = "open" /\ hold[i] \notin subscribed
    /\ subscribed' = subscribed \cup {hold[i]}
    /\ cancelled' = cancelled \ {hold[i]}
    /\ Goto(i, "error")
    /\ UNCHANGED <<config, fields, hold, hand, stop, pool, deliveries, broker, kept, history>>

\* Qos or Consume fails: the channel is dead, the broker refuses and closes
\* it, or the consumer's tag is in use on it and the broker closes the whole
\* connection.
ConsumeFails(i) ==
    /\ loop[i] = "consume"
    /\ LET c == hold[i] IN
         \/ life[c] # "open" /\ Die({}, "erred") /\ UNCHANGED deaths
         \/ /\ life[c] = "open" /\ c \in subscribed
            /\ Die({b \in Chans : life[b] = "open"}, "erred") /\ UNCHANGED deaths
         \/ /\ life[c] = "open" /\ c \notin subscribed /\ deaths < MaxDeaths
            /\ Die({c}, "erred") /\ deaths' = deaths + 1
    /\ Goto(i, "failed")
    /\ UNCHANGED <<config, conLock, started, consumeStop, errors, hold, stop, channels,
                   settled, overlapped, cancels>>

\* errFunc
ErrFunc(i) ==
    /\ loop[i] = "failed"
    /\ ReturnErred(i)
    /\ Goto(i, "check")
    /\ UNCHANGED <<config, fields, hand, stop, stream, broker, kept, history>>

\* The loop ends.
LoopExit(i) ==
    /\ loop[i] = "exit"
    /\ conLock = None
    /\ started' = FALSE
    /\ Goto(i, "dead")
    /\ UNCHANGED <<config, conLock, consumeStop, errors, received, hold, hand, stop, pool,
                   stream, broker, kept, history>>

-----------------------------------------------------------------------------
(* processDeliveries                                                       *)

ErrorMissed(c) == FALSE

\* A receive from chanHost.Errors yields an error. The library closes Errors
\* with no error after a graceful close, which the code takes for no error.
ErrorReady(c) == life[c] = "erred"

\* The first select.
SelectError(i) ==
    /\ loop[i] = "error"
    /\ IF ErrorReady(hold[i])
         THEN ReturnErred(i) /\ Goto(i, "report")
         ELSE Goto(i, "read") /\ UNCHANGED <<hold, pool>>
    /\ UNCHANGED <<config, fields, hand, stop, stream, broker, kept, history>>

\* The send to con.errors, which blocks when the buffer is full.
ReportError(i) ==
    /\ loop[i] = "report"
    /\ errors < ErrCap
    /\ errors' = errors + 1
    /\ Goto(i, "check")
    /\ UNCHANGED <<config, conLock, started, consumeStop, received, hold, hand, stop, pool,
                   stream, broker, kept, history>>

\* The second select: a delivery, the zero delivery of a closed channel, or
\* nothing.
SelectRead(i) ==
    /\ loop[i] = "read"
    /\ LET c == hold[i] IN
         \/ /\ deliveries[c] # <<>>
            /\ hand' = [hand EXCEPT ![i] = <<Head(deliveries[c]), c>>]
            /\ deliveries' = [deliveries EXCEPT ![c] = Tail(@)]
            /\ Goto(i, "hand")
         \/ /\ deliveries[c] = <<>>
            /\ hand' = [hand EXCEPT ![i] = Zero]
            /\ Goto(i, IF DeliveriesClosed(c) THEN "hand" ELSE "stop")
            /\ UNCHANGED deliveries
    /\ UNCHANGED <<config, fields, hold, stop, pool, subscribed, cancelled, broker, kept,
                   history>>

\* NewReceivedMessage: what the application can answer. A message that was
\* acknowledged on delivery is not ackable, a zero delivery has no
\* acknowledger.
Answerable(d) == IF autoAck \/ d = Zero THEN {} ELSE {d}

RoomForOneMore == Len(received) <= BufCap

Room == Len(received) < BufCap

\* action(NewReceivedMessage(...)), or the send to con.receivedMessages.
HandOver(i) ==
    /\ loop[i] = "hand"
    /\ IF hasAction
         THEN kept' = kept \cup Answerable(hand[i]) /\ UNCHANGED received
         ELSE Room /\ received' = Append(received, hand[i]) /\ UNCHANGED kept
    /\ hand' = [hand EXCEPT ![i] = Zero]
    /\ Goto(i, "stop")
    /\ UNCHANGED <<config, conLock, started, consumeStop, errors, hold, stop, pool, stream,
                   broker, history>>

\* The third select: the channel goes back as it is, its subscription too.
SelectStop(i) ==
    /\ loop[i] = "stop"
    /\ consumeStop' = FALSE
    /\ IF consumeStop
         THEN /\ channels' = Returned(hold[i])
              /\ hold' = [hold EXCEPT ![i] = None]
              /\ Goto(i, "exit")
         ELSE Goto(i, "error") /\ UNCHANGED <<channels, hold>>
    /\ UNCHANGED <<config, conLock, started, errors, received, hand, stop, life, stream,
                   broker, kept, history>>

-----------------------------------------------------------------------------
(* StopConsuming                                                           *)

StoppableAlways == TRUE

Stoppable == started

\* A call takes conLock, and returns at once if the consumer is not started.
StopConsuming(s) ==
    /\ stop[s] = "idle"
    /\ conLock = None
    /\ Stoppable
    /\ conLock' = s
    /\ \E label \in {"send", "sendFlush"} : stop' = [stop EXCEPT ![s] = label]
    /\ UNCHANGED <<config, started, consumeStop, errors, received, loops, pool, stream,
                   broker, kept, history>>

SendForgetsFlush(s) == "done"

SendThen(s) == IF stop[s] = "sendFlush" THEN "flush" ELSE "done"

StartedAfterSend(s) == FALSE

\* started is left to the loop.
StartedAfter(s) == started

\* The send to con.consumeStop blocks, with conLock, when the buffer is full.
SendStop(s) ==
    /\ stop[s] \in {"send", "sendFlush"}
    /\ ~consumeStop
    /\ consumeStop' = TRUE
    /\ started' = StartedAfter(s)
    /\ stop' = [stop EXCEPT ![s] = SendThen(s)]
    /\ conLock' = IF SendThen(s) = "done" THEN None ELSE s
    /\ UNCHANGED <<config, errors, received, loops, pool, stream, broker, kept, history>>

\* One iteration of FlushMessages, or its end.
FlushMessages(s) ==
    /\ stop[s] = "flush"
    /\ IF received # <<>>
         THEN received' = Tail(received) /\ UNCHANGED <<conLock, stop>>
         ELSE /\ conLock' = None
              /\ stop' = [stop EXCEPT ![s] = "done"]
              /\ UNCHANGED received
    /\ UNCHANGED <<config, started, consumeStop, errors, loops, pool, stream, broker, kept,
                   history>>

-----------------------------------------------------------------------------
(* The application                                                         *)

\* It takes a message from ReceivedMessages().
ReceiveMessage ==
    /\ received # <<>>
    /\ received' = Tail(received)
    /\ kept' = kept \cup Answerable(Head(received))
    /\ UNCHANGED <<config, conLock, started, consumeStop, errors, loops, stop, pool, stream,
                   broker, history>>

\* It, or the service, takes an error from Errors().
ReceiveError ==
    /\ errors > 0
    /\ errors' = errors - 1
    /\ UNCHANGED <<config, conLock, started, consumeStop, received, loops, stop, pool, stream,
                   broker, kept, history>>

AnswerCountsAnyway(d) == TRUE

\* The answer goes out on the channel the message came on, or fails.
AnswerCounts(d) == d[2] # None

Answer(d, requeue) ==
    /\ d \in kept
    /\ kept' = kept \ {d}
    /\ IF AnswerCounts(d)
         THEN /\ unacked' = [c \in Chans |-> IF c = d[2] THEN unacked[c] \ {d[1]} ELSE unacked[c]]
              /\ IF requeue THEN ready' = ready \cup {d[1]} /\ UNCHANGED settled
                            ELSE settled' = settled \cup {d[1]} /\ UNCHANGED ready
         ELSE UNCHANGED broker
    /\ UNCHANGED <<config, fields, loops, stop, pool, stream, history>>

Acknowledge(d) == Answer(d, FALSE)

Nack(d) == \E requeue \in BOOLEAN : Answer(d, requeue)

Reject(d) == \E requeue \in BOOLEAN : Answer(d, requeue)

\* Get takes a message of the queue on a transient channel.
Get(m) ==
    /\ m \in ready
    /\ ready' = ready \ {m}
    /\ settled' = settled \cup {m}
    /\ UNCHANGED <<config, fields, loops, stop, pool, stream, unacked, kept, history>>

-----------------------------------------------------------------------------
(* The broker and the network                                              *)

Deliver(c, m) ==
    /\ life[c] = "open" /\ c \in subscribed
    /\ m \in ready
    /\ autoAck \/ Prefetch = 0 \/ Cardinality(unacked[c]) < Prefetch
    /\ deliveries' = [deliveries EXCEPT ![c] = Append(@, m)]
    /\ ready' = ready \ {m}
    /\ unacked' = [unacked EXCEPT ![c] = IF autoAck THEN @ ELSE @ \cup {m}]
    /\ settled' = IF autoAck THEN settled \cup {m} ELSE settled
    /\ UNCHANGED <<config, fields, loops, stop, pool, subscribed, cancelled, kept, history>>

\* The broker cancels the subscription: its queue was deleted.
ServerCancels(c) ==
    /\ life[c] = "open" /\ c \in subscribed
    /\ cancels < MaxCancels
    /\ cancels' = cancels + 1
    /\ subscribed' = subscribed \ {c}
    /\ cancelled' = cancelled \cup {c}
    /\ UNCHANGED <<config, fields, loops, stop, pool, deliveries, broker, kept, overlapped,
                   deaths>>

\* A channel is closed with an error.
ChannelDies(c) ==
    /\ life[c] = "open"
    /\ deaths < MaxDeaths
    /\ Die({c}, "erred")
    /\ deaths' = deaths + 1
    /\ UNCHANGED <<config, conLock, started, consumeStop, errors, loop, hold, stop, channels,
                   settled, overlapped, cancels>>

-----------------------------------------------------------------------------
LoopStep(i) ==
    \/ CheckStop(i) \/ Consume(i) \/ ConsumeFails(i) \/ ErrFunc(i)
    \/ SelectError(i) \/ ReportError(i) \/ SelectRead(i) \/ HandOver(i) \/ SelectStop(i)

StopStep(s) == SendStop(s) \/ FlushMessages(s)

Application ==
    \/ ReceiveMessage
    \/ \E d \in kept : Acknowledge(d) \/ Nack(d) \/ Reject(d)
    \/ \E m \in ready : Get(m)

Broker ==
    \E c \in Chans :
        \/ \E m \in ready : Deliver(c, m)
        \/ ServerCancels(c) \/ ChannelDies(c)

Next ==
    \/ \E i \in Loops : StartConsuming(i) \/ LoopStep(i) \/ GetChannel(i) \/ LoopExit(i)
    \/ \E s \in Stoppers : StopConsuming(s) \/ StopStep(s)
    \/ ReceiveError
    \/ Application \/ Broker

\* Goroutines keep running, the cache and conLock serve their waiters, and
\* collectConsumerErrors reads the errors. Nobody is obliged to call, to take
\* messages or to answer them.
Fairness ==
    /\ \A i \in Loops : WF_vars(LoopStep(i)) /\ SF_vars(GetChannel(i)) /\ SF_vars(LoopExit(i))
    /\ \A s \in Stoppers : WF_vars(StopStep(s))
    /\ WF_vars(ReceiveError)

Spec == Init /\ [][Next]_vars /\ Fairness

-----------------------------------------------------------------------------
(* Properties                                                              *)

\* An ackable message is always in exactly one place at the broker: ready,
\* awaiting an answer on one channel, or settled by an answer that counted.
\* Stops, flushed buffers and dead channels never lose it, and a late answer to
\* a delivery of a dead channel never settles the copy that was redelivered.
AckableNeverLost ==
    ~autoAck => \A m \in Messages :
        Cardinality({c \in Chans : m \in unacked[c]})
        + (IF m \in ready THEN 1 ELSE 0) + (IF m \in settled THEN 1 ELSE 0) = 1

\* Every channel is in the cache or in the hands of one running loop, on every
\* path through errors, refusals and stops.
ChannelsComeBack ==
    /\ IsInjective(channels)
    /\ \A c \in Chans :
         Cardinality({i \in Loops : hold[i] = c}) + (IF c \in Range(channels) THEN 1 ELSE 0) = 1
    /\ \A i \in Loops : ~Alive(i) => hold[i] = None

\* Started() is TRUE for as long as a loop runs, so StopConsuming reaches it,
\* unless StartConsuming was called while a loop was running.
StartedWhileRunning ==
    ~overlapped => \A i \in Loops : Alive(i) => started

\* A stop ends the loop unless another start takes the signal away: the loop
\* gets out of a full receivedMessages when the messages are flushed, and out
\* of everything else by itself.
StopEndsLoop ==
    \A s \in Stoppers :
        stop[s] = "sendFlush" \/ (stop[s] = "send" /\ hasAction)
            ~> overlapped \/ \A i \in Loops : ~Alive(i)

\* The loop waits for others: for a message or an error to be taken, or for a
\* channel to come back.
Blocked(i) ==
    \/ loop[i] = "hand" /\ ~hasAction /\ ~Room
    \/ loop[i] = "report" /\ errors = ErrCap
    \/ loop[i] = "get" /\ channels = <<>>

\* A loop whose channel dies gets a subscription on an open channel again, or
\* ends, or is blocked. The zero deliveries of the closed delivery channel do
\* not hold it up.
ConsumerRecovers ==
    \A i \in Loops :
        hold[i] # None /\ life[hold[i]] = "erred"
            ~> \/ ~Alive(i) \/ Blocked(i)
               \/ hold[i] \in subscribed /\ life[hold[i]] = "open"
=============================================================================
