--------------------------- MODULE ConsumerProofs ---------------------------
(***************************************************************************)
(* Proofs about Consumer, for any number of messages, channels, calls of   *)
(* StartConsuming and StopConsuming, deaths and cancellations: started     *)
(* tells the truth, no channel is lost, and no ackable message is lost or  *)
(* settled by an answer to an earlier delivery of it. The first and the    *)
(* last are proved of RabbitService too, where Shutdown closes channels.   *)
(***************************************************************************)
EXTENDS RabbitService, ShelfTheorems

-----------------------------------------------------------------------------
(* The inductive invariant, in parts                                       *)

\* What can be handed around: a message, with the channel it came on or None,
\* or the zero delivery. No delivery has a channel and no message.
Genuine == (Messages \X (Chans \cup {None})) \cup {Zero}

DeliveryInv ==
    /\ hand \in [Loops -> Genuine]
    /\ received \in Seq(Genuine)
    /\ kept \subseteq Genuine

\* Without overlapping starts there is one loop at most, and started is TRUE
\* while it runs.
StartInv ==
    ~overlapped => /\ \A i, j \in Loops : Alive(i) /\ Alive(j) => i = j
                   /\ \A i \in Loops : Alive(i) => started

\* A loop has a channel from GetChannelFromPool to ReturnChannel.
Holding == {"consume", "failed", "error", "read", "hand", "stop"}

HoldInv ==
    /\ IsInjective(channels)
    /\ \A i \in Loops : hold[i] # None <=> loop[i] \in Holding
    /\ \A i, j \in Loops : hold[i] # None /\ hold[i] = hold[j] => i = j
    /\ \A i \in Loops : hold[i] \notin Range(channels)

\* Every channel is in the cache or in a loop's hands (until a Shutdown).
Covered == \A c \in Chans : c \in Range(channels) \/ \E i \in Loops : hold[i] = c

\* The broker has an ackable message in one place.
OnePlace(m) ==
    /\ \/ m \in ready \/ m \in settled
       \/ \E c \in Chans : m \in unacked[c]
    /\ ~(m \in ready /\ m \in settled)
    /\ \A c \in Chans : m \in unacked[c] =>
         /\ m \notin ready /\ m \notin settled
         /\ \A b \in Chans : m \in unacked[b] => b = c

BrokerInv == ~autoAck => \A m \in Messages : OnePlace(m)

\* The client has at most one copy of the delivery of m on c, and only while
\* the broker waits for its answer: in the buffer of the delivery channel, in
\* the hand of a loop, in receivedMessages, or with the application.
InBuffer(m, c) == m \in Range(deliveries[c])

InHand(m, c) == \E i \in Loops : hand[i] = <<m, c>>

InReceived(m, c) == <<m, c>> \in Range(received)

InKept(m, c) == <<m, c>> \in kept

Once(s, x) == \A n, k \in DOMAIN s : s[n] = x /\ s[k] = x => n = k

OneCopy(m, c) ==
    /\ InBuffer(m, c) \/ InHand(m, c) \/ InReceived(m, c) \/ InKept(m, c) => m \in unacked[c]
    /\ InBuffer(m, c) => ~InHand(m, c) /\ ~InReceived(m, c) /\ ~InKept(m, c)
    /\ InHand(m, c) => ~InReceived(m, c) /\ ~InKept(m, c)
    /\ InReceived(m, c) => ~InKept(m, c)
    /\ Once(deliveries[c], m) /\ Once(received, <<m, c>>)
    /\ \A i, j \in Loops : hand[i] = <<m, c>> /\ hand[j] = <<m, c>> => i = j

CopyInv == ~autoAck => \A m \in Messages, c \in Chans : OneCopy(m, c)

IInv ==
    /\ TypeOK /\ DeliveryInv /\ StartInv
    /\ HoldInv /\ BrokerInv /\ CopyInv

-----------------------------------------------------------------------------
(* Names and types                                                         *)

\* None is neither a message nor a channel, and a genuine delivery is one.
LEMMA Names ==
    /\ None \notin Messages /\ None \notin Chans /\ None \notin Stoppers
    /\ Genuine \subseteq Deliveries /\ Zero \in Genuine
    /\ \A d \in Genuine : d = <<d[1], d[2]>>
    /\ \A d \in Genuine : d[2] # None => d[1] \in Messages /\ d[2] \in Chans
    /\ \A m \in Messages, c \in Chans \cup {None} : <<m, c>> \in Genuine
BY NamesAssumption DEF Genuine, Deliveries, Zero

\* A death of channels keeps the types and the length of receivedMessages.
LEMMA DieTypes ==
    ASSUME TypeOK, DeliveryInv, NEW dead \in SUBSET Chans,
           NEW how \in {"open", "erred", "closed"}, Die(dead, how)
    PROVE  /\ life' \in [Chans -> {"open", "erred", "closed"}]
           /\ deliveries' \in [Chans -> Seq(Messages)]
           /\ ready' \subseteq Messages
           /\ unacked' \in [Chans -> SUBSET Messages]
           /\ subscribed' \subseteq Chans /\ cancelled' \subseteq Chans
           /\ DeliveryInv' /\ Len(received') = Len(received)
<1>1. life' \in [Chans -> {"open", "erred", "closed"}]
  BY DEF TypeOK, Die
<1>2. deliveries' \in [Chans -> Seq(Messages)]
  <2>1. <<>> \in Seq(Messages)
    BY EmptySeq
  <2>. QED
    BY <2>1 DEF TypeOK, Die
<1>3. ready' \subseteq Messages /\ unacked' \in [Chans -> SUBSET Messages]
  BY DEF TypeOK, Die
<1>4. subscribed' \subseteq Chans /\ cancelled' \subseteq Chans
  BY DEF TypeOK, Die
<1>. DEFINE Stale(d) == IF d[2] \in dead THEN <<d[1], None>> ELSE d
<1>5. \A d \in Genuine : Stale(d) \in Genuine
  BY Names
<1>6. /\ hand' = [i \in Loops |-> Stale(hand[i])]
      /\ kept' = {Stale(d) : d \in kept}
      /\ received' = [n \in DOMAIN received |-> Stale(received[n])]
  BY DEF Die
<1>. HIDE DEF Stale
<1>7. hand' \in [Loops -> Genuine] /\ kept' \subseteq Genuine
  BY <1>5, <1>6 DEF DeliveryInv
<1>8. received' \in Seq(Genuine) /\ Len(received') = Len(received)
  <2>1. DOMAIN received = 1 .. Len(received) /\ Len(received) \in Nat
    BY LenProperties DEF DeliveryInv
  <2>2. \A n \in 1 .. Len(received) : received[n] \in Genuine
    BY <2>1, ElementOfSeq DEF DeliveryInv
  <2>3. received' \in [1 .. Len(received) -> Genuine]
    BY <1>5, <1>6, <2>1, <2>2
  <2>. QED
    BY <2>1, <2>3, LenProperties
<1>. QED
  BY <1>1, <1>2, <1>3, <1>4, <1>7, <1>8 DEF DeliveryInv

\* What is genuine has the type TypeOK gives it.
LEMMA GenuineTyped ==
    ASSUME NEW h \in [Loops -> Genuine], NEW r \in Seq(Genuine), NEW k \in SUBSET Genuine
    PROVE  h \in [Loops -> Deliveries] /\ r \in Seq(Deliveries) /\ k \subseteq Deliveries
<1>1. r \in Seq(Deliveries)
  <2>1. r \in [1 .. Len(r) -> Genuine] /\ Len(r) \in Nat
    BY LenProperties
  <2>2. r \in [1 .. Len(r) -> Deliveries]
    BY <2>1, Names
  <2>. QED
    BY <2>1, <2>2
<1>. QED
  BY <1>1, Names

-----------------------------------------------------------------------------
(* Initial states                                                          *)

\* Every channel is in the cache and every message is ready.
LEMMA InitHolds == Init => IInv /\ Covered
<1>. SUFFICES ASSUME Init PROVE IInv /\ Covered
  OBVIOUS
<1>. USE Names
<1>0. <<>> \in Seq(Genuine) /\ <<>> \in Seq(Messages) /\ <<>> \in Seq(Deliveries) /\ Len(<<>>) = 0
      /\ Range(<<>>) = {} /\ DOMAIN <<>> = {}
  BY EmptySeq DEF Range
<1>1. DeliveryInv
  BY <1>0 DEF Init, DeliveryInv
<1>2. PICK n \in Nat : /\ n = Cardinality(Chans) /\ channels \in [1 .. n -> Chans]
                       /\ IsInjective(channels)
  BY ChansAssumption, FS_CardinalityType DEF Init
<1>3. channels \in Seq(Chans) /\ DOMAIN channels = 1 .. n
  BY <1>2
<1>4. Range(channels) = Chans
  <2>1. channels \in Injection(1 .. n, Chans)
    BY <1>2 DEF Injection, IsInjective
  <2>2. Cardinality(1 .. n) = n
    BY FS_Interval
  <2>3. channels \in Surjection(1 .. n, Chans)
    BY <1>2, <2>1, <2>2, ChansAssumption, FS_Injection
  <2>. QED
    BY <1>3, <2>3 DEF Surjection, Range
<1>5. TypeOK
  <2>1. errors \in 0 .. ErrCap /\ Len(received) <= BufCap
    BY <1>0, SizesAssumption DEF Init
  <2>2. deaths \in 0 .. MaxDeaths /\ cancels \in 0 .. MaxCancels
    BY SizesAssumption DEF Init
  <2>3. autoAck \in BOOLEAN /\ hasAction \in BOOLEAN
    BY SizesAssumption DEF Init
  <2>4. deliveries \in [Chans -> Seq(Messages)] /\ unacked \in [Chans -> SUBSET Messages]
    BY <1>0 DEF Init
  <2>5. /\ hand \in [Loops -> Deliveries] /\ received \in Seq(Deliveries)
        /\ kept \subseteq Deliveries
    BY <1>1, GenuineTyped DEF DeliveryInv
  <2>. QED
    BY <1>3, <2>1, <2>2, <2>3, <2>4, <2>5 DEF Init, TypeOK
<1>6. StartInv
  BY DEF Init, StartInv, Alive
<1>7. HoldInv /\ Covered
  BY <1>2, <1>3, <1>4 DEF Init, HoldInv, Holding, Covered
<1>8. BrokerInv
  BY DEF Init, BrokerInv, OnePlace
<1>9. CopyInv
  <2>. SUFFICES ASSUME NEW m \in Messages, NEW c \in Chans PROVE OneCopy(m, c)
    BY DEF CopyInv
  <2>1. <<m, c>> # Zero
    BY DEF Zero
  <2>2. ~InBuffer(m, c) /\ ~InHand(m, c) /\ ~InReceived(m, c) /\ ~InKept(m, c)
    BY <1>0, <2>1 DEF Init, InBuffer, InHand, InReceived, InKept
  <2>3. DOMAIN deliveries[c] = {} /\ DOMAIN received = {}
    BY <1>0 DEF Init
  <2>4. \A i \in Loops : hand[i] # <<m, c>>
    BY <2>1 DEF Init
  <2>. QED
    BY <2>2, <2>3, <2>4 DEF OneCopy, Once
<1>. QED
  BY <1>1, <1>5, <1>6, <1>7, <1>8, <1>9 DEF IInv

-----------------------------------------------------------------------------
(* Types are kept                                                          *)

\* A loop's step keeps the types: buffers stay within their capacities.
LEMMA LoopTypes ==
    ASSUME IInv, NEW i \in Loops,
           StartConsuming(i) \/ LoopStep(i) \/ GetChannel(i) \/ LoopExit(i)
    PROVE  TypeOK' /\ DeliveryInv'
<1>. USE Names DEF config, fields, pool, stream, broker, history, loops, Goto
<1>0. TypeOK /\ DeliveryInv /\ HoldInv
  BY DEF IInv
<1>1. ASSUME UNCHANGED <<hand, received, kept>> PROVE DeliveryInv'
  BY <1>0, <1>1 DEF DeliveryInv
<1>2. ASSUME loop[i] \in Holding PROVE hold[i] \in Chans
  BY <1>0, <1>2 DEF HoldInv, TypeOK
<1>3. ASSUME hold[i] \in Chans PROVE Returned(hold[i]) \in Seq(Chans)
  BY <1>0, <1>3, AppendProperties DEF Returned, TypeOK
<1>4. CASE StartConsuming(i)
  <2>1. errors' \in 0 .. ErrCap
    BY <1>4, SizesAssumption DEF StartConsuming
  <2>2. overlapped' \in BOOLEAN
    BY <1>4 DEF StartConsuming
  <2>. QED
    BY <1>0, <1>1, <1>4, <2>1, <2>2 DEF StartConsuming, TypeOK
<1>5. CASE CheckStop(i)
  BY <1>0, <1>1, <1>5 DEF CheckStop, TypeOK
<1>6. CASE GetChannel(i)
  <2>1. Head(channels) \in Chans /\ Tail(channels) \in Seq(Chans)
    BY <1>0, <1>6, HeadTailProperties DEF GetChannel, TypeOK
  <2>. QED
    BY <1>0, <1>1, <1>6, <2>1 DEF GetChannel, TypeOK
<1>7. CASE Consume(i)
  <2>1. hold[i] \in Chans
    BY <1>2, <1>7 DEF Consume, Holding
  <2>. QED
    BY <1>0, <1>1, <1>7, <2>1 DEF Consume, TypeOK
<1>8. CASE ConsumeFails(i)
  <2>1. hold[i] \in Chans
    BY <1>2, <1>8 DEF ConsumeFails, Holding
  <2>2. deaths' \in 0 .. MaxDeaths
    BY <1>0, <1>8, SizesAssumption DEF ConsumeFails, TypeOK
  <2>3. PICK dead \in SUBSET Chans : Die(dead, "erred")
    BY <1>8, <2>1 DEF ConsumeFails
  <2>4. /\ DeliveryInv' /\ Len(received') = Len(received)
        /\ life' \in [Chans -> {"open", "erred", "closed"}]
        /\ deliveries' \in [Chans -> Seq(Messages)]
        /\ ready' \subseteq Messages
        /\ unacked' \in [Chans -> SUBSET Messages]
        /\ subscribed' \subseteq Chans /\ cancelled' \subseteq Chans
    BY <1>0, <2>3, DieTypes
  <2>5. /\ hand' \in [Loops -> Deliveries] /\ received' \in Seq(Deliveries)
        /\ kept' \subseteq Deliveries
    BY <2>4, GenuineTyped DEF DeliveryInv
  <2>. QED
    BY <1>0, <1>8, <2>2, <2>4, <2>5 DEF ConsumeFails, TypeOK
<1>9. CASE ErrFunc(i)
  <2>1. hold[i] \in Chans
    BY <1>2, <1>9 DEF ErrFunc, Holding
  <2>. QED
    BY <1>0, <1>1, <1>3, <1>9, <2>1 DEF ErrFunc, ReturnErred, Reopened, TypeOK
<1>10. CASE LoopExit(i)
  BY <1>0, <1>1, <1>10 DEF LoopExit, TypeOK
<1>11. CASE SelectError(i)
  <2>1. hold[i] \in Chans
    BY <1>2, <1>11 DEF SelectError, Holding
  <2>. QED
    BY <1>0, <1>1, <1>3, <1>11, <2>1 DEF SelectError, ReturnErred, Reopened, TypeOK
<1>12. CASE ReportError(i)
  <2>1. errors' \in 0 .. ErrCap
    BY <1>0, <1>12, SizesAssumption DEF ReportError, TypeOK
  <2>. QED
    BY <1>0, <1>1, <1>12, <2>1 DEF ReportError, TypeOK
<1>13. CASE SelectRead(i)
  <2>1. PICK c \in Chans : c = hold[i]
    BY <1>2, <1>13 DEF SelectRead, Holding
  <2>2. deliveries' \in [Chans -> Seq(Messages)] /\ hand' \in [Loops -> Genuine]
    <3>1. deliveries[c] \in Seq(Messages)
      BY <1>0 DEF TypeOK
    <3>2. CASE deliveries[c] # <<>>
      <4>1. Head(deliveries[c]) \in Messages /\ Tail(deliveries[c]) \in Seq(Messages)
        BY <3>1, <3>2, HeadTailProperties
      <4>2. <<Head(deliveries[c]), c>> \in Genuine
        BY <4>1
      <4>3. /\ hand' = [hand EXCEPT ![i] = <<Head(deliveries[c]), c>>]
            /\ deliveries' = [deliveries EXCEPT ![c] = Tail(@)]
        BY <1>13, <2>1, <3>2 DEF SelectRead
      <4>. QED
        BY <1>0, <4>1, <4>2, <4>3 DEF TypeOK, DeliveryInv
    <3>3. CASE deliveries[c] = <<>>
      <4>1. hand' = [hand EXCEPT ![i] = Zero] /\ deliveries' = deliveries
        BY <1>13, <2>1, <3>3 DEF SelectRead
      <4>. QED
        BY <1>0, <4>1 DEF TypeOK, DeliveryInv
    <3>. QED
      BY <3>2, <3>3
  <2>3. UNCHANGED <<received, kept>>
    BY <1>13 DEF SelectRead
  <2>4. DeliveryInv'
    BY <1>0, <2>2, <2>3 DEF DeliveryInv
  <2>5. hand' \in [Loops -> Deliveries]
    BY <2>2
  <2>6. loop' \in [Loops -> {"unborn", "check", "get", "consume", "failed", "error",
                             "report", "read", "hand", "stop", "exit", "dead"}]
    <3>1. PICK l \in {"hand", "stop"} : loop' = [loop EXCEPT ![i] = l]
      BY <1>13, <2>1 DEF SelectRead
    <3>. QED
      BY <1>0, <3>1 DEF TypeOK
  <2>. QED
    BY <1>0, <1>13, <2>2, <2>4, <2>5, <2>6 DEF SelectRead, TypeOK
<1>14. CASE HandOver(i)
  <2>1. PICK d \in Genuine : d = hand[i]
    BY <1>0 DEF DeliveryInv
  <2>2. kept' \subseteq Genuine /\ hand' \in [Loops -> Genuine]
    BY <1>0, <1>14, <2>1 DEF HandOver, Answerable, DeliveryInv
  <2>3. received' \in Seq(Genuine) /\ Len(received') <= BufCap
    <3>1. CASE UNCHANGED received
      BY <1>0, <3>1 DEF TypeOK, DeliveryInv
    <3>2. CASE Room /\ received' = Append(received, d)
      <4>1. /\ Append(received, d) \in Seq(Genuine)
            /\ Len(Append(received, d)) = Len(received) + 1 /\ Len(received) \in Nat
        BY <1>0, AppendProperties, LenProperties DEF DeliveryInv
      <4>. QED
        BY <3>2, <4>1, SizesAssumption DEF Room
    <3>. QED
      BY <1>14, <2>1, <3>1, <3>2 DEF HandOver
  <2>4. DeliveryInv'
    BY <2>2, <2>3 DEF DeliveryInv
  <2>5. /\ hand' \in [Loops -> Deliveries] /\ received' \in Seq(Deliveries)
        /\ kept' \subseteq Deliveries
    BY <2>4, GenuineTyped DEF DeliveryInv
  <2>. QED
    BY <1>0, <1>14, <2>3, <2>4, <2>5 DEF HandOver, TypeOK
<1>15. CASE SelectStop(i)
  <2>1. hold[i] \in Chans
    BY <1>2, <1>15 DEF SelectStop, Holding
  <2>. QED
    BY <1>0, <1>1, <1>3, <1>15, <2>1 DEF SelectStop, TypeOK
<1>. QED
  BY <1>4, <1>5, <1>6, <1>7, <1>8, <1>9, <1>10, <1>11, <1>12, <1>13, <1>14, <1>15 DEF LoopStep

\* A step of StopConsuming keeps the types.
LEMMA StopTypes ==
    ASSUME IInv, NEW s \in Stoppers, StopConsuming(s) \/ StopStep(s)
    PROVE  TypeOK' /\ DeliveryInv'
<1>. USE DEF config, pool, stream, broker, history, loops
<1>0. TypeOK /\ DeliveryInv
  BY DEF IInv
<1>1. CASE StopConsuming(s)
  BY <1>0, <1>1 DEF StopConsuming, TypeOK, DeliveryInv
<1>2. CASE SendStop(s)
  BY <1>0, <1>2 DEF SendStop, SendThen, StartedAfter, TypeOK, DeliveryInv
<1>3. CASE FlushMessages(s)
  <2>1. /\ received' \in Seq(Genuine) /\ received' \in Seq(Deliveries)
        /\ Len(received') <= BufCap
    <3>1. CASE received # <<>>
      <4>1. /\ received' = Tail(received) /\ Len(received) \in Nat
            /\ Tail(received) \in Seq(Genuine) /\ Tail(received) \in Seq(Deliveries)
            /\ Len(Tail(received)) = Len(received) - 1
        BY <1>0, <1>3, <3>1, HeadTailProperties, LenProperties
           DEF FlushMessages, DeliveryInv, TypeOK
      <4>. QED
        BY <1>0, <4>1, SizesAssumption DEF TypeOK
    <3>2. CASE received = <<>>
      BY <1>0, <1>3, <3>2 DEF FlushMessages, TypeOK, DeliveryInv
    <3>. QED
      BY <3>1, <3>2
  <2>2. conLock' \in Stoppers \cup {None}
    BY <1>0, <1>3 DEF FlushMessages, TypeOK
  <2>3. stop' \in [Stoppers -> {"idle", "send", "sendFlush", "flush", "done"}]
    BY <1>0, <1>3 DEF FlushMessages, TypeOK
  <2>. QED
    BY <1>0, <1>3, <2>1, <2>2, <2>3 DEF FlushMessages, TypeOK, DeliveryInv
<1>. QED
  BY <1>1, <1>2, <1>3 DEF StopStep

\* So does a step of the application: what it answers is genuine.
LEMMA ApplicationTypes ==
    ASSUME IInv, ReceiveError \/ Application
    PROVE  TypeOK' /\ DeliveryInv'
<1>. USE DEF config, fields, pool, stream, history, loops
<1>0. TypeOK /\ DeliveryInv
  BY DEF IInv
<1>1. CASE ReceiveError
  <2>1. errors' \in 0 .. ErrCap
    BY <1>0, <1>1, SizesAssumption DEF ReceiveError, TypeOK
  <2>. QED
    BY <1>0, <1>1, <2>1 DEF ReceiveError, broker, TypeOK, DeliveryInv
<1>2. CASE ReceiveMessage
  <2>1. /\ received' = Tail(received) /\ Len(received) \in Nat
        /\ Tail(received) \in Seq(Genuine) /\ Head(received) \in Genuine
        /\ Len(Tail(received)) = Len(received) - 1
    BY <1>0, <1>2, HeadTailProperties, LenProperties DEF ReceiveMessage, DeliveryInv
  <2>2. received' \in Seq(Genuine) /\ Len(received') <= BufCap
    BY <1>0, <2>1, SizesAssumption DEF TypeOK
  <2>3. kept' \in SUBSET Genuine
    BY <1>0, <1>2, <2>1 DEF ReceiveMessage, Answerable, DeliveryInv
  <2>4. hand' \in [Loops -> Genuine]
    BY <1>0, <1>2 DEF ReceiveMessage, DeliveryInv
  <2>5. /\ hand' \in [Loops -> Deliveries] /\ received' \in Seq(Deliveries)
        /\ kept' \subseteq Deliveries
    BY <2>2, <2>3, <2>4, GenuineTyped
  <2>. QED
    BY <1>0, <1>2, <2>2, <2>3, <2>4, <2>5 DEF ReceiveMessage, broker, TypeOK, DeliveryInv
<1>3. ASSUME NEW d \in kept, NEW requeue \in BOOLEAN, Answer(d, requeue)
      PROVE  TypeOK' /\ DeliveryInv'
  <2>1. AnswerCounts(d) => d[1] \in Messages
    BY <1>0, Names DEF AnswerCounts, DeliveryInv
  <2>2. unacked' \in [Chans -> SUBSET Messages]
    BY <1>0, <1>3 DEF Answer, broker, TypeOK
  <2>3. ready' \subseteq Messages /\ settled' \subseteq Messages
    BY <1>0, <1>3, <2>1 DEF Answer, broker, TypeOK
  <2>4. kept' \subseteq kept
    BY <1>3 DEF Answer
  <2>. QED
    BY <1>0, <1>3, <2>2, <2>3, <2>4 DEF Answer, TypeOK, DeliveryInv
<1>4. ASSUME NEW m \in ready, Get(m) PROVE TypeOK' /\ DeliveryInv'
  BY <1>0, <1>4 DEF Get, TypeOK, DeliveryInv
<1>. QED
  BY <1>1, <1>2, <1>3, <1>4 DEF Application, Acknowledge, Nack, Reject

\* So does a step of the broker.
LEMMA BrokerTypes ==
    ASSUME IInv, Broker
    PROVE  TypeOK' /\ DeliveryInv'
<1>. USE DEF config, fields, pool, broker, history, loops
<1>0. TypeOK /\ DeliveryInv
  BY DEF IInv
<1>1. ASSUME NEW c \in Chans, NEW m \in ready, Deliver(c, m) PROVE TypeOK' /\ DeliveryInv'
  <2>1. deliveries' \in [Chans -> Seq(Messages)]
    <3>1. Append(deliveries[c], m) \in Seq(Messages)
      BY <1>0, AppendProperties DEF TypeOK
    <3>. QED
      BY <1>0, <1>1, <3>1 DEF Deliver, TypeOK
  <2>2. unacked' \in [Chans -> SUBSET Messages]
    BY <1>0, <1>1 DEF Deliver, TypeOK
  <2>3. ready' \subseteq Messages /\ settled' \subseteq Messages
    BY <1>0, <1>1 DEF Deliver, TypeOK
  <2>. QED
    BY <1>0, <1>1, <2>1, <2>2, <2>3 DEF Deliver, TypeOK, DeliveryInv
<1>2. ASSUME NEW c \in Chans, ServerCancels(c) PROVE TypeOK' /\ DeliveryInv'
  <2>1. cancels' \in 0 .. MaxCancels
    BY <1>0, <1>2, SizesAssumption DEF ServerCancels, TypeOK
  <2>. QED
    BY <1>0, <1>2, <2>1 DEF ServerCancels, TypeOK, DeliveryInv
<1>3. ASSUME NEW c \in Chans, ChannelDies(c) PROVE TypeOK' /\ DeliveryInv'
  <2>1. deaths' \in 0 .. MaxDeaths
    BY <1>0, <1>3, SizesAssumption DEF ChannelDies, TypeOK
  <2>2. PICK dead \in SUBSET Chans : Die(dead, "erred")
    BY <1>3 DEF ChannelDies
  <2>3. /\ DeliveryInv' /\ Len(received') = Len(received)
        /\ life' \in [Chans -> {"open", "erred", "closed"}]
        /\ deliveries' \in [Chans -> Seq(Messages)]
        /\ ready' \subseteq Messages
        /\ unacked' \in [Chans -> SUBSET Messages]
        /\ subscribed' \subseteq Chans /\ cancelled' \subseteq Chans
    BY <1>0, <2>2, DieTypes
  <2>4. /\ hand' \in [Loops -> Deliveries] /\ received' \in Seq(Deliveries)
        /\ kept' \subseteq Deliveries
    BY <2>3, GenuineTyped DEF DeliveryInv
  <2>. QED
    BY <1>0, <1>3, <2>1, <2>3, <2>4 DEF ChannelDies, TypeOK
<1>. QED
  BY <1>1, <1>2, <1>3 DEF Broker

\* Every step keeps the types.
LEMMA TypeStep == IInv /\ [Next]_vars => TypeOK' /\ DeliveryInv'
<1>1. IInv /\ UNCHANGED vars => TypeOK' /\ DeliveryInv'
  BY DEF IInv, TypeOK, DeliveryInv, vars, config, fields, pool, stream, broker, history, loops
<1>. QED
  BY <1>1, LoopTypes, StopTypes, ApplicationTypes, BrokerTypes DEF Next

-----------------------------------------------------------------------------
(* Started(), and the channels of the loops                                *)

\* Loop i gives its channel back to the cache and goes on without one.
GivesBack(i) ==
    /\ loop[i] \in Holding
    /\ channels' = Append(channels, hold[i])
    /\ hold' = [hold EXCEPT ![i] = None]
    /\ \E l \in {"check", "report", "exit"} : loop' = [loop EXCEPT ![i] = l]

\* Nobody starts or ends a loop, takes a channel or gives one back.
Undisturbed ==
    /\ UNCHANGED <<started, overlapped, hold, channels>>
    /\ \A j \in Loops : /\ Alive(j)' <=> Alive(j)
                        /\ loop'[j] \in Holding <=> loop[j] \in Holding

\* What a step does to the loops.
LEMMA LoopKinds ==
    ASSUME IInv, [Next]_vars
    PROVE  \/ Undisturbed
           \/ \E i \in Loops : StartConsuming(i) \/ LoopExit(i) \/ GetChannel(i)
           \/ \E i \in Loops : GivesBack(i) /\ UNCHANGED <<started, overlapped>>
<1>. USE DEF fields, pool, history, loops, Goto
<1>0. loop \in [Loops -> {"unborn", "check", "get", "consume", "failed", "error",
                          "report", "read", "hand", "stop", "exit", "dead"}]
  BY DEF IInv, TypeOK
<1>1. ASSUME UNCHANGED <<started, overlapped, hold, channels, loop>> PROVE Undisturbed
  BY <1>1 DEF Undisturbed, Alive
<1>2. CASE UNCHANGED vars
  BY <1>1, <1>2 DEF vars
<1>3. ASSUME NEW s \in Stoppers, StopConsuming(s) \/ StopStep(s) PROVE Undisturbed
  BY <1>1, <1>3 DEF StopConsuming, StopStep, SendStop, StartedAfter, FlushMessages
<1>4. CASE ReceiveError \/ Application
  BY <1>1, <1>4 DEF ReceiveError, Application, ReceiveMessage, Acknowledge, Nack, Reject,
     Answer, Get
<1>5. CASE Broker
  BY <1>1, <1>5 DEF Broker, Deliver, ServerCancels, ChannelDies
<1>6. ASSUME NEW i \in Loops, UNCHANGED <<started, overlapped, hold, channels>>,
             loop[i] \in Holding, NEW l \in Holding, loop' = [loop EXCEPT ![i] = l]
      PROVE  Undisturbed
  BY <1>0, <1>6 DEF Undisturbed, Alive, Holding
<1>7. ASSUME NEW i \in Loops, CheckStop(i) \/ ReportError(i) PROVE Undisturbed
  BY <1>0, <1>7 DEF CheckStop, ReportError, Undisturbed, Alive, Holding
<1>8. ASSUME NEW i \in Loops, Consume(i) PROVE Undisturbed
  BY <1>6, <1>8 DEF Consume, Holding
<1>9. ASSUME NEW i \in Loops, ConsumeFails(i) PROVE Undisturbed
  BY <1>6, <1>9 DEF ConsumeFails, Holding
<1>10. ASSUME NEW i \in Loops, SelectRead(i) PROVE Undisturbed
  <2>1. PICK l \in {"hand", "stop"} : loop' = [loop EXCEPT ![i] = l]
    BY <1>10 DEF SelectRead
  <2>. QED
    BY <1>6, <1>10, <2>1 DEF SelectRead, Holding
<1>11. ASSUME NEW i \in Loops, HandOver(i) PROVE Undisturbed
  BY <1>6, <1>11 DEF HandOver, Holding
<1>12. ASSUME NEW i \in Loops, ErrFunc(i)
       PROVE  GivesBack(i) /\ UNCHANGED <<started, overlapped>>
  BY <1>12 DEF ErrFunc, ReturnErred, Returned, GivesBack, Holding
<1>13. ASSUME NEW i \in Loops, SelectError(i)
       PROVE  Undisturbed \/ (GivesBack(i) /\ UNCHANGED <<started, overlapped>>)
  <2>1. CASE ErrorReady(hold[i])
    BY <1>13, <2>1 DEF SelectError, ReturnErred, Returned, GivesBack, Holding
  <2>2. CASE ~ErrorReady(hold[i])
    BY <1>6, <1>13, <2>2 DEF SelectError, Holding
  <2>. QED
    BY <2>1, <2>2
<1>14. ASSUME NEW i \in Loops, SelectStop(i)
       PROVE  Undisturbed \/ (GivesBack(i) /\ UNCHANGED <<started, overlapped>>)
  <2>1. CASE consumeStop
    BY <1>14, <2>1 DEF SelectStop, Returned, GivesBack, Holding
  <2>2. CASE ~consumeStop
    BY <1>6, <1>14, <2>2 DEF SelectStop, Holding
  <2>. QED
    BY <2>1, <2>2
<1>. QED
  BY <1>2, <1>3, <1>4, <1>5, <1>7, <1>8, <1>9, <1>10, <1>11, <1>12, <1>13, <1>14
     DEF Next, LoopStep

\* started follows the loop as long as starts do not overlap.
LEMMA StartStep == IInv /\ [Next]_vars => StartInv'
<1>. SUFFICES ASSUME IInv, [Next]_vars PROVE StartInv'
  OBVIOUS
<1>0. /\ StartInv
      /\ loop \in [Loops -> {"unborn", "check", "get", "consume", "failed", "error",
                             "report", "read", "hand", "stop", "exit", "dead"}]
  BY DEF IInv, TypeOK
<1>1. CASE Undisturbed
  BY <1>0, <1>1 DEF Undisturbed, StartInv
<1>2. ASSUME NEW i \in Loops, StartConsuming(i) PROVE StartInv'
  BY <1>0, <1>2 DEF StartConsuming, StartInv, Alive, Goto
<1>3. ASSUME NEW i \in Loops, LoopExit(i) PROVE StartInv'
  BY <1>0, <1>3 DEF LoopExit, StartInv, Alive, Goto, history
<1>4. ASSUME NEW i \in Loops, GetChannel(i) PROVE StartInv'
  BY <1>0, <1>4 DEF GetChannel, StartInv, Alive, Goto, fields, history
<1>5. ASSUME NEW i \in Loops, GivesBack(i), UNCHANGED <<started, overlapped>> PROVE StartInv'
  BY <1>0, <1>5 DEF GivesBack, StartInv, Alive, Holding
<1>. QED
  BY <1>1, <1>2, <1>3, <1>4, <1>5, LoopKinds

\* A channel taken from the cache is in one loop's hands until it is back.
LEMMA HoldStep == IInv /\ [Next]_vars => HoldInv' /\ (Covered => Covered')
<1>. SUFFICES ASSUME IInv, [Next]_vars PROVE HoldInv' /\ (Covered => Covered')
  OBVIOUS
<1>0. /\ HoldInv /\ channels \in Seq(Chans) /\ hold \in [Loops -> Chans \cup {None}]
      /\ loop \in [Loops -> {"unborn", "check", "get", "consume", "failed", "error",
                             "report", "read", "hand", "stop", "exit", "dead"}]
      /\ None \notin Chans
  BY Names DEF IInv, TypeOK
<1>1. CASE Undisturbed
  BY <1>0, <1>1 DEF Undisturbed, HoldInv, Covered
<1>2. ASSUME NEW i \in Loops, StartConsuming(i) \/ LoopExit(i)
      PROVE  HoldInv' /\ (Covered => Covered')
  BY <1>0, <1>2 DEF StartConsuming, LoopExit, HoldInv, Covered, Holding, Goto, pool
<1>3. ASSUME NEW i \in Loops, GetChannel(i) PROVE HoldInv' /\ (Covered => Covered')
  <2>1. PICK x \in Chans : /\ x = Head(channels) /\ x \in Range(channels)
                           /\ IsInjective(Tail(channels))
                           /\ Range(Tail(channels)) = Range(channels) \ {x}
    BY <1>0, <1>3, ShelfTail DEF GetChannel, HoldInv
  <2>2. /\ hold' = [hold EXCEPT ![i] = x] /\ channels' = Tail(channels) /\ hold[i] = None
        /\ loop' = [loop EXCEPT ![i] = "consume"]
    BY <1>0, <1>3, <2>1 DEF GetChannel, Goto, HoldInv, Holding
  <2>3. \A j \in Loops : hold'[j] # None <=> loop'[j] \in Holding
    BY <1>0, <2>2 DEF HoldInv, Holding
  <2>4. \A j, k \in Loops : hold'[j] # None /\ hold'[j] = hold'[k] => j = k
    BY <1>0, <2>1, <2>2 DEF HoldInv
  <2>5. \A j \in Loops : hold'[j] \notin Range(channels')
    BY <1>0, <2>1, <2>2 DEF HoldInv
  <2>6. Covered => Covered'
    BY <1>0, <2>1, <2>2 DEF Covered
  <2>. QED
    BY <2>1, <2>2, <2>3, <2>4, <2>5, <2>6 DEF HoldInv
<1>4. ASSUME NEW i \in Loops, GivesBack(i) PROVE HoldInv' /\ (Covered => Covered')
  <2>1. PICK x \in Chans : x = hold[i] /\ x \notin Range(channels)
    BY <1>0, <1>4 DEF GivesBack, HoldInv
  <2>2. /\ channels' = Append(channels, x) /\ hold' = [hold EXCEPT ![i] = None]
        /\ IsInjective(channels') /\ Range(channels') = Range(channels) \cup {x}
    BY <1>0, <1>4, <2>1, ShelfAppend DEF GivesBack, HoldInv
  <2>3. \A j \in Loops : hold'[j] # None <=> loop'[j] \in Holding
    BY <1>0, <1>4, <2>2 DEF GivesBack, HoldInv, Holding
  <2>4. \A j, k \in Loops : hold'[j] # None /\ hold'[j] = hold'[k] => j = k
    BY <1>0, <2>2 DEF HoldInv
  <2>5. \A j \in Loops : hold'[j] \notin Range(channels')
    <3>1. None \notin Range(channels)
      BY <1>0, LenProperties DEF Range
    <3>. QED
      BY <1>0, <2>1, <2>2, <3>1 DEF HoldInv
  <2>6. Covered => Covered'
    BY <1>0, <2>1, <2>2 DEF Covered
  <2>. QED
    BY <2>2, <2>3, <2>4, <2>5, <2>6 DEF HoldInv
<1>. QED
  BY <1>1, <1>2, <1>3, <1>4, LoopKinds

-----------------------------------------------------------------------------
(* Messages                                                                *)

\* What a step does to the messages and their copies.
LEMMA MessageKinds ==
    ASSUME IInv, [Next]_vars
    PROVE  /\ autoAck' = autoAck
           /\ \/ UNCHANGED <<deliveries, hand, received, kept, ready, unacked, settled>>
              \/ \E dead \in SUBSET Chans : Die(dead, "erred") /\ UNCHANGED settled
              \/ \E i \in Loops : SelectRead(i) \/ HandOver(i)
              \/ \E s \in Stoppers : FlushMessages(s)
              \/ ReceiveMessage
              \/ \E d \in kept, requeue \in BOOLEAN : Answer(d, requeue)
              \/ \E m \in ready : Get(m)
              \/ \E c \in Chans : \E m \in ready : Deliver(c, m)
<1>. DEFINE Kept == UNCHANGED <<deliveries, hand, received, kept, ready, unacked, settled>>
<1>. USE DEF config, fields, pool, stream, broker, history, loops
<1>1. CASE UNCHANGED vars
  BY <1>1 DEF vars
<1>2. ASSUME NEW i \in Loops, StartConsuming(i) \/ GetChannel(i) \/ LoopExit(i)
      PROVE  autoAck' = autoAck /\ Kept
  BY <1>2 DEF StartConsuming, GetChannel, LoopExit
<1>3. ASSUME NEW i \in Loops,
             \/ CheckStop(i) \/ Consume(i) \/ ErrFunc(i) \/ SelectError(i) \/ ReportError(i)
             \/ SelectStop(i)
      PROVE  autoAck' = autoAck /\ Kept
  BY <1>3 DEF CheckStop, Consume, ErrFunc, SelectError, ReportError, SelectStop
<1>4. ASSUME NEW i \in Loops, ConsumeFails(i)
      PROVE  /\ autoAck' = autoAck
             /\ \E dead \in SUBSET Chans : Die(dead, "erred") /\ UNCHANGED settled
  <2>1. hold[i] \in Chans
    BY <1>4 DEF ConsumeFails, IInv, HoldInv, Holding, TypeOK
  <2>. QED
    BY <1>4, <2>1 DEF ConsumeFails
<1>5. ASSUME NEW i \in Loops, SelectRead(i) \/ HandOver(i) PROVE autoAck' = autoAck
  BY <1>5 DEF SelectRead, HandOver
<1>6. ASSUME NEW s \in Stoppers, StopConsuming(s) \/ SendStop(s)
      PROVE  autoAck' = autoAck /\ Kept
  BY <1>6 DEF StopConsuming, SendStop
<1>7. ASSUME NEW s \in Stoppers, FlushMessages(s) PROVE autoAck' = autoAck
  BY <1>7 DEF FlushMessages
<1>8. ASSUME ReceiveError PROVE autoAck' = autoAck /\ Kept
  BY <1>8 DEF ReceiveError
<1>9. ASSUME ReceiveMessage PROVE autoAck' = autoAck
  BY <1>9 DEF ReceiveMessage
<1>10. ASSUME NEW d \in kept, Acknowledge(d) \/ Nack(d) \/ Reject(d)
       PROVE  autoAck' = autoAck /\ \E requeue \in BOOLEAN : Answer(d, requeue)
  BY <1>10 DEF Acknowledge, Nack, Reject, Answer
<1>11. ASSUME NEW m \in ready, Get(m) PROVE autoAck' = autoAck
  BY <1>11 DEF Get
<1>12. ASSUME NEW c \in Chans, NEW m \in ready, Deliver(c, m) PROVE autoAck' = autoAck
  BY <1>12 DEF Deliver
<1>13. ASSUME NEW c \in Chans, ServerCancels(c) PROVE autoAck' = autoAck /\ Kept
  BY <1>13 DEF ServerCancels
<1>14. ASSUME NEW c \in Chans, ChannelDies(c)
       PROVE  /\ autoAck' = autoAck
              /\ \E dead \in SUBSET Chans : Die(dead, "erred") /\ UNCHANGED settled
  BY <1>14 DEF ChannelDies
<1>. HIDE DEF Kept
<1>15. \/ \E i \in Loops : StartConsuming(i) \/ LoopStep(i) \/ GetChannel(i) \/ LoopExit(i)
       \/ \E s \in Stoppers : StopConsuming(s) \/ StopStep(s)
       \/ ReceiveError \/ Application \/ Broker \/ UNCHANGED vars
  BY DEF Next
<1>16. CASE \E i \in Loops : StartConsuming(i) \/ LoopStep(i) \/ GetChannel(i) \/ LoopExit(i)
  BY <1>2, <1>3, <1>4, <1>5, <1>16 DEF LoopStep, Kept
<1>17. CASE \E s \in Stoppers : StopConsuming(s) \/ StopStep(s)
  BY <1>6, <1>7, <1>17 DEF StopStep, Kept
<1>18. CASE ReceiveError \/ Application
  BY <1>8, <1>9, <1>10, <1>11, <1>18 DEF Application, Kept
<1>19. CASE Broker
  BY <1>12, <1>13, <1>14, <1>19 DEF Broker, Kept
<1>. QED
  BY <1>1, <1>15, <1>16, <1>17, <1>18, <1>19

\* When channels die, what they waited for is ready again.
LEMMA DieBroker ==
    ASSUME NEW dead \in SUBSET Chans, NEW how, Die(dead, how), UNCHANGED settled,
           NEW m \in Messages, OnePlace(m)
    PROVE  OnePlace(m)'
<1>1. /\ ready' = ready \cup UNION {unacked[c] : c \in dead}
      /\ \A c \in Chans : unacked'[c] = IF c \in dead THEN {} ELSE unacked[c]
  BY DEF Die
<1>2. m \in ready' <=> m \in ready \/ \E c \in dead : m \in unacked[c]
  BY <1>1
<1>3. \A c \in Chans : m \in unacked'[c] <=> c \notin dead /\ m \in unacked[c]
  BY <1>1
<1>. QED
  BY <1>2, <1>3 DEF OnePlace

\* An ackable message moves from one place at the broker to another: an answer
\* takes it from the channel that waits for it.
LEMMA BrokerStep == IInv /\ [Next]_vars => BrokerInv'
<1>. SUFFICES ASSUME IInv, [Next]_vars, ~autoAck, NEW m \in Messages PROVE OnePlace(m)'
  BY MessageKinds DEF BrokerInv
<1>0. /\ OnePlace(m) /\ unacked \in [Chans -> SUBSET Messages]
      /\ \A x \in Messages, c \in Chans : <<x, c>> \in kept => x \in unacked[c]
  BY DEF IInv, TypeOK, BrokerInv, CopyInv, OneCopy, InKept
<1>1. CASE UNCHANGED <<ready, unacked, settled>>
  BY <1>0, <1>1 DEF OnePlace
<1>2. ASSUME NEW dead \in SUBSET Chans, Die(dead, "erred"), UNCHANGED settled
      PROVE  OnePlace(m)'
  BY <1>0, <1>2, DieBroker
<1>3. ASSUME NEW i \in Loops, SelectRead(i) \/ HandOver(i)
      PROVE  UNCHANGED <<ready, unacked, settled>>
  BY <1>3 DEF SelectRead, HandOver, broker
<1>4. ASSUME NEW s \in Stoppers, FlushMessages(s) PROVE UNCHANGED <<ready, unacked, settled>>
  BY <1>4 DEF FlushMessages, broker
<1>5. ASSUME ReceiveMessage PROVE UNCHANGED <<ready, unacked, settled>>
  BY <1>5 DEF ReceiveMessage, broker
<1>6. ASSUME NEW d \in kept, NEW requeue \in BOOLEAN, Answer(d, requeue) PROVE OnePlace(m)'
  <2>1. CASE ~AnswerCounts(d)
    BY <1>1, <1>6, <2>1 DEF Answer, broker
  <2>2. CASE AnswerCounts(d)
    <3>1. PICK x \in Messages, c \in Chans : d = <<x, c>>
      BY <2>2, Names DEF AnswerCounts, IInv, DeliveryInv
    <3>2. x \in unacked[c]
      BY <1>0, <3>1
    <3>3. /\ \A b \in Chans : unacked'[b] = IF b = c THEN unacked[b] \ {x} ELSE unacked[b]
          /\ \/ ready' = ready \cup {x} /\ settled' = settled
             \/ settled' = settled \cup {x} /\ ready' = ready
      BY <1>6, <2>2, <3>1 DEF Answer
    <3>. QED
      BY <1>0, <3>2, <3>3 DEF OnePlace
  <2>. QED
    BY <2>1, <2>2
<1>7. ASSUME NEW x \in ready, Get(x) PROVE OnePlace(m)'
  BY <1>0, <1>7 DEF Get, OnePlace
<1>8. ASSUME NEW c \in Chans, NEW x \in ready, Deliver(c, x) PROVE OnePlace(m)'
  <2>1. /\ \A b \in Chans : unacked'[b] = IF b = c THEN unacked[b] \cup {x} ELSE unacked[b]
        /\ ready' = ready \ {x} /\ settled' = settled
    BY <1>0, <1>8 DEF Deliver
  <2>. QED
    BY <1>0, <2>1 DEF OnePlace
<1>. QED
  BY <1>1, <1>2, <1>3, <1>4, <1>5, <1>6, <1>7, <1>8, MessageKinds

\* Taking the first element of a sequence that has x once at most.
LEMMA OnceTail ==
    ASSUME NEW N, NEW s \in Seq(N), s # <<>>, NEW x, Once(s, x)
    PROVE  /\ Once(Tail(s), x) /\ Head(s) \in Range(s)
           /\ Head(s) = x => x \notin Range(Tail(s))
           /\ x \in Range(Tail(s)) => x \in Range(s)
<1>1. /\ DOMAIN s = 1 .. Len(s) /\ Len(s) \in Nat \ {0} /\ Head(s) = s[1]
      /\ DOMAIN Tail(s) = 1 .. Len(s) - 1
      /\ \A n \in 1 .. Len(s) - 1 : Tail(s)[n] = s[n + 1]
  BY HeadTailProperties, LenProperties, EmptySeq
<1>2. \A n \in 1 .. Len(s) - 1 : n \in Int /\ n + 1 \in 1 .. Len(s) /\ n + 1 # 1
  BY <1>1
<1>3. Once(Tail(s), x)
  <2>. SUFFICES ASSUME NEW n \in 1 .. Len(s) - 1, NEW k \in 1 .. Len(s) - 1,
                       Tail(s)[n] = x, Tail(s)[k] = x
                PROVE  n = k
    BY <1>1 DEF Once
  <2>1. n + 1 = k + 1
    BY <1>1, <1>2 DEF Once
  <2>. QED
    BY <1>2, <2>1
<1>4. 1 \in 1 .. Len(s)
  BY <1>1
<1>5. Head(s) \in Range(s)
  BY <1>1, <1>4 DEF Range
<1>6. Head(s) = x => x \notin Range(Tail(s))
  BY <1>1, <1>2, <1>4 DEF Range, Once
<1>7. x \in Range(Tail(s)) => x \in Range(s)
  BY <1>1, <1>2 DEF Range
<1>. QED
  BY <1>3, <1>5, <1>6, <1>7

\* Adding an element at the end of such a sequence.
LEMMA OnceAppend ==
    ASSUME NEW N, NEW s \in Seq(N), NEW y \in N, NEW x, Once(s, x),
           y = x => x \notin Range(s)
    PROVE  /\ Once(Append(s, y), x)
           /\ x \in Range(Append(s, y)) <=> x \in Range(s) \/ x = y
<1>1. /\ DOMAIN s = 1 .. Len(s) /\ Len(s) \in Nat
      /\ DOMAIN Append(s, y) = 1 .. Len(s) + 1
      /\ \A n \in 1 .. Len(s) : Append(s, y)[n] = s[n]
      /\ Append(s, y)[Len(s) + 1] = y
  BY AppendProperties, LenProperties
<1>2. \A n \in 1 .. Len(s) + 1 : n \in 1 .. Len(s) \/ n = Len(s) + 1
  BY <1>1
<1>3. Len(s) + 1 \in 1 .. Len(s) + 1 /\ 1 .. Len(s) \subseteq 1 .. Len(s) + 1
  BY <1>1
<1>4. Once(Append(s, y), x)
  BY <1>1, <1>2 DEF Once, Range
<1>. QED
  BY <1>1, <1>2, <1>3, <1>4 DEF Range

\* When channels die, the copies of what they delivered go or become
\* unanswerable; the copies of other deliveries stay where they are.
LEMMA DieCopies ==
    ASSUME IInv, NEW dead \in SUBSET Chans, NEW how, Die(dead, how),
           NEW m \in Messages, NEW c \in Chans, OneCopy(m, c)
    PROVE  OneCopy(m, c)'
<1>. DEFINE Stale(d) == IF d[2] \in dead THEN <<d[1], None>> ELSE d
            d == <<m, c>>
<1>1. \A e \in Genuine : Stale(e) = d <=> e = d /\ c \notin dead
  BY Names
<1>2. /\ hand' = [i \in Loops |-> Stale(hand[i])]
      /\ kept' = {Stale(e) : e \in kept}
      /\ received' = [n \in DOMAIN received |-> Stale(received[n])]
      /\ deliveries'[c] = IF c \in dead THEN <<>> ELSE deliveries[c]
      /\ unacked'[c] = IF c \in dead THEN {} ELSE unacked[c]
  BY DEF Die
<1>3. /\ hand \in [Loops -> Genuine] /\ kept \subseteq Genuine
      /\ \A n \in DOMAIN received : received[n] \in Genuine
  <2>1. received \in [1 .. Len(received) -> Genuine]
    BY LenProperties DEF IInv, DeliveryInv
  <2>. QED
    BY <2>1 DEF IInv, DeliveryInv
<1>. HIDE DEF Stale, d
<1>4. \A i \in Loops : hand'[i] = d <=> hand[i] = d /\ c \notin dead
  BY <1>1, <1>2, <1>3
<1>5. d \in kept' <=> d \in kept /\ c \notin dead
  BY <1>1, <1>2, <1>3
<1>6. /\ DOMAIN received' = DOMAIN received
      /\ \A n \in DOMAIN received : received'[n] = d <=> received[n] = d /\ c \notin dead
  BY <1>1, <1>2, <1>3
<1>7. d \in Range(received') <=> d \in Range(received) /\ c \notin dead
  BY <1>6 DEF Range
<1>8. CASE c \notin dead
  BY <1>2, <1>4, <1>5, <1>6, <1>7, <1>8 DEF OneCopy, InBuffer, InHand, InReceived, InKept, Once, d
<1>9. CASE c \in dead
  <2>1. /\ ~InBuffer(m, c)' /\ ~InHand(m, c)' /\ ~InReceived(m, c)' /\ ~InKept(m, c)'
        /\ DOMAIN deliveries'[c] = {}
    BY <1>2, <1>4, <1>5, <1>7, <1>9 DEF InBuffer, InHand, InReceived, InKept, Range, d
  <2>2. \A n \in DOMAIN received' : received'[n] # d
    BY <1>6, <1>9
  <2>3. \A i \in Loops : hand'[i] # d
    BY <1>4, <1>9
  <2>. QED
    BY <2>1, <2>2, <2>3 DEF OneCopy, Once, d
<1>. QED
  BY <1>8, <1>9

\* A step moves a copy from the buffer to a hand, to receivedMessages, to the
\* application; an answer uses it up; a delivery makes one only when there is
\* none, because the broker waits for no answer to m on c.
LEMMA CopyStep == IInv /\ [Next]_vars => CopyInv'
<1>. SUFFICES ASSUME IInv, [Next]_vars, ~autoAck, NEW m \in Messages, NEW c \in Chans
              PROVE  OneCopy(m, c)'
  BY MessageKinds DEF CopyInv
<1>. USE DEF InBuffer, InHand, InReceived, InKept
<1>0. /\ OneCopy(m, c) /\ DeliveryInv /\ deliveries \in [Chans -> Seq(Messages)]
      /\ unacked \in [Chans -> SUBSET Messages] /\ <<m, c>> # Zero
      /\ m \in ready => m \notin unacked[c]
  BY Names DEF IInv, TypeOK, CopyInv, BrokerInv, OnePlace, Zero
<1>1. CASE UNCHANGED <<deliveries, hand, received, kept, ready, unacked, settled>>
  BY <1>0, <1>1 DEF OneCopy
<1>2. ASSUME NEW dead \in SUBSET Chans, Die(dead, "erred") PROVE OneCopy(m, c)'
  BY <1>0, <1>2, DieCopies
<1>3. ASSUME NEW i \in Loops, SelectRead(i) PROVE OneCopy(m, c)'
  <2>1. PICK b \in Chans : b = hold[i]
    BY <1>3 DEF SelectRead, IInv, HoldInv, Holding, TypeOK
  <2>2. UNCHANGED <<received, kept, unacked>>
    BY <1>3 DEF SelectRead, fields, broker
  <2>3. CASE deliveries[b] = <<>>
    <3>1. deliveries' = deliveries /\ hand' = [hand EXCEPT ![i] = Zero]
      BY <1>3, <2>1, <2>3 DEF SelectRead
    <3>2. \A j \in Loops : hand'[j] = <<m, c>> => hand[j] = <<m, c>>
      BY <1>0, <3>1 DEF DeliveryInv
    <3>. QED
      BY <1>0, <2>2, <3>1, <3>2 DEF OneCopy
  <2>4. CASE deliveries[b] # <<>>
    <3>1. /\ deliveries' = [deliveries EXCEPT ![b] = Tail(deliveries[b])]
          /\ hand' = [hand EXCEPT ![i] = <<Head(deliveries[b]), b>>]
      BY <1>3, <2>1, <2>4 DEF SelectRead
    <3>2. CASE b # c \/ Head(deliveries[b]) # m
      <4>1. \A j \in Loops : hand'[j] = <<m, c>> => hand[j] = <<m, c>>
        BY <1>0, <3>1, <3>2 DEF DeliveryInv
      <4>2. /\ Once(deliveries'[c], m)
            /\ m \in Range(deliveries'[c]) => m \in Range(deliveries[c])
        <5>1. CASE b # c
          BY <1>0, <3>1, <5>1 DEF OneCopy
        <5>2. CASE b = c
          BY <1>0, <2>4, <3>1, <5>2, OnceTail DEF OneCopy
        <5>. QED
          BY <5>1, <5>2
      <4>. QED
        BY <1>0, <2>2, <4>1, <4>2 DEF OneCopy
    <3>3. CASE b = c /\ Head(deliveries[b]) = m
      <4>1. /\ Once(deliveries'[c], m) /\ m \notin Range(deliveries'[c])
            /\ m \in Range(deliveries[c])
        BY <1>0, <2>4, <3>1, <3>3, OnceTail DEF OneCopy
      <4>2. \A j \in Loops : hand'[j] = <<m, c>> <=> j = i
        BY <1>0, <3>1, <3>3, <4>1 DEF DeliveryInv, OneCopy
      <4>. QED
        BY <1>0, <2>2, <4>1, <4>2 DEF OneCopy
    <3>. QED
      BY <3>2, <3>3
  <2>. QED
    BY <2>3, <2>4
<1>4. ASSUME NEW i \in Loops, HandOver(i) PROVE OneCopy(m, c)'
  <2>1. UNCHANGED <<deliveries, unacked>> /\ hand' = [hand EXCEPT ![i] = Zero]
    BY <1>4 DEF HandOver, stream, broker
  <2>2. \A j \in Loops : hand'[j] = <<m, c>> => hand[j] = <<m, c>> /\ j # i
    BY <1>0, <2>1 DEF DeliveryInv
  <2>3. CASE kept' = kept \cup Answerable(hand[i]) /\ received' = received
    <3>1. <<m, c>> \in kept' => <<m, c>> \in kept \/ hand[i] = <<m, c>>
      BY <2>3 DEF Answerable
    <3>. QED
      BY <1>0, <2>1, <2>2, <2>3, <3>1 DEF OneCopy
  <2>4. CASE received' = Append(received, hand[i]) /\ kept' = kept
    <3>1. /\ Once(received', <<m, c>>)
          /\ <<m, c>> \in Range(received') <=> <<m, c>> \in Range(received) \/ <<m, c>> = hand[i]
      <4>1. received \in Seq(Genuine) /\ hand[i] \in Genuine
        BY <1>0 DEF DeliveryInv
      <4>2. Once(received, <<m, c>>)
        BY <1>0 DEF OneCopy
      <4>3. hand[i] = <<m, c>> => <<m, c>> \notin Range(received)
        BY <1>0 DEF OneCopy, InHand, InReceived
      <4>. QED
        BY <2>4, <4>1, <4>2, <4>3, OnceAppend
    <3>. QED
      BY <1>0, <2>1, <2>2, <2>4, <3>1 DEF OneCopy
  <2>. QED
    BY <1>4, <2>3, <2>4 DEF HandOver
<1>5. ASSUME NEW s \in Stoppers, FlushMessages(s) PROVE OneCopy(m, c)'
  <2>1. UNCHANGED <<deliveries, unacked, hand, kept>>
    BY <1>5 DEF FlushMessages, stream, broker, loops
  <2>2. /\ Once(received', <<m, c>>)
        /\ <<m, c>> \in Range(received') => <<m, c>> \in Range(received)
    <3>1. CASE received # <<>>
      <4>1. received' = Tail(received)
        BY <1>5, <3>1 DEF FlushMessages
      <4>. QED
        BY <1>0, <3>1, <4>1, OnceTail DEF DeliveryInv, OneCopy
    <3>2. CASE received' = received
      BY <1>0, <3>2 DEF OneCopy
    <3>. QED
      BY <1>5, <3>1, <3>2 DEF FlushMessages
  <2>. QED
    BY <1>0, <2>1, <2>2 DEF OneCopy
<1>6. ASSUME ReceiveMessage PROVE OneCopy(m, c)'
  <2>1. UNCHANGED <<deliveries, unacked, hand>> /\ received # <<>> /\ received' = Tail(received)
    BY <1>6 DEF ReceiveMessage, stream, broker, loops
  <2>2. /\ Once(received', <<m, c>>) /\ Head(received) \in Range(received)
        /\ Head(received) = <<m, c>> => <<m, c>> \notin Range(received')
        /\ <<m, c>> \in Range(received') => <<m, c>> \in Range(received)
    BY <1>0, <2>1, OnceTail DEF DeliveryInv, OneCopy
  <2>3. <<m, c>> \in kept' => <<m, c>> \in kept \/ Head(received) = <<m, c>>
    BY <1>6 DEF ReceiveMessage, Answerable
  <2>. QED
    BY <1>0, <2>1, <2>2, <2>3 DEF OneCopy
<1>7. ASSUME NEW d \in kept, NEW requeue \in BOOLEAN, Answer(d, requeue)
      PROVE  OneCopy(m, c)'
  <2>1. UNCHANGED <<deliveries, received, hand>> /\ kept' = kept \ {d}
    BY <1>7 DEF Answer, stream, fields, loops
  <2>2. CASE d = <<m, c>>
    BY <1>0, <2>1, <2>2 DEF OneCopy
  <2>3. CASE d # <<m, c>>
    <3>1. m \in unacked[c] => m \in unacked'[c]
      <4>1. d = <<d[1], d[2]>>
        BY <1>0, Names DEF DeliveryInv
      <4>. QED
        BY <1>0, <1>7, <2>3, <4>1 DEF Answer, broker
    <3>. QED
      BY <1>0, <2>1, <3>1 DEF OneCopy
  <2>. QED
    BY <2>2, <2>3
<1>8. ASSUME NEW x \in ready, Get(x) PROVE OneCopy(m, c)'
  BY <1>0, <1>8 DEF Get, OneCopy, fields, loops, stream
<1>9. ASSUME NEW b \in Chans, NEW x \in ready, Deliver(b, x) PROVE OneCopy(m, c)'
  <2>1. /\ UNCHANGED <<hand, received, kept>> /\ x \in Messages
        /\ deliveries' = [deliveries EXCEPT ![b] = Append(deliveries[b], x)]
        /\ unacked' = [unacked EXCEPT ![b] = unacked[b] \cup {x}]
    BY <1>9 DEF Deliver, fields, loops, IInv, TypeOK
  <2>2. m \in unacked[c] => m \in unacked'[c]
    BY <1>0, <2>1
  <2>3. CASE b # c
    BY <1>0, <2>1, <2>2, <2>3 DEF OneCopy
  <2>4. CASE b = c
    <3>1. x = m => m \notin Range(deliveries[c])
      BY <1>0, <1>9 DEF OneCopy
    <3>2. /\ Once(deliveries'[c], m)
          /\ m \in Range(deliveries'[c]) <=> m \in Range(deliveries[c]) \/ m = x
      <4>1. deliveries'[c] = Append(deliveries[c], x) /\ deliveries[c] \in Seq(Messages)
        BY <1>0, <2>1, <2>4
      <4>2. Once(deliveries[c], m)
        BY <1>0 DEF OneCopy
      <4>. QED
        BY <2>1, <3>1, <4>1, <4>2, OnceAppend
    <3>3. x = m => m \in unacked'[c]
      BY <1>0, <2>1, <2>4
    <3>. QED
      BY <1>0, <1>9, <2>1, <2>2, <3>2, <3>3 DEF OneCopy
  <2>. QED
    BY <2>3, <2>4
<1>. QED
  BY <1>1, <1>2, <1>3, <1>4, <1>5, <1>6, <1>7, <1>8, <1>9, MessageKinds

\* With one place for each message, the count is one.
LEMMA OnePlaceCounts == IInv => AckableNeverLost
<1>. SUFFICES ASSUME IInv, ~autoAck, NEW m \in Messages
              PROVE  Cardinality({c \in Chans : m \in unacked[c]})
                     + (IF m \in ready THEN 1 ELSE 0) + (IF m \in settled THEN 1 ELSE 0) = 1
  BY DEF AckableNeverLost
<1>0. OnePlace(m)
  BY DEF IInv, BrokerInv
<1>1. CASE \E c \in Chans : m \in unacked[c]
  <2>1. PICK c \in Chans : m \in unacked[c]
    BY <1>1
  <2>2. {b \in Chans : m \in unacked[b]} = {c} /\ m \notin ready /\ m \notin settled
    BY <1>0, <2>1 DEF OnePlace
  <2>3. Cardinality({b \in Chans : m \in unacked[b]}) = 1
    BY <2>2, FS_Singleton
  <2>. QED
    BY <2>2, <2>3
<1>2. CASE ~ \E c \in Chans : m \in unacked[c]
  <2>1. {c \in Chans : m \in unacked[c]} = {}
    BY <1>2
  <2>2. Cardinality({c \in Chans : m \in unacked[c]}) = 0
    BY <2>1, FS_EmptySet
  <2>. QED
    BY <1>0, <1>2, <2>2 DEF OnePlace
<1>. QED
  BY <1>1, <1>2

-----------------------------------------------------------------------------
(* Theorems                                                                *)

\* IInv is an invariant of the consumer.
THEOREM Invariance == Spec => [](IInv /\ Covered)
<1>1. IInv /\ Covered /\ [Next]_vars => (IInv /\ Covered)'
  BY TypeStep, StartStep, HoldStep, BrokerStep, CopyStep DEF IInv
<1>. QED
  BY <1>1, InitHolds, PTL DEF Spec

\* The consumer's state has its types in every behaviour: con.errors and
\* receivedMessages never hold more than their capacities.
THEOREM TypeCorrect == Spec => []TypeOK
BY Invariance, PTL DEF IInv

\* Started() is TRUE while a loop runs, for any number of starts and stops,
\* unless StartConsuming was called while a loop was running.
THEOREM StartedIsTrue == Spec => []StartedWhileRunning
<1>1. IInv => StartedWhileRunning
  BY DEF IInv, StartInv, StartedWhileRunning
<1>. QED
  BY <1>1, Invariance, PTL

\* Every cached channel is in the cache or in the hands of one running loop:
\* errFunc, the error branch of processDeliveries and the stop branch all
\* return it, and nothing returns it twice.
THEOREM ChannelsReturned == Spec => []ChannelsComeBack
<1>1. IInv /\ Covered => ChannelsComeBack
  <2>. SUFFICES ASSUME IInv, Covered PROVE ChannelsComeBack
    OBVIOUS
  <2>0. HoldInv /\ hold \in [Loops -> Chans \cup {None}] /\ None \notin Chans
    BY Names DEF IInv, TypeOK
  <2>1. ASSUME NEW c \in Chans
        PROVE  Cardinality({i \in Loops : hold[i] = c})
               + (IF c \in Range(channels) THEN 1 ELSE 0) = 1
    <3>1. CASE c \in Range(channels)
      <4>1. {i \in Loops : hold[i] = c} = {}
        BY <2>0, <3>1 DEF HoldInv
      <4>. QED
        BY <3>1, <4>1, FS_EmptySet
    <3>2. CASE c \notin Range(channels)
      <4>1. PICK i \in Loops : hold[i] = c
        BY <3>2 DEF Covered
      <4>2. {j \in Loops : hold[j] = c} = {i}
        BY <2>0, <4>1 DEF HoldInv
      <4>3. Cardinality({j \in Loops : hold[j] = c}) = 1
        BY <4>2, FS_Singleton
      <4>. QED
        BY <3>2, <4>3
    <3>. QED
      BY <3>1, <3>2
  <2>2. \A i \in Loops : ~Alive(i) => hold[i] = None
    BY <2>0 DEF HoldInv, Alive, Holding
  <2>. QED
    BY <2>0, <2>1, <2>2 DEF HoldInv, ChannelsComeBack
<1>. QED
  BY <1>1, Invariance, PTL

\* An ackable message is in exactly one place at the broker: stops, flushes,
\* dead channels and late answers neither lose it nor settle a redelivered copy.
THEOREM NothingAckableLost == Spec => []AckableNeverLost
<1>1. IInv => AckableNeverLost
  BY OnePlaceCounts
<1>. QED
  BY <1>1, Invariance, PTL

-----------------------------------------------------------------------------
(* The service around the consumer                                         *)

\* Shutdown closes the cached channels, or all of them.
Closing(dead) ==
    /\ Die(dead, "closed")
    /\ channels' \in {channels, <<>>}
    /\ UNCHANGED <<config, conLock, started, consumeStop, errors, loop, hold, stop, settled,
                   history>>

\* To the consumer, a step of the service is one of its own or a closing.
LEMMA ServiceKinds ==
    ASSUME IInv, [ServiceNext]_serviceVars
    PROVE  [Next]_vars \/ \E dead \in SUBSET Chans : Closing(dead)
<1>1. CASE UNCHANGED serviceVars
  BY <1>1 DEF serviceVars
<1>2. CASE ConsumerStep
  BY <1>2 DEF ConsumerStep, Next
<1>3. CASE MonitorForShutdown \/ SendCentralErr \/ ProcessErrors
  BY <1>3 DEF MonitorForShutdown, SendCentralErr, ProcessErrors
<1>4. CASE CollectConsumerErrors
  <2>1. CASE CollectorSeesShutdown
    BY <1>4, <2>1 DEF CollectConsumerErrors, vars, fields
  <2>2. CASE ~CollectorSeesShutdown
    <3>1. ReceiveError
      BY <1>4, <2>2 DEF CollectConsumerErrors, ReceiveError
    <3>. QED
      BY <3>1 DEF Next
  <2>. QED
    BY <2>1, <2>2
<1>5. ASSUME NEW s \in Stoppers, Shutdown(s) \/ SendShutdownSignal(s) PROVE UNCHANGED vars
  BY <1>5 DEF Shutdown, SendShutdownSignal
<1>6. ASSUME NEW s \in Stoppers, StopConsumer(s) \/ ConsumerStopped(s) PROVE [Next]_vars
  BY <1>6 DEF StopConsumer, ConsumerStopped, Next
<1>7. ASSUME NEW s \in Stoppers, CloseCache(s)
      PROVE  \E dead \in SUBSET Chans : Closing(dead)
  <2>1. {c \in Range(channels) : life[c] = "open"} \in SUBSET Chans
    BY LenProperties DEF IInv, TypeOK, Range
  <2>. QED
    BY <1>7, <2>1 DEF CloseCache, Closing
<1>8. ASSUME NEW s \in Stoppers, CloseConnections(s)
      PROVE  \E dead \in SUBSET Chans : Closing(dead)
  BY <1>8 DEF CloseConnections, Closing
<1>. QED
  BY <1>1, <1>2, <1>3, <1>4, <1>5, <1>6, <1>7, <1>8 DEF ServiceNext, CallStep

\* A closing keeps IInv, though not Covered: the cache is gone.
LEMMA ClosingStep ==
    ASSUME IInv, NEW dead \in SUBSET Chans, Closing(dead)
    PROVE  IInv'
<1>. USE DEF Closing
<1>1. /\ DeliveryInv' /\ Len(received') = Len(received)
      /\ life' \in [Chans -> {"open", "erred", "closed"}]
      /\ deliveries' \in [Chans -> Seq(Messages)]
      /\ ready' \subseteq Messages
      /\ unacked' \in [Chans -> SUBSET Messages]
      /\ subscribed' \subseteq Chans /\ cancelled' \subseteq Chans
  BY DieTypes DEF IInv
<1>2. /\ hand' \in [Loops -> Deliveries] /\ received' \in Seq(Deliveries)
      /\ kept' \subseteq Deliveries
  BY <1>1, GenuineTyped DEF DeliveryInv
<1>3. channels' \in Seq(Chans)
  BY EmptySeq DEF IInv, TypeOK
<1>4. TypeOK'
  BY <1>1, <1>2, <1>3 DEF IInv, TypeOK, config, history
<1>5. StartInv'
  BY DEF IInv, StartInv, Alive, history
<1>6. HoldInv'
  <2>1. Range(<<>>) = {} /\ IsInjective(<<>>)
    BY DEF Range, IsInjective
  <2>. QED
    BY <2>1 DEF IInv, HoldInv
<1>7. autoAck' = autoAck /\ UNCHANGED settled
  BY DEF config
<1>8. BrokerInv'
  <2>. SUFFICES ASSUME ~autoAck, NEW m \in Messages PROVE OnePlace(m)'
    BY <1>7 DEF BrokerInv
  <2>1. OnePlace(m)
    BY DEF IInv, BrokerInv
  <2>. QED
    BY <1>7, <2>1, DieBroker
<1>9. CopyInv'
  <2>. SUFFICES ASSUME ~autoAck, NEW m \in Messages, NEW c \in Chans PROVE OneCopy(m, c)'
    BY <1>7 DEF CopyInv
  <2>1. OneCopy(m, c)
    BY DEF IInv, CopyInv
  <2>. QED
    BY <2>1, DieCopies
<1>. QED
  BY <1>1, <1>4, <1>5, <1>6, <1>8, <1>9 DEF IInv

\* The consumer's invariant holds in the service, whose Shutdown closes channels
\* and connections under running loops.
THEOREM ServiceInvariance == ServiceSpec => []IInv
<1>1. IInv /\ [Next]_vars => IInv'
  BY TypeStep, StartStep, HoldStep, BrokerStep, CopyStep DEF IInv
<1>2. IInv /\ [ServiceNext]_serviceVars => IInv'
  BY <1>1, ServiceKinds, ClosingStep
<1>3. ServiceInit => IInv
  BY InitHolds DEF ServiceInit
<1>. QED
  BY <1>2, <1>3, PTL DEF ServiceSpec

\* Shutdown loses no ackable message either: however many calls of it race the
\* consume loop, a message is ready, awaits one answer, or is settled.
THEOREM ShutdownLosesNothing == ServiceSpec => []AckableNeverLost
BY ServiceInvariance, OnePlaceCounts, PTL

\* In the service, too, started is TRUE while a loop runs, so that Shutdown(true)
\* stops it.
THEOREM ShutdownSeesLoop == ServiceSpec => []StartedWhileRunning
<1>1. IInv => StartedWhileRunning
  BY DEF IInv, StartInv, StartedWhileRunning
<1>. QED
  BY <1>1, ServiceInvariance, PTL
=============================================================================
