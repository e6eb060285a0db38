------------------------- MODULE AutoPublisherProofs -------------------------
(***************************************************************************)
(* Proofs about AutoPublisher, for any letters, loops, buffer sizes and    *)
(* retry limits: one loop at a time, one place per letter, and a bound on  *)
(* the publishes of a letter.                                              *)
(***************************************************************************)
EXTENDS AutoPublisher, FiniteSetTheorems, SequenceTheorems, TLAPS

-----------------------------------------------------------------------------
(* The inductive invariant, in parts                                       *)

\* The monitor has a letter exactly while it works on a failure, and every
\* goroutine about to signal was counted as a stop.
MonitorInv ==
    /\ failed # Nil <=> monitor \in {"retry", "requeue", "report"}
    /\ stoppers <= stops

\* The loops: autoStarted covers the life of a loop, a loop has a letter only
\* between receiving and publishing it, and nobody but a loop that ends closes
\* pub.letters.
LoopInv ==
    /\ \A i \in Loops : Alive(i) => autoStarted
    /\ \A i, j \in Loops : Alive(i) /\ Alive(j) => i = j
    /\ \A i \in Loops : hand[i] # Nil => loop[i] = "acquire"
    /\ \A i \in Loops : loop[i] = "acquire" /\ hand[i] = Nil => ~open
    /\ ~open => \E i \in Loops : loop[i] \in {"exit", "dead"}

\* An element of a sequence; a sequence that holds nothing twice.
In(x, s) == \E n \in 1 .. Len(s) : s[n] = x
Once(s) == \A m, n \in 1 .. Len(s) : s[m] = s[n] => m = n

\* Where a letter can be.
Queued(l) == In(l, letters)
Handed(l) == \E i \in Loops : hand[i] = l
Publishing(l) == \E i \in Loops : <<l, i>> \in publishing
Failing(l) == <<l, FALSE>> \in receipts
Retrying(l) == l = failed

Somewhere(l) == Queued(l) \/ Handed(l) \/ Publishing(l) \/ Failing(l) \/ Retrying(l)

\* In at most one of these places.
OnePlace(l) ==
    /\ Queued(l) => ~Handed(l) /\ ~Publishing(l) /\ ~Failing(l) /\ ~Retrying(l)
    /\ Handed(l) => ~Publishing(l) /\ ~Failing(l) /\ ~Retrying(l)
    /\ Publishing(l) => ~Failing(l) /\ ~Retrying(l)
    /\ Failing(l) => ~Retrying(l)

\* On the way to a publish.
Awaiting(l) == Queued(l) \/ Handed(l) \/ (Retrying(l) /\ monitor \in {"retry", "requeue"})

\* A letter is in one place while its fate is open. Every publish but the one
\* under way or the one that succeeded has been counted by RetryCount, and it
\* waits to be published again only with a RetryCount that permits it.
LetterOK(l) ==
    /\ OnePlace(l)
    /\ Somewhere(l) <=> fate[l] = "accepted"
    /\ fate[l] = "new" => attempts[l] = 0
    /\ attempts[l] + StartRetryCount
         = retryCount[l] + (IF Publishing(l) \/ fate[l] = "delivered" THEN 1 ELSE 0)
    /\ Awaiting(l) => attempts[l] = 0 \/ MayRetry(l)

\* A letter is in its place once.
LetterInv ==
    /\ Once(letters)
    /\ \A l \in Letters, i, j \in Loops :
         <<l, i>> \in publishing /\ <<l, j>> \in publishing => i = j
    /\ \A l \in Letters : LetterOK(l)

-----------------------------------------------------------------------------
(* Types                                                                   *)

\* The steps of the publisher, loop by loop and letter by letter.
LEMMA Steps ==
    ASSUME Next
    PROVE  \/ StartAutoPublishing
           \/ \E i \in Loops : LoopStep(i)
           \/ \E l \in Letters : PublishEnds(l)
           \/ \E l \in Letters : QueueLetter(l)
           \/ \E r \in receipts : ReceiveReceipt(r)
           \/ ReportRetry \/ Requeue \/ ReportGivenUp \/ MonitorExit \/ ProcessError
           \/ StopAutoPublish \/ SendAutoStop \/ SignalShutdown \/ MonitorForShutdown
           \/ PoolShutdown
  BY DEF Next, Running, MonitorStep

\* Every step keeps the types: what the monitor queues again is a letter.
LEMMA TypeStep ==
    ASSUME TypeOK, MonitorInv, [Next]_vars
    PROVE  TypeOK' /\ MonitorInv'
<1>. USE NilAssumption, SizesAssumption
     DEF TypeOK, MonitorInv, loopVars, monitorVars, serviceVars, endless, letterVars, GotoLoop,
         Becomes
<1>1. CASE StartAutoPublishing
  <2>1. PICK i \in Loops : GotoLoop(i, "select")
    BY <1>1 DEF StartAutoPublishing
  <2>2. loop' \in [Loops -> {"unborn", "select", "deliver", "acquire", "stop", "exit", "dead"}]
    BY <2>1
  <2>. QED
    BY <1>1, <2>2 DEF StartAutoPublishing
<1>2. ASSUME NEW i \in Loops, LoopSelect(i) PROVE TypeOK' /\ MonitorInv'
  <2>1. loop' \in [Loops -> {"unborn", "select", "deliver", "acquire", "stop", "exit", "dead"}] /\ autoStop' \in BOOLEAN
    BY <1>2 DEF LoopSelect
  <2>. QED
    BY <1>2, <2>1 DEF LoopSelect
<1>3. ASSUME NEW i \in Loops, ReceiveLetter(i) PROVE TypeOK' /\ MonitorInv'
  <2>1. letters' \in Seq(Letters) /\ Len(letters') <= QueueCap
    BY <1>3 DEF ReceiveLetter
  <2>2. hand' \in [Loops -> Letters \cup {Nil}]
    BY <1>3 DEF ReceiveLetter
  <2>. QED
    BY <1>3, <2>1, <2>2 DEF ReceiveLetter
<1>4. ASSUME NEW i \in Loops, LettersIdle(i) PROVE TypeOK' /\ MonitorInv'
  BY <1>4 DEF LettersIdle
<1>5. ASSUME NEW i \in Loops, PublishLetter(i) PROVE TypeOK' /\ MonitorInv'
  <2>1. publishing' \subseteq (Letters \X Loops)
    BY <1>5 DEF PublishLetter
  <2>2. attempts' \in [Letters -> Nat]
    <3>1. \/ attempts' = attempts
          \/ attempts' = [attempts EXCEPT ![hand[i]] = attempts[hand[i]] + 1]
      BY <1>5 DEF PublishLetter
    <3>2. attempts \in [Letters -> Nat]
      OBVIOUS
    <3>. QED
      BY ONLY <3>1, <3>2
  <2>3. /\ loop' \in [Loops -> {"unborn", "select", "deliver", "acquire", "stop", "exit", "dead"}]
        /\ hand' \in [Loops -> Letters \cup {Nil}]
        /\ panicked' \in BOOLEAN
    BY <1>5 DEF PublishLetter
  <2>4. /\ UNCHANGED <<letters, open, autoStarted, stoppers, autoStop, receipts, retryCount, fate>>
        /\ UNCHANGED <<monitor, failed, centralErr, signalled, shutdown, stops, unsendable, poolDown>>
    BY <1>5 DEF PublishLetter
  <2>. QED
    BY <2>1, <2>2, <2>3, <2>4
<1>6. ASSUME NEW i \in Loops, StopCheck(i) PROVE TypeOK' /\ MonitorInv'
  BY <1>6 DEF StopCheck
<1>7. ASSUME NEW i \in Loops, LoopExit(i) PROVE TypeOK' /\ MonitorInv'
  BY <1>7 DEF LoopExit
<1>8. ASSUME NEW l \in Letters, PublishEnds(l) PROVE TypeOK' /\ MonitorInv'
  BY <1>8 DEF PublishEnds, Fates
<1>9. ASSUME NEW l \in Letters, QueueLetter(l) PROVE TypeOK' /\ MonitorInv'
  <2>1. letters' \in Seq(Letters) /\ Len(letters') <= QueueCap
    <3>1. letters' = letters \/ (letters' = Append(letters, l) /\ Len(letters) < QueueCap)
      BY <1>9 DEF QueueLetter
    <3>2. letters \in Seq(Letters) /\ Len(letters) <= QueueCap
      OBVIOUS
    <3>. QED
      BY ONLY <3>1, <3>2, AppendProperties, SizesAssumption, l \in Letters
  <2>2. fate' \in [Letters -> Fates]
    BY <1>9 DEF QueueLetter, Fates
  <2>. QED
    BY <1>9, <2>1, <2>2 DEF QueueLetter
<1>10. ASSUME NEW r \in receipts, ReceiveReceipt(r) PROVE TypeOK' /\ MonitorInv'
  BY <1>10 DEF ReceiveReceipt
<1>11. CASE ReportRetry
  BY <1>11 DEF ReportRetry
<1>12. CASE Requeue
  <2>1. letters' \in Seq(Letters) /\ Len(letters') <= QueueCap
    BY <1>12 DEF Requeue
  <2>. QED
    BY <1>12, <2>1 DEF Requeue
<1>13. CASE ReportGivenUp
  BY <1>13 DEF ReportGivenUp, Fates
<1>14. CASE MonitorExit \/ SignalShutdown \/ MonitorForShutdown \/ PoolShutdown
  <2>1. CASE MonitorExit
    BY <2>1 DEF MonitorExit
  <2>2. CASE SignalShutdown
    BY <2>2 DEF SignalShutdown
  <2>3. CASE MonitorForShutdown
    BY <2>3 DEF MonitorForShutdown
  <2>4. CASE PoolShutdown
    BY <2>4 DEF PoolShutdown
  <2>. QED
    BY <1>14, <2>1, <2>2, <2>3, <2>4
<1>15. CASE ProcessError
  <2>1. centralErr' \in 0 .. ErrCap
    BY <1>15 DEF ProcessError
  <2>. QED
    BY <1>15, <2>1 DEF ProcessError
<1>16. CASE StopAutoPublish
  <2>1. stops' \in 0 .. MaxStops /\ stoppers' \in 0 .. MaxStops /\ stoppers' <= stops'
    BY <1>16 DEF StopAutoPublish
  <2>. QED
    BY <1>16, <2>1 DEF StopAutoPublish
<1>17. CASE SendAutoStop
  <2>1. stops' = stops /\ stoppers' \in 0 .. MaxStops /\ stoppers' <= stops'
    BY <1>17 DEF SendAutoStop
  <2>. QED
    BY <1>17, <2>1 DEF SendAutoStop
<1>18. CASE UNCHANGED vars
  BY <1>18 DEF vars
<1>. QED
  BY <1>1, <1>2, <1>3, <1>4, <1>5, <1>6, <1>7, <1>8, <1>9, <1>10, <1>11, <1>12, <1>13,
     <1>14, <1>15, <1>16, <1>17, <1>18, Steps DEF LoopStep

\* A service just built.
LEMMA TypeInit == Init => TypeOK /\ MonitorInv
<1>. SUFFICES ASSUME Init PROVE TypeOK /\ MonitorInv
  OBVIOUS
<1>1. letters \in Seq(Letters) /\ Len(letters) <= QueueCap
  BY SizesAssumption DEF Init
<1>2. stoppers \in 0 .. MaxStops /\ stops \in 0 .. MaxStops /\ centralErr \in 0 .. ErrCap
  BY SizesAssumption DEF Init
<1>3. retryCount \in [Letters -> Nat] /\ attempts \in [Letters -> Nat]
  BY SizesAssumption DEF Init
<1>4. MonitorInv
  BY DEF Init, MonitorInv
<1>. QED
  BY <1>1, <1>2, <1>3, <1>4 DEF Init, TypeOK, Fates

\* The publisher's buffers, loops and counters keep their types.
THEOREM TypeCorrect == Spec => []TypeOK
<1>1. Spec => [](TypeOK /\ MonitorInv)
  BY TypeInit, TypeStep, PTL DEF Spec
<1>. QED
  BY <1>1, PTL

-----------------------------------------------------------------------------
(* The loops                                                               *)

\* A loop that takes a step other than its last one stays the only one alive.
LEMMA LoopMoves ==
    ASSUME TypeOK, LoopInv, NEW i \in Loops, Alive(i),
           NEW label \in {"select", "deliver", "acquire", "stop", "exit"}, GotoLoop(i, label)
    PROVE  /\ loop'[i] = label
           /\ \A j \in Loops \ {i} : loop'[j] = loop[j] /\ ~Alive(j) /\ ~Alive(j)'
           /\ (\E j \in Loops : loop[j] = "dead") => \E j \in Loops : loop'[j] = "dead"
<1>1. loop'[i] = label /\ \A j \in Loops \ {i} : loop'[j] = loop[j]
  BY DEF GotoLoop, TypeOK
<1>. QED
  BY <1>1 DEF LoopInv, Alive

\* Every step keeps the invariant of the loops.
LEMMA LoopInvStep ==
    ASSUME TypeOK, LoopInv, NilOnlyAfterRestart, [Next]_vars
    PROVE  LoopInv' /\ NilOnlyAfterRestart'
<1>. DEFINE Goal == LoopInv' /\ NilOnlyAfterRestart'
<1>1. CASE StartAutoPublishing
  <2>1. PICK i \in Loops : loop[i] = "unborn" /\ loop' = [loop EXCEPT ![i] = "select"]
    BY <1>1 DEF StartAutoPublishing, GotoLoop
  <2>2. UNCHANGED <<open, hand, panicked>> /\ ~autoStarted /\ autoStarted'
    BY <1>1 DEF StartAutoPublishing
  <2>3. loop'[i] = "select" /\ \A j \in Loops \ {i} : loop'[j] = loop[j]
    BY <2>1 DEF TypeOK
  <2>. QED
    BY <2>1, <2>2, <2>3 DEF LoopInv, NilOnlyAfterRestart, Alive
<1>2. ASSUME NEW i \in Loops, LoopSelect(i) \/ LettersIdle(i) PROVE Goal
  <2>1. /\ Alive(i) /\ loop[i] # "acquire" /\ loop[i] # "exit"
        /\ UNCHANGED <<open, autoStarted, hand, panicked>>
    BY <1>2 DEF LoopSelect, LettersIdle, Alive
  <2>2. PICK label \in {"deliver", "stop", "exit"} : GotoLoop(i, label)
    BY <1>2 DEF LoopSelect, LettersIdle
  <2>. QED
    BY <2>1, <2>2, LoopMoves DEF LoopInv, NilOnlyAfterRestart, Alive
<1>3. ASSUME NEW i \in Loops, ReceiveLetter(i) PROVE Goal
  <2>1. Alive(i) /\ loop[i] = "deliver" /\ UNCHANGED <<open, autoStarted, panicked>>
    BY <1>3 DEF ReceiveLetter, Alive
  <2>2. GotoLoop(i, "acquire")
    BY <1>3 DEF ReceiveLetter
  <2>3. /\ \A j \in Loops \ {i} : hand'[j] = hand[j]
        /\ hand'[i] = Nil => ~open
    BY <1>3, NilAssumption DEF ReceiveLetter, TypeOK
  <2>. QED
    BY <2>1, <2>2, <2>3, LoopMoves DEF LoopInv, NilOnlyAfterRestart, Alive
<1>4. ASSUME NEW i \in Loops, PublishLetter(i) PROVE Goal
  <2>1. Alive(i) /\ loop[i] = "acquire" /\ UNCHANGED <<open, autoStarted>>
    BY <1>4 DEF PublishLetter, Alive
  <2>2. GotoLoop(i, "deliver")
    BY <1>4 DEF PublishLetter
  <2>3. hand'[i] = Nil /\ \A j \in Loops \ {i} : hand'[j] = hand[j]
    BY <1>4 DEF PublishLetter, TypeOK
  <2>4. panicked' => panicked \/ hand[i] = Nil
    BY <1>4 DEF PublishLetter
  <2>. QED
    BY <2>1, <2>2, <2>3, <2>4, LoopMoves DEF LoopInv, NilOnlyAfterRestart, Alive
<1>5. ASSUME NEW i \in Loops, StopCheck(i) PROVE Goal
  <2>1. Alive(i) /\ loop[i] = "stop" /\ UNCHANGED <<autoStarted, hand, panicked>>
    BY <1>5 DEF StopCheck, Alive
  <2>2. PICK label \in {"deliver", "exit"} :
          GotoLoop(i, label) /\ (open' = open \/ label = "exit")
    BY <1>5 DEF StopCheck, TypeOK
  <2>. QED
    BY <2>1, <2>2, LoopMoves DEF LoopInv, NilOnlyAfterRestart, Alive
<1>6. ASSUME NEW i \in Loops, LoopExit(i) PROVE Goal
  <2>1. Alive(i) /\ loop[i] = "exit" /\ UNCHANGED <<open, hand, panicked>>
    BY <1>6 DEF LoopExit, Alive
  <2>2. loop'[i] = "dead" /\ \A j \in Loops \ {i} : loop'[j] = loop[j]
    BY <1>6 DEF LoopExit, GotoLoop, TypeOK
  <2>. QED
    BY <2>1, <2>2 DEF LoopInv, NilOnlyAfterRestart, Alive
<1>7. ASSUME UNCHANGED <<open, autoStarted, loop, hand, panicked>> PROVE Goal
  BY <1>7 DEF LoopInv, NilOnlyAfterRestart, Alive
<1>8. CASE \/ \E l \in Letters : PublishEnds(l) \/ QueueLetter(l)
           \/ \E r \in receipts : ReceiveReceipt(r)
  BY <1>7, <1>8 DEF PublishEnds, QueueLetter, ReceiveReceipt, loopVars
<1>9. CASE \/ ReportRetry \/ Requeue \/ ReportGivenUp \/ MonitorExit \/ ProcessError
           \/ StopAutoPublish \/ SendAutoStop \/ SignalShutdown \/ MonitorForShutdown
           \/ PoolShutdown \/ UNCHANGED vars
  BY <1>7, <1>9 DEF ReportRetry, Requeue, ReportGivenUp, MonitorExit, ProcessError,
                    StopAutoPublish, SendAutoStop, SignalShutdown, MonitorForShutdown, PoolShutdown, vars,
                    loopVars
<1>. QED
  BY <1>1, <1>2, <1>3, <1>4, <1>5, <1>6, <1>8, <1>9, Steps DEF LoopStep

\* The first loop is the only one at first.
LEMMA LoopInit == Init => LoopInv /\ NilOnlyAfterRestart
  BY DEF Init, LoopInv, NilOnlyAfterRestart, Alive

\* What the counted form of the property says.
LEMMA OneLoop ==
    ASSUME LoopInv
    PROVE  AtMostOneLoop
<1>. DEFINE A == {i \in Loops : Alive(i)}
<1>1. CASE A = {}
  BY <1>1, FS_EmptySet DEF AtMostOneLoop
<1>2. CASE A # {}
  <2>1. PICK i \in Loops : A = {i}
    BY <1>2 DEF LoopInv
  <2>. QED
    BY <2>1, FS_Singleton DEF AtMostOneLoop
<1>. QED
  BY <1>1, <1>2

\* However start, stop and the loops' own ends interleave, no two loops ever
\* deliver letters, for any number of restarts.
THEOREM OneLoopAtATime == Spec => []AtMostOneLoop
<1>1. Spec => [](TypeOK /\ LoopInv /\ NilOnlyAfterRestart)
  BY LoopInit, LoopInvStep, TypeCorrect, PTL DEF Spec
<1>2. LoopInv => AtMostOneLoop
  BY OneLoop
<1>. QED
  BY <1>1, <1>2, PTL

\* The nil letter of a closed pub.letters reaches only a loop started after
\* another one has ended.
THEOREM NilNeedsRestart == Spec => []NilOnlyAfterRestart
  BY LoopInit, LoopInvStep, TypeCorrect, PTL DEF Spec

-----------------------------------------------------------------------------
(* The letters                                                             *)

\* Appending a new element.
LEMMA OnceAppend ==
    ASSUME NEW s \in Seq(Letters), NEW x \in Letters, Once(s), ~In(x, s)
    PROVE  /\ Once(Append(s, x))
           /\ \A y : In(y, Append(s, x)) <=> In(y, s) \/ y = x
<1>1. /\ Len(Append(s, x)) = Len(s) + 1 /\ Len(s) \in Nat
      /\ \A n \in 1 .. Len(s) : Append(s, x)[n] = s[n]
      /\ Append(s, x)[Len(s) + 1] = x
  BY AppendProperties, LenProperties
<1>2. \A n \in 1 .. Len(s) + 1 : n \in 1 .. Len(s) \/ n = Len(s) + 1
  BY <1>1
<1>3. Len(s) + 1 \in 1 .. Len(s) + 1 /\ 1 .. Len(s) \subseteq 1 .. Len(s) + 1
  BY <1>1
<1>. QED
  BY <1>1, <1>2, <1>3 DEF Once, In

\* Taking the first element.
LEMMA OnceTail ==
    ASSUME NEW s \in Seq(Letters), s # <<>>, Once(s)
    PROVE  /\ Once(Tail(s))
           /\ In(Head(s), s)
           /\ \A y : In(y, Tail(s)) <=> In(y, s) /\ y # Head(s)
<1>1. /\ Len(s) \in Nat \ {0} /\ Len(Tail(s)) = Len(s) - 1 /\ Head(s) = s[1]
      /\ \A n \in 1 .. Len(s) - 1 : Tail(s)[n] = s[n + 1]
  BY HeadTailProperties, LenProperties, EmptySeq
<1>2. Once(Tail(s))
  BY <1>1 DEF Once
<1>3. In(Head(s), s)
  BY <1>1 DEF In
<1>4. ASSUME NEW y, In(y, Tail(s)) PROVE In(y, s) /\ y # Head(s)
  BY <1>1, <1>4 DEF In, Once
<1>5. ASSUME NEW y, In(y, s), y # Head(s) PROVE In(y, Tail(s))
  <2>1. PICK n \in 1 .. Len(s) : s[n] = y
    BY <1>5 DEF In
  <2>2. n - 1 \in 1 .. Len(s) - 1 /\ s[(n - 1) + 1] = y
    BY <1>1, <1>5, <2>1
  <2>. QED
    BY <1>1, <2>2 DEF In
<1>. QED
  BY <1>2, <1>3, <1>4, <1>5

\* What a step leaves alone of a letter.
Kept(m) ==
    /\ Queued(m)' <=> Queued(m)
    /\ Handed(m)' <=> Handed(m)
    /\ Publishing(m)' <=> Publishing(m)
    /\ Failing(m)' <=> Failing(m)
    /\ Retrying(m)' <=> Retrying(m)
    /\ Awaiting(m)' => Awaiting(m)
    /\ fate'[m] = fate[m] /\ attempts'[m] = attempts[m] /\ retryCount'[m] = retryCount[m]

\* A letter the step leaves alone stays in order.
LEMMA KeptOK ==
    ASSUME NEW m, LetterOK(m), Kept(m)
    PROVE  LetterOK(m)'
  BY DEF Kept, LetterOK, OnePlace, Somewhere, MayRetry

\* deliverLetters moves the first letter from the buffer to the loop's hand.
LEMMA ReceiveLetterOK ==
    ASSUME TypeOK, LoopInv, LetterInv, NEW i \in Loops, ReceiveLetter(i)
    PROVE  LetterInv'
<1>0. UNCHANGED <<publishing, receipts, monitor, failed, fate, attempts, retryCount>>
  BY DEF ReceiveLetter, monitorVars, letterVars
<1>1. hand[i] = Nil /\ hand \in [Loops -> Letters \cup {Nil}] /\ letters \in Seq(Letters)
  BY DEF ReceiveLetter, LoopInv, TypeOK
<1>2. CASE letters = <<>>
  <2>1. letters' = letters /\ hand' = hand
    BY <1>1, <1>2 DEF ReceiveLetter
  <2>2. \A m \in Letters : Kept(m)
    BY <1>0, <2>1 DEF Kept, Queued, Handed, Publishing, Failing, Retrying, Awaiting
  <2>. QED
    BY <1>0, <2>1, <2>2, KeptOK DEF LetterInv
<1>3. CASE letters # <<>>
  <2>0. PICK l \in Letters : l = Head(letters)
    BY <1>1, <1>3, HeadTailProperties
  <2>1. letters' = Tail(letters) /\ hand' = [hand EXCEPT ![i] = l]
    BY <1>1, <1>3, <2>0 DEF ReceiveLetter
  <2>2. Once(letters') /\ Queued(l) /\ \A m : Queued(m)' <=> Queued(m) /\ m # l
    BY <1>1, <1>3, <2>0, <2>1, OnceTail DEF LetterInv, Queued
  <2>3. Handed(l)' /\ \A m \in Letters \ {l} : Handed(m)' <=> Handed(m)
    BY <1>1, <2>1, NilAssumption DEF Handed
  <2>4. \A m \in Letters : /\ Publishing(m)' <=> Publishing(m)
                           /\ Failing(m)' <=> Failing(m)
                           /\ Retrying(m)' <=> Retrying(m)
    BY <1>0 DEF Publishing, Failing, Retrying
  <2>5. ASSUME NEW m \in Letters \ {l} PROVE LetterOK(m)'
    <3>1. Kept(m)
      BY <1>0, <2>2, <2>3, <2>4 DEF Kept, Awaiting
    <3>. QED
      BY <3>1, KeptOK DEF LetterInv
  <2>6. LetterOK(l)'
    BY <1>0, <2>1, <2>2, <2>3, <2>4
       DEF LetterInv, LetterOK, OnePlace, Somewhere, Awaiting, MayRetry
  <2>. QED
    BY <1>0, <2>1, <2>2, <2>5, <2>6 DEF LetterInv
<1>. QED
  BY <1>2, <1>3

\* A publishing goroutine takes the letter from the loop's hand.
LEMMA PublishLetterOK ==
    ASSUME TypeOK, LoopInv, LetterInv, AttemptsBounded, NEW i \in Loops, PublishLetter(i)
    PROVE  LetterInv' /\ AttemptsBounded'
<1>0. UNCHANGED <<letters, receipts, monitor, failed, fate, retryCount>>
  BY DEF PublishLetter, monitorVars, letterVars
<1>1. /\ hand \in [Loops -> Letters \cup {Nil}] /\ attempts \in [Letters -> Nat]
      /\ hand' = [hand EXCEPT ![i] = Nil]
  BY DEF PublishLetter, TypeOK
<1>2. CASE hand[i] = Nil
  <2>1. hand' = hand /\ UNCHANGED <<publishing, attempts>>
    BY <1>1, <1>2 DEF PublishLetter
  <2>2. \A m \in Letters : Kept(m)
    BY <1>0, <2>1 DEF Kept, Queued, Handed, Publishing, Failing, Retrying, Awaiting
  <2>. QED
    BY <1>0, <2>1, <2>2, KeptOK DEF LetterInv, AttemptsBounded
<1>3. CASE hand[i] # Nil
  <2>0. PICK l \in Letters : l = hand[i]
    BY <1>1, <1>3
  <2>1. /\ publishing' = publishing \cup {<<l, i>>}
        /\ attempts' = [attempts EXCEPT ![l] = @ + 1]
    BY <1>1, <1>3, <2>0 DEF PublishLetter
  <2>2. \A j \in Loops : hand[j] = l => j = i
    BY <1>3, <2>0 DEF LoopInv, Alive
  <2>3. Handed(l) /\ ~Handed(l)' /\ \A m \in Letters \ {l} : Handed(m)' <=> Handed(m)
    BY <1>1, <2>0, <2>2, NilAssumption DEF Handed
  <2>4. Publishing(l)' /\ \A m \in Letters \ {l} : Publishing(m)' <=> Publishing(m)
    BY <2>1 DEF Publishing
  <2>5. \A m \in Letters : /\ Queued(m)' <=> Queued(m)
                           /\ Failing(m)' <=> Failing(m)
                           /\ Retrying(m)' <=> Retrying(m)
    BY <1>0 DEF Queued, Failing, Retrying
  <2>6. \A m \in Letters : attempts'[m] = IF m = l THEN attempts[m] + 1 ELSE attempts[m]
    BY <1>1, <2>1
  <2>7. ASSUME NEW m \in Letters \ {l} PROVE LetterOK(m)'
    <3>1. Kept(m)
      BY <1>0, <2>3, <2>4, <2>5, <2>6 DEF Kept, Awaiting
    <3>. QED
      BY <3>1, KeptOK DEF LetterInv
  <2>8. /\ OnePlace(l) /\ ~Publishing(l) /\ fate[l] = "accepted"
        /\ attempts[l] + StartRetryCount = retryCount[l]
        /\ attempts[l] = 0 \/ retryCount[l] <= MaxRetryCount
    <3>1. LetterOK(l)
      BY <2>1 DEF LetterInv
    <3>2. OnePlace(l) /\ ~Publishing(l) /\ fate[l] = "accepted"
      BY <2>3, <3>1 DEF LetterOK, OnePlace, Somewhere
    <3>3. attempts[l] = 0 \/ retryCount[l] <= MaxRetryCount
      BY <2>3, <3>1 DEF LetterOK, Awaiting, MayRetry
    <3>4. attempts[l] \in Nat /\ retryCount[l] \in Nat
      BY <2>1 DEF TypeOK
    <3>. QED
      BY <3>1, <3>2, <3>3, <3>4, SizesAssumption DEF LetterOK
  <2>9. LetterOK(l)'
    <3>1. OnePlace(l)' /\ Somewhere(l)' /\ ~Awaiting(l)'
      BY <2>1, <2>3, <2>4, <2>5, <2>8 DEF OnePlace, Somewhere, Awaiting
    <3>2. attempts'[l] + StartRetryCount = retryCount'[l] + 1
      BY <1>0, <1>1, <2>1, <2>6, <2>8, SizesAssumption DEF TypeOK
    <3>. QED
      BY <1>0, <2>4, <2>8, <3>1, <3>2 DEF LetterOK
  <2>10. AttemptsBounded'
    <3>1. attempts[l] \in Nat /\ retryCount[l] \in Nat
      BY <2>1 DEF TypeOK
    <3>2. attempts[l] + 1 <= 1 + (IF MaxRetryCount > StartRetryCount
                                   THEN MaxRetryCount - StartRetryCount ELSE 0)
      BY <2>8, <3>1, SizesAssumption
    <3>. QED
      BY <2>6, <3>2 DEF AttemptsBounded
  <2>11. \A m \in Letters, j, k \in Loops :
           <<m, j>> \in publishing' /\ <<m, k>> \in publishing' => j = k
    BY <2>1, <2>8 DEF LetterInv, Publishing
  <2>12. Once(letters)'
    BY <1>0 DEF LetterInv, Once
  <2>. QED
    BY <2>7, <2>9, <2>10, <2>11, <2>12 DEF LetterInv
<1>. QED
  BY <1>2, <1>3

\* A publish ends: the letter is delivered, or its receipt is on the way.
LEMMA PublishEndsOK ==
    ASSUME TypeOK, LetterInv, NEW l \in Letters, PublishEnds(l)
    PROVE  LetterInv'
<1>0. UNCHANGED <<letters, hand, monitor, failed, attempts>>
  BY DEF PublishEnds, monitorVars, loopVars
<1>1. PICK success \in BOOLEAN :
        /\ receipts' = receipts \cup {<<l, success>>}
        /\ retryCount' = [retryCount EXCEPT ![l] = IF success THEN @ ELSE @ + 1]
        /\ fate' = [fate EXCEPT ![l] = IF success THEN "delivered" ELSE fate[l]]
  BY DEF PublishEnds, Becomes
<1>2. publishing' = {p \in publishing : p[1] # l} /\ Publishing(l)
  BY DEF PublishEnds, Publishing
<1>3. ~Publishing(l)' /\ \A m \in Letters \ {l} : Publishing(m)' <=> Publishing(m)
  BY <1>2 DEF Publishing
<1>4. (~success => Failing(l)') /\ (success => (Failing(l)' <=> Failing(l)))
  BY <1>1 DEF Failing
<1>5. \A m \in Letters \ {l} : Failing(m)' <=> Failing(m)
  BY <1>1 DEF Failing
<1>6. \A m \in Letters : /\ Queued(m)' <=> Queued(m)
                         /\ Handed(m)' <=> Handed(m)
                         /\ Retrying(m)' <=> Retrying(m)
  BY <1>0 DEF Queued, Handed, Retrying
<1>7. /\ \A m \in Letters \ {l} : retryCount'[m] = retryCount[m] /\ fate'[m] = fate[m]
      /\ retryCount'[l] = IF success THEN retryCount[l] ELSE retryCount[l] + 1
      /\ fate'[l] = IF success THEN "delivered" ELSE fate[l]
  BY <1>1 DEF TypeOK
<1>8. ASSUME NEW m \in Letters \ {l} PROVE LetterOK(m)'
  <2>1. Kept(m)
    BY <1>0, <1>3, <1>5, <1>6, <1>7 DEF Kept, Awaiting
  <2>. QED
    BY <2>1, KeptOK DEF LetterInv
<1>9. LetterOK(l)'
  <2>1. LetterOK(l)
    BY DEF LetterInv
  <2>2. /\ ~Queued(l) /\ ~Handed(l) /\ ~Failing(l) /\ ~Retrying(l)
        /\ fate[l] = "accepted" /\ attempts[l] + StartRetryCount = retryCount[l] + 1
    BY <1>2, <2>1 DEF LetterOK, OnePlace, Somewhere
  <2>3. OnePlace(l)' /\ ~Awaiting(l)' /\ (Somewhere(l)' <=> ~success)
    BY <1>3, <1>4, <1>6, <2>2 DEF OnePlace, Somewhere, Awaiting
  <2>4. attempts'[l] + StartRetryCount = retryCount'[l] + IF success THEN 1 ELSE 0
    BY <1>0, <1>7, <2>2, SizesAssumption DEF TypeOK
  <2>. QED
    BY <1>3, <1>7, <2>2, <2>3, <2>4 DEF LetterOK
<1>10. \A m \in Letters, j, k \in Loops :
         <<m, j>> \in publishing' /\ <<m, k>> \in publishing' => j = k
  BY <1>2 DEF LetterInv
<1>. QED
  BY <1>0, <1>8, <1>9, <1>10 DEF LetterInv, Once

\* processPublishReceipts takes a receipt; a failed letter is now its own.
LEMMA ReceiveReceiptOK ==
    ASSUME TypeOK, MonitorInv, LetterInv, NEW r \in receipts, ReceiveReceipt(r)
    PROVE  LetterInv'
<1>0. UNCHANGED <<letters, hand, publishing, fate, attempts, retryCount>>
  BY DEF ReceiveReceipt, loopVars, letterVars
<1>1. receipts' = receipts \ {r} /\ failed = Nil
  BY DEF ReceiveReceipt, MonitorInv
<1>2. PICK l \in Letters, success \in BOOLEAN : r = <<l, success>>
  BY DEF TypeOK
<1>3. \A m \in Letters : /\ Queued(m)' <=> Queued(m)
                         /\ Handed(m)' <=> Handed(m)
                         /\ Publishing(m)' <=> Publishing(m)
  BY <1>0 DEF Queued, Handed, Publishing
<1>4. \A m \in Letters \ {l} : Failing(m)' <=> Failing(m)
  BY <1>1, <1>2 DEF Failing
<1>5. CASE success
  <2>1. UNCHANGED <<monitor, failed>> /\ \A m \in Letters : Failing(m)' <=> Failing(m)
    BY <1>1, <1>2, <1>5 DEF ReceiveReceipt, Failing
  <2>2. \A m \in Letters : Kept(m)
    BY <1>0, <1>3, <2>1 DEF Kept, Retrying, Awaiting
  <2>. QED
    BY <1>0, <2>2, KeptOK DEF LetterInv, Once
<1>6. CASE ~success
  <2>1. failed' = l /\ (monitor' = "retry" => MayRetry(l)) /\ monitor' \in {"retry", "report"}
    BY <1>2, <1>6 DEF ReceiveReceipt
  <2>2. Failing(l) /\ ~Failing(l)' /\ Retrying(l)'
    BY <1>1, <1>2, <1>6, <2>1 DEF Failing, Retrying
  <2>3. \A m \in Letters \ {l} : ~Retrying(m)' /\ ~Retrying(m)
    BY <1>1, <2>1, NilAssumption DEF Retrying
  <2>4. ASSUME NEW m \in Letters \ {l} PROVE LetterOK(m)'
    <3>1. Kept(m)
      BY <1>0, <1>3, <1>4, <2>3 DEF Kept, Awaiting
    <3>. QED
      BY <3>1, KeptOK DEF LetterInv
  <2>5. LetterOK(l)'
    <3>1. LetterOK(l)
      BY DEF LetterInv
    <3>2. ~Queued(l) /\ ~Handed(l) /\ ~Publishing(l) /\ fate[l] = "accepted"
      BY <2>2, <3>1 DEF LetterOK, OnePlace, Somewhere
    <3>3. OnePlace(l)' /\ Somewhere(l)' /\ (Awaiting(l)' => MayRetry(l))
      BY <1>3, <2>1, <2>2, <3>2 DEF OnePlace, Somewhere, Awaiting
    <3>. QED
      BY <1>0, <1>3, <3>1, <3>2, <3>3 DEF LetterOK, MayRetry
  <2>. QED
    BY <1>0, <2>4, <2>5 DEF LetterInv, Once
<1>. QED
  BY <1>5, <1>6

\* The failed letter goes back to the buffer, or stays with the monitor when
\* the publisher is shut down.
LEMMA RequeueOK ==
    ASSUME TypeOK, MonitorInv, LetterInv, Requeue
    PROVE  LetterInv'
<1>0. UNCHANGED <<hand, publishing, receipts, fate, attempts, retryCount>> /\ monitor = "requeue"
  BY DEF Requeue, loopVars, letterVars
<1>1. PICK l \in Letters : l = failed
  BY <1>0 DEF MonitorInv, TypeOK
<1>2. \A m \in Letters : /\ Failing(m)' <=> Failing(m)
                         /\ Handed(m)' <=> Handed(m)
                         /\ Publishing(m)' <=> Publishing(m)
  BY <1>0 DEF Failing, Handed, Publishing
<1>3. CASE ~open
  <2>1. UNCHANGED <<letters, failed>> /\ monitor' = "report"
    BY <1>3 DEF Requeue
  <2>2. \A m \in Letters : Kept(m)
    BY <1>0, <1>2, <2>1 DEF Kept, Queued, Retrying, Awaiting
  <2>. QED
    BY <1>0, <2>1, <2>2, KeptOK DEF LetterInv, Once
<1>4. CASE open
  <2>1. letters' = Append(letters, l) /\ failed' = Nil
    BY <1>1, <1>4 DEF Requeue
  <2>2. Retrying(l) /\ \A m \in Letters : ~Retrying(m)' /\ (m # l => ~Retrying(m))
    BY <1>1, <2>1, NilAssumption DEF Retrying
  <2>3. LetterOK(l)
    BY DEF LetterInv
  <2>4. ~Queued(l) /\ ~Handed(l) /\ ~Publishing(l) /\ ~Failing(l) /\ fate[l] = "accepted"
    BY <2>2, <2>3 DEF LetterOK, OnePlace, Somewhere
  <2>5. Once(letters') /\ \A m : Queued(m)' <=> Queued(m) \/ m = l
    BY <2>1, <2>4, OnceAppend DEF LetterInv, Queued, TypeOK
  <2>6. ASSUME NEW m \in Letters \ {l} PROVE LetterOK(m)'
    <3>1. Kept(m)
      BY <1>0, <1>2, <2>2, <2>5 DEF Kept, Awaiting
    <3>. QED
      BY <3>1, KeptOK DEF LetterInv
  <2>7. LetterOK(l)'
    <3>1. OnePlace(l)' /\ Somewhere(l)' /\ Awaiting(l)
      BY <1>0, <1>2, <2>2, <2>4, <2>5 DEF OnePlace, Somewhere, Awaiting
    <3>. QED
      BY <1>0, <1>2, <2>3, <2>4, <3>1 DEF LetterOK, MayRetry
  <2>. QED
    BY <1>0, <2>5, <2>6, <2>7 DEF LetterInv
<1>. QED
  BY <1>3, <1>4

\* The monitor gives the failed letter up.
LEMMA ReportGivenUpOK ==
    ASSUME TypeOK, MonitorInv, LetterInv, ReportGivenUp
    PROVE  LetterInv'
<1>0. UNCHANGED <<letters, hand, publishing, receipts, attempts, retryCount>>
  BY DEF ReportGivenUp, loopVars
<1>1. PICK l \in Letters : l = failed
  BY DEF ReportGivenUp, MonitorInv, TypeOK
<1>2. failed' = Nil /\ fate'[l] \in {"dropped", "exhausted"}
      /\ \A m \in Letters \ {l} : fate'[m] = fate[m]
  BY <1>1 DEF ReportGivenUp, Becomes, TypeOK
<1>3. \A m \in Letters : /\ Failing(m)' <=> Failing(m)
                         /\ Handed(m)' <=> Handed(m)
                         /\ Publishing(m)' <=> Publishing(m)
                         /\ Queued(m)' <=> Queued(m)
  BY <1>0 DEF Failing, Handed, Publishing, Queued
<1>4. Retrying(l) /\ \A m \in Letters : ~Retrying(m)' /\ (m # l => ~Retrying(m))
  BY <1>1, <1>2, NilAssumption DEF Retrying
<1>5. ASSUME NEW m \in Letters \ {l} PROVE LetterOK(m)'
  <2>1. Kept(m)
    BY <1>0, <1>2, <1>3, <1>4 DEF Kept, Awaiting
  <2>. QED
    BY <2>1, KeptOK DEF LetterInv
<1>6. LetterOK(l)'
  <2>1. LetterOK(l)
    BY DEF LetterInv
  <2>2. /\ ~Queued(l) /\ ~Handed(l) /\ ~Publishing(l) /\ ~Failing(l)
        /\ fate[l] = "accepted" /\ attempts[l] + StartRetryCount = retryCount[l] + 0
    BY <1>4, <2>1 DEF LetterOK, OnePlace, Somewhere
  <2>3. OnePlace(l)' /\ ~Somewhere(l)' /\ ~Awaiting(l)'
    BY <1>3, <1>4, <2>2 DEF OnePlace, Somewhere, Awaiting
  <2>. QED
    BY <1>0, <1>2, <1>3, <2>2, <2>3 DEF LetterOK
<1>. QED
  BY <1>0, <1>5, <1>6 DEF LetterInv, Once

\* A user's letter is refused or enters the buffer.
LEMMA QueueLetterOK ==
    ASSUME TypeOK, LetterInv, NEW l \in Letters, QueueLetter(l)
    PROVE  LetterInv'
<1>0. UNCHANGED <<hand, publishing, receipts, monitor, failed, attempts, retryCount>>
  BY DEF QueueLetter, loopVars, monitorVars
<1>1. \A m \in Letters : /\ Failing(m)' <=> Failing(m)
                         /\ Handed(m)' <=> Handed(m)
                         /\ Publishing(m)' <=> Publishing(m)
                         /\ Retrying(m)' <=> Retrying(m)
  BY <1>0 DEF Failing, Handed, Publishing, Retrying
<1>2. LetterOK(l) /\ fate[l] = "new"
  BY DEF LetterInv, QueueLetter
<1>3. /\ ~Queued(l) /\ ~Handed(l) /\ ~Publishing(l) /\ ~Failing(l) /\ ~Retrying(l)
      /\ attempts[l] = 0 /\ attempts[l] + StartRetryCount = retryCount[l] + 0
  BY <1>2 DEF LetterOK, Somewhere
<1>4. \A m \in Letters \ {l} : fate'[m] = fate[m]
  BY DEF QueueLetter, Becomes, TypeOK
<1>5. CASE letters' = letters /\ fate'[l] = "refused"
  <2>1. \A m \in Letters : Queued(m)' <=> Queued(m)
    BY <1>5 DEF Queued
  <2>2. ASSUME NEW m \in Letters \ {l} PROVE LetterOK(m)'
    <3>1. Kept(m)
      BY <1>0, <1>1, <1>4, <2>1 DEF Kept, Awaiting
    <3>. QED
      BY <3>1, KeptOK DEF LetterInv
  <2>3. LetterOK(l)'
    <3>1. OnePlace(l)' /\ ~Somewhere(l)' /\ ~Awaiting(l)'
      BY <1>1, <1>3, <2>1 DEF OnePlace, Somewhere, Awaiting
    <3>. QED
      BY <1>0, <1>1, <1>3, <1>5, <3>1 DEF LetterOK
  <2>. QED
    BY <1>0, <1>5, <2>2, <2>3 DEF LetterInv
<1>6. CASE letters' = Append(letters, l) /\ fate'[l] = "accepted"
  <2>1. Once(letters') /\ \A m : Queued(m)' <=> Queued(m) \/ m = l
    BY <1>3, <1>6, OnceAppend DEF LetterInv, Queued, TypeOK
  <2>2. ASSUME NEW m \in Letters \ {l} PROVE LetterOK(m)'
    <3>1. Kept(m)
      BY <1>0, <1>1, <1>4, <2>1 DEF Kept, Awaiting
    <3>. QED
      BY <3>1, KeptOK DEF LetterInv
  <2>3. LetterOK(l)'
    <3>1. OnePlace(l)' /\ Somewhere(l)'
      BY <1>1, <1>3, <2>1 DEF OnePlace, Somewhere
    <3>. QED
      BY <1>0, <1>1, <1>3, <1>6, <3>1 DEF LetterOK
  <2>. QED
    BY <1>0, <2>1, <2>2, <2>3 DEF LetterInv
<1>. QED
  BY <1>5, <1>6 DEF QueueLetter, Becomes, TypeOK

\* Every step keeps the letters in order and their publishes bounded.
LEMMA LetterStep ==
    ASSUME TypeOK, MonitorInv, LoopInv, LetterInv, AttemptsBounded, [Next]_vars
    PROVE  LetterInv' /\ AttemptsBounded'
<1>1. ASSUME UNCHANGED <<letters, hand, publishing, receipts, failed, fate, attempts, retryCount>>,
             monitor' = monitor \/ monitor \in {"retry", "poll"}
      PROVE  LetterInv' /\ AttemptsBounded'
  <2>1. \A m \in Letters : Retrying(m) => monitor # "poll"
    BY NilAssumption DEF Retrying, MonitorInv
  <2>2. \A m \in Letters : Kept(m)
    BY <1>1, <2>1 DEF Kept, Queued, Handed, Publishing, Failing, Retrying, Awaiting
  <2>. QED
    BY <1>1, <2>2, KeptOK DEF LetterInv, Once, AttemptsBounded
<1>2. ASSUME NEW i \in Loops, LoopStep(i) PROVE LetterInv' /\ AttemptsBounded'
  <2>1. CASE LoopSelect(i) \/ LettersIdle(i) \/ StopCheck(i) \/ LoopExit(i)
    BY <1>1, <2>1 DEF LoopSelect, LettersIdle, StopCheck, LoopExit, monitorVars, letterVars
  <2>2. CASE ReceiveLetter(i)
    BY <2>2, ReceiveLetterOK DEF ReceiveLetter, letterVars, AttemptsBounded
  <2>3. CASE PublishLetter(i)
    BY <2>3, PublishLetterOK
  <2>. QED
    BY <1>2, <2>1, <2>2, <2>3 DEF LoopStep
<1>3. ASSUME NEW l \in Letters, PublishEnds(l) \/ QueueLetter(l)
      PROVE  LetterInv' /\ AttemptsBounded'
  BY <1>3, PublishEndsOK, QueueLetterOK DEF PublishEnds, QueueLetter, AttemptsBounded
<1>4. ASSUME NEW r \in receipts, ReceiveReceipt(r) PROVE LetterInv' /\ AttemptsBounded'
  BY <1>4, ReceiveReceiptOK DEF ReceiveReceipt, letterVars, AttemptsBounded
<1>5. CASE Requeue \/ ReportGivenUp
  BY <1>5, RequeueOK, ReportGivenUpOK DEF Requeue, ReportGivenUp, letterVars, AttemptsBounded
<1>6. CASE \/ StartAutoPublishing \/ ReportRetry \/ MonitorExit \/ ProcessError
           \/ StopAutoPublish \/ SendAutoStop \/ SignalShutdown \/ MonitorForShutdown
           \/ PoolShutdown \/ UNCHANGED vars
  BY <1>1, <1>6 DEF StartAutoPublishing, ReportRetry, MonitorExit, ProcessError, StopAutoPublish,
                    SendAutoStop, SignalShutdown, MonitorForShutdown, PoolShutdown, vars,
                    loopVars, monitorVars, letterVars
<1>. QED
  BY <1>2, <1>3, <1>4, <1>5, <1>6, Steps

\* No letter is anywhere at first.
LEMMA LetterInit == Init => LetterInv /\ AttemptsBounded
<1>. SUFFICES ASSUME Init PROVE LetterInv /\ AttemptsBounded
  OBVIOUS
<1>1. Len(letters) = 0
  BY EmptySeq DEF Init
<1>2. ASSUME NEW l \in Letters PROVE LetterOK(l)
  <2>1. ~Somewhere(l) /\ ~Awaiting(l)
    BY <1>1, NilAssumption
       DEF Init, Somewhere, Awaiting, Queued, In, Handed, Publishing, Failing, Retrying
  <2>2. attempts[l] = 0 /\ retryCount[l] = StartRetryCount /\ fate[l] = "new"
    BY DEF Init
  <2>. QED
    BY <2>1, <2>2, SizesAssumption DEF LetterOK, OnePlace, Somewhere
<1>3. Once(letters)
  BY <1>1 DEF Once
<1>4. AttemptsBounded
  BY SizesAssumption DEF Init, AttemptsBounded
<1>. QED
  BY <1>2, <1>3, <1>4 DEF Init, LetterInv

\* The inductive invariant of the whole publisher.
IInv ==
    /\ TypeOK /\ MonitorInv
    /\ LoopInv /\ NilOnlyAfterRestart
    /\ LetterInv /\ AttemptsBounded

\* It holds in every reachable state.
THEOREM Invariance == Spec => []IInv
<1>1. Init => IInv
  BY TypeInit, LoopInit, LetterInit DEF IInv
<1>2. IInv /\ [Next]_vars => IInv'
  BY TypeStep, LoopInvStep, LetterStep DEF IInv
<1>. QED
  BY <1>1, <1>2, PTL DEF Spec

\* A letter is published at most once more than it has retries left, for any
\* number of letters, retries, restarts and shutdowns.
THEOREM RetriesBounded == Spec => []AttemptsBounded
<1>1. IInv => AttemptsBounded
  BY DEF IInv
<1>. QED
  BY <1>1, Invariance, PTL

\* A set with at most one element, counted.
LEMMA CountOne ==
    ASSUME NEW S, \A x, y \in S : x = y
    PROVE  Cardinality(S) = IF S = {} THEN 0 ELSE 1
<1>1. CASE S = {}
  BY <1>1, FS_EmptySet
<1>2. CASE S # {}
  <2>1. PICK x \in S : S = {x}
    BY <1>2
  <2>. QED
    BY <2>1, FS_Singleton
<1>. QED
  BY <1>1, <1>2

\* Counting the places of a letter that is in one place, once.
LEMMA PlacesCounted ==
    ASSUME IInv
    PROVE  LetterConserved
<1>. SUFFICES ASSUME NEW l \in Letters
              PROVE  Cardinality({n \in DOMAIN letters : letters[n] = l})
                       + Cardinality({i \in Loops : hand[i] = l})
                       + Cardinality({r \in receipts : r[1] = l /\ ~r[2]})
                       + Cardinality({p \in publishing : p[1] = l})
                       + (IF l = failed THEN 1 ELSE 0)
                     = IF fate[l] = "accepted" THEN 1 ELSE 0
  BY DEF LetterConserved
<1>1. LetterOK(l) /\ Once(letters)
  BY DEF IInv, LetterInv
<1>2. Cardinality({n \in DOMAIN letters : letters[n] = l}) = IF Queued(l) THEN 1 ELSE 0
  <2>. DEFINE S == {n \in DOMAIN letters : letters[n] = l}
  <2>1. DOMAIN letters = 1 .. Len(letters)
    BY LenProperties DEF IInv, TypeOK
  <2>2. \A x, y \in S : x = y
    BY <1>1, <2>1 DEF Once
  <2>3. S # {} <=> Queued(l)
    BY <2>1 DEF Queued, In
  <2>. QED
    BY <2>2, <2>3, CountOne
<1>3. Cardinality({i \in Loops : hand[i] = l}) = IF Handed(l) THEN 1 ELSE 0
  <2>. DEFINE S == {i \in Loops : hand[i] = l}
  <2>1. \A x, y \in S : x = y
    BY NilAssumption DEF IInv, LoopInv, Alive
  <2>2. S # {} <=> Handed(l)
    BY DEF Handed
  <2>. QED
    BY <2>1, <2>2, CountOne
<1>4. Cardinality({r \in receipts : r[1] = l /\ ~r[2]}) = IF Failing(l) THEN 1 ELSE 0
  <2>. DEFINE S == {r \in receipts : r[1] = l /\ ~r[2]}
  <2>1. ASSUME NEW r \in S PROVE r = <<l, FALSE>>
    <3>1. PICK m \in Letters, b \in BOOLEAN : r = <<m, b>>
      BY DEF IInv, TypeOK
    <3>2. m = l /\ ~b
      BY <3>1
    <3>. QED
      BY <3>1, <3>2
  <2>2. Failing(l) => <<l, FALSE>> \in S
    BY DEF Failing
  <2>3. S # {} <=> Failing(l)
    BY <2>1, <2>2 DEF Failing
  <2>. QED
    BY <2>1, <2>3, CountOne
<1>5. Cardinality({p \in publishing : p[1] = l}) = IF Publishing(l) THEN 1 ELSE 0
  <2>. DEFINE S == {p \in publishing : p[1] = l}
  <2>1. \A p \in S : \E i \in Loops : p = <<l, i>>
    BY DEF IInv, TypeOK
  <2>2. \A x, y \in S : x = y
    BY <2>1 DEF IInv, LetterInv
  <2>3. \A i \in Loops : <<l, i>> \in publishing => <<l, i>> \in S
    OBVIOUS
  <2>4. S # {} <=> Publishing(l)
    BY <2>1, <2>3 DEF Publishing
  <2>. QED
    BY <2>2, <2>4, CountOne
<1>. QED
  BY <1>1, <1>2, <1>3, <1>4, <1>5 DEF LetterOK, OnePlace, Somewhere, Retrying

\* An accepted letter is in exactly one place until its fate is known, for any
\* number of letters and loops: the goroutines neither lose nor double one.
THEOREM NoLetterLost == Spec => []LetterConserved
<1>1. IInv => LetterConserved
  BY PlacesCounted
<1>. QED
  BY <1>1, Invariance, PTL
=============================================================================
