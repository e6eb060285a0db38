---------------------------- MODULE AutoPublisher ----------------------------
(***************************************************************************)
(* The auto-publisher of publisher.go and the goroutines of                *)
(* rabbitservice.go around it: users queue letters, a loop hands them to   *)
(* publishing goroutines, receipts go to processPublishReceipts, which     *)
(* queues failed letters again, errors go to processErrors, and Shutdown   *)
(* stops all of them.                                                      *)
(*                                                                         *)
(* One publishing goroutine is PublishWithConfirmation (PublishConfirm):   *)
(* it ends with success or with an error, or it never ends, because the    *)
(* library refuses the letter or the pool has no channel left.             *)
(***************************************************************************)
EXTENDS Naturals, Sequences, FiniteSets

CONSTANTS Letters,        \* the letters users queue
          Nil,            \* the zero value a closed channel yields
          MaxStarts,      \* bound: auto-publishing loops ever started
          QueueCap,       \* capacity of letters (1000 in the code)
          Slots,          \* MaxCacheChannelCount/2+1 parallel publishes
          ErrCap,         \* capacity of centralErr (1000 in the code)
          StartRetryCount,\* RetryCount of a new letter (3 in message.go)
          MaxRetryCount,  \* PublisherConfig.MaxRetryCount
          MaxStops        \* bound: calls of Publisher.Shutdown

ASSUME NilAssumption == Nil \notin Letters

ASSUME SizesAssumption ==
    /\ QueueCap \in Nat \ {0}
    /\ Slots \in Nat \ {0}
    /\ ErrCap \in Nat \ {0}
    /\ StartRetryCount \in Nat
    /\ MaxRetryCount \in Nat
    /\ MaxStops \in Nat
    /\ MaxStarts \in Nat \ {0}

Loops == 1 .. MaxStarts

VARIABLES
    letters,     \* the buffer of pub.letters
    open,        \* pub.letters is not closed
    autoStarted, \* pub.autoStarted
    stoppers,    \* goroutines about to send on pub.autoStop
    autoStop,    \* a signal is buffered in pub.autoStop
    loop,        \* where each loop is
    hand,        \* the letter a loop has received
    publishing,  \* letters being published, each with the loop that started it
    receipts,    \* receipts on their way to or in pub.publishReceipts
    monitor,     \* where processPublishReceipts is
    failed,      \* the failed letter it works on
    centralErr,  \* errors buffered in rs.centralErr
    signalled,   \* rs.shutdownSignal was sent
    shutdown,    \* rs.shutdown
    retryCount,  \* letter.opts.RetryCount
    attempts,    \* publishes of each letter (history)
    fate,        \* what became of each letter
    stops,       \* what MaxStops counts
    unsendable,  \* the letters the library refuses (their headers)
    poolDown,    \* ConnectionPool.Shutdown was called
    panicked     \* a publishing goroutine dereferenced a nil letter

loopVars == <<autoStarted, stoppers, autoStop, loop, hand>>
monitorVars == <<monitor, failed, centralErr>>
endless == <<unsendable, poolDown>>
serviceVars == <<signalled, shutdown, stops, endless>>
letterVars == <<retryCount, attempts, fate>>
vars == <<letters, open, loopVars, publishing, receipts, monitorVars, serviceVars,
          letterVars, panicked>>

Fates == {"new", "accepted", "refused", "delivered", "exhausted", "dropped"}

TypeOK ==
    /\ letters \in Seq(Letters) /\ Len(letters) <= QueueCap
    /\ open \in BOOLEAN
    /\ autoStarted \in BOOLEAN
    /\ stoppers \in 0 .. MaxStops
    /\ autoStop \in BOOLEAN
    /\ loop \in [Loops -> {"unborn", "select", "deliver", "acquire", "stop", "exit", "dead"}]
    /\ hand \in [Loops -> Letters \cup {Nil}]
    /\ publishing \subseteq (Letters \X Loops)
    /\ receipts \subseteq (Letters \X BOOLEAN)
    /\ monitor \in {"poll", "retry", "requeue", "report", "done"}
    /\ failed \in Letters \cup {Nil}
    /\ centralErr \in 0 .. ErrCap
    /\ signalled \in BOOLEAN
    /\ shutdown \in BOOLEAN
    /\ retryCount \in [Letters -> Nat]
    /\ attempts \in [Letters -> Nat]
    /\ fate \in [Letters -> Fates]
    /\ stops \in 0 .. MaxStops
    /\ unsendable \subseteq Letters
    /\ poolDown \in BOOLEAN
    /\ panicked \in BOOLEAN

\* A service just built: its auto-publishing loop has been started.
Init ==
    /\ letters = <<>>
    /\ open = TRUE
    /\ autoStarted = TRUE
    /\ stoppers = 0
    /\ autoStop = FALSE
    /\ loop = [i \in Loops |-> IF i = 1 THEN "select" ELSE "unborn"]
    /\ hand = [i \in Loops |-> Nil]
    /\ publishing = {}
    /\ receipts = {}
    /\ monitor = "poll"
    /\ failed = Nil
    /\ centralErr = 0
    /\ signalled = FALSE
    /\ shutdown = FALSE
    /\ retryCount = [l \in Letters |-> StartRetryCount]
    /\ attempts = [l \in Letters |-> 0]
    /\ fate = [l \in Letters |-> "new"]
    /\ stops = 0
    /\ unsendable \in SUBSET Letters
    /\ poolDown = FALSE
    /\ panicked = FALSE

GotoLoop(i, label) == loop' = [loop EXCEPT ![i] = label]

Becomes(l, f) == fate' = [fate EXCEPT ![l] = f]

-----------------------------------------------------------------------------
(* StartAutoPublishing and its loop                                        *)

StartUnguarded ==
    /\ autoStarted' = TRUE
    /\ \E i \in Loops : loop[i] = "unborn" /\ GotoLoop(i, "select")
    /\ UNCHANGED <<letters, open, stoppers, autoStop, hand, publishing, receipts, monitorVars,
                   serviceVars, letterVars, panicked>>

\* A call when a loop runs does nothing.
StartAutoPublishing ==
    /\ ~autoStarted
    /\ autoStarted' = TRUE
    /\ \E i \in Loops : loop[i] = "unborn" /\ GotoLoop(i, "select")
    /\ UNCHANGED <<letters, open, stoppers, autoStop, hand, publishing, receipts, monitorVars,
                   serviceVars, letterVars, panicked>>

\* The first select: a stop signal ends the loop before it delivers anything.
LoopSelect(i) ==
    /\ loop[i] = "select"
    /\ autoStop' = FALSE
    /\ GotoLoop(i, IF autoStop THEN "exit" ELSE "deliver")
    /\ UNCHANGED <<letters, open, autoStarted, stoppers, hand, publishing, receipts,
                   monitorVars, serviceVars, letterVars, panicked>>

\* deliverLetters receives the next letter; a closed channel yields nil.
ReceiveLetter(i) ==
    /\ loop[i] = "deliver"
    /\ letters # <<>> \/ ~open
    /\ hand' = [hand EXCEPT ![i] = IF letters = <<>> THEN Nil ELSE Head(letters)]
    /\ letters' = IF letters = <<>> THEN letters ELSE Tail(letters)
    /\ GotoLoop(i, "acquire")
    /\ UNCHANGED <<open, autoStarted, stoppers, autoStop, publishing, receipts, monitorVars,
                   serviceVars, letterVars, panicked>>

\* The default case: no letter, sleep, look for a stop signal.
LettersIdle(i) ==
    /\ loop[i] = "deliver"
    /\ letters = <<>> /\ open
    /\ GotoLoop(i, "stop")
    /\ UNCHANGED <<letters, open, autoStarted, stoppers, autoStop, hand, publishing, receipts,
                   monitorVars, serviceVars, letterVars, panicked>>

\* Take a slot of the semaphore and publish in a goroutine of its own.
PublishLetter(i) ==
    /\ loop[i] = "acquire"
    /\ Cardinality({p \in publishing : p[2] = i}) < Slots
    /\ IF hand[i] = Nil
         THEN panicked' = TRUE /\ UNCHANGED <<publishing, attempts>>
         ELSE /\ publishing' = publishing \cup {<<hand[i], i>>}
              /\ attempts' = [attempts EXCEPT ![hand[i]] = @ + 1]
              /\ UNCHANGED panicked
    /\ hand' = [hand EXCEPT ![i] = Nil]
    /\ GotoLoop(i, "deliver")
    /\ UNCHANGED <<letters, open, autoStarted, stoppers, autoStop, receipts, monitorVars,
                   serviceVars, retryCount, fate>>

StopCheckKeepsSignal(i) ==
    /\ loop[i] = "stop"
    /\ GotoLoop(i, "deliver")
    /\ UNCHANGED <<letters, open, autoStarted, stoppers, autoStop, hand, publishing, receipts,
                   monitorVars, serviceVars, letterVars, panicked>>

StopCheckGoesOn(i) ==
    /\ loop[i] = "stop"
    /\ autoStop' = FALSE
    /\ open' = (open /\ ~autoStop)
    /\ GotoLoop(i, "deliver")
    /\ UNCHANGED <<letters, autoStarted, stoppers, hand, publishing, receipts,
                   monitorVars, serviceVars, letterVars, panicked>>

\* The second select: a stop signal closes pub.letters and ends the loop.
StopCheck(i) ==
    /\ loop[i] = "stop"
    /\ autoStop' = FALSE
    /\ open' = (open /\ ~autoStop)
    /\ GotoLoop(i, IF autoStop THEN "exit" ELSE "deliver")
    /\ UNCHANGED <<letters, autoStarted, stoppers, hand, publishing, receipts, monitorVars,
                   serviceVars, letterVars, panicked>>

LoopExit(i) ==
    /\ loop[i] = "exit"
    /\ autoStarted' = FALSE
    /\ GotoLoop(i, "dead")
    /\ UNCHANGED <<letters, open, stoppers, autoStop, hand, publishing, receipts, monitorVars,
                   serviceVars, letterVars, panicked>>

\* PublishWithConfirmation returns; publishReceipt counts a failure. A letter
\* the library refuses is retried for ever and keeps its slot.
PublishEnds(l) ==
    /\ \E i \in Loops : <<l, i>> \in publishing
    /\ l \notin unsendable
    /\ publishing' = {p \in publishing : p[1] # l}
    /\ \E success \in BOOLEAN :
         /\ receipts' = receipts \cup {<<l, success>>}
         /\ retryCount' = [retryCount EXCEPT ![l] = IF success THEN @ ELSE @ + 1]
         /\ Becomes(l, IF success THEN "delivered" ELSE fate[l])
    /\ UNCHANGED <<letters, open, loopVars, monitorVars, serviceVars, attempts, panicked>>

-----------------------------------------------------------------------------
(* processPublishReceipts, the default receipt handler, and processErrors  *)

MayRetryOnceMore(l) == retryCount[l] <= MaxRetryCount + 1

MayRetry(l) == retryCount[l] <= MaxRetryCount

\* Receive a receipt; nothing to do for a success.
ReceiveReceipt(r) ==
    /\ monitor = "poll"
    /\ ~shutdown
    /\ r \in receipts
    /\ receipts' = receipts \ {r}
    /\ IF r[2] THEN UNCHANGED <<monitor, failed>>
               ELSE /\ failed' = r[1]
                    /\ monitor' = IF MayRetry(r[1]) THEN "retry" ELSE "report"
    /\ UNCHANGED <<letters, open, loopVars, publishing, centralErr, serviceVars,
                   letterVars, panicked>>

\* Report the retry on centralErr, which blocks when it is full.
ReportRetry ==
    /\ monitor = "retry"
    /\ centralErr < ErrCap
    /\ centralErr' = centralErr + 1
    /\ monitor' = "requeue"
    /\ UNCHANGED <<letters, open, loopVars, publishing, receipts, failed, serviceVars,
                   letterVars, panicked>>

RequeueIfRoom ==
    /\ monitor = "requeue"
    /\ letters' = IF open /\ Len(letters) < QueueCap THEN Append(letters, failed) ELSE letters
    /\ monitor' = IF open THEN "poll" ELSE "report"
    /\ failed' = IF open THEN Nil ELSE failed
    /\ UNCHANGED <<open, loopVars, publishing, receipts, centralErr, serviceVars,
                   letterVars, panicked>>

RequeueNil ==
    /\ monitor = "requeue"
    /\ open => Len(letters) < QueueCap
    /\ letters' = IF open THEN Append(letters, Nil) ELSE letters
    /\ monitor' = IF open THEN "poll" ELSE "report"
    /\ failed' = IF open THEN Nil ELSE failed
    /\ UNCHANGED <<open, loopVars, publishing, receipts, centralErr, serviceVars,
                   letterVars, panicked>>

\* QueueLetter(failed): blocks on a full buffer, fails on a closed one.
Requeue ==
    /\ monitor = "requeue"
    /\ open => Len(letters) < QueueCap
    /\ letters' = IF open THEN Append(letters, failed) ELSE letters
    /\ monitor' = IF open THEN "poll" ELSE "report"
    /\ failed' = IF open THEN Nil ELSE failed
    /\ UNCHANGED <<open, loopVars, publishing, receipts, centralErr, serviceVars,
                   letterVars, panicked>>

\* Report on centralErr that the letter is given up: its retries are
\* exhausted, or the auto-publisher is shut down.
ReportGivenUp ==
    /\ monitor = "report"
    /\ centralErr < ErrCap
    /\ centralErr' = centralErr + 1
    /\ Becomes(failed, IF MayRetry(failed) THEN "dropped" ELSE "exhausted")
    /\ failed' = Nil
    /\ monitor' = "poll"
    /\ UNCHANGED <<letters, open, loopVars, publishing, receipts, serviceVars,
                   retryCount, attempts, panicked>>

MonitorExit ==
    /\ monitor = "poll"
    /\ shutdown
    /\ monitor' = "done"
    /\ UNCHANGED <<letters, open, loopVars, publishing, receipts, failed, centralErr,
                   serviceVars, letterVars, panicked>>

\* processErrors prints an error, until it sees the shutdown.
ProcessError ==
    /\ ~shutdown
    /\ centralErr > 0
    /\ centralErr' = centralErr - 1
    /\ UNCHANGED <<letters, open, loopVars, publishing, receipts, monitor, failed,
                   serviceVars, letterVars, panicked>>

-----------------------------------------------------------------------------
(* The service's users                                                     *)

\* QueueLetter: RabbitService's refuses after the shutdown, Publisher's only
\* when pub.letters is closed; otherwise the letter waits for room.
QueueLetter(l) ==
    /\ fate[l] = "new"
    /\ \/ /\ shutdown \/ ~open
          /\ Becomes(l, "refused")
          /\ UNCHANGED letters
       \/ /\ open
          /\ Len(letters) < QueueCap
          /\ letters' = Append(letters, l)
          /\ Becomes(l, "accepted")
    /\ UNCHANGED <<open, loopVars, publishing, receipts, monitorVars, serviceVars,
                   retryCount, attempts, panicked>>

\* Publisher.Shutdown: stopAutoPublish spawns a goroutine that signals.
StopAutoPublish ==
    /\ stops < MaxStops
    /\ stops' = stops + 1
    /\ stoppers' = IF autoStarted THEN stoppers + 1 ELSE stoppers
    /\ UNCHANGED <<letters, open, autoStarted, autoStop, loop, hand, publishing, receipts,
                   monitorVars, signalled, shutdown, endless, letterVars, panicked>>

\* That goroutine sends; the buffer has room for one signal.
SendAutoStop ==
    /\ stoppers > 0
    /\ ~autoStop
    /\ stoppers' = stoppers - 1
    /\ autoStop' = TRUE
    /\ UNCHANGED <<letters, open, autoStarted, loop, hand, publishing, receipts,
                   monitorVars, serviceVars, letterVars, panicked>>

\* RabbitService.Shutdown sends the shutdown signal after it stopped the
\* publisher.
SignalShutdown ==
    /\ stops > 0
    /\ ~signalled
    /\ signalled' = TRUE
    /\ UNCHANGED <<letters, open, loopVars, publishing, receipts, monitorVars, shutdown,
                   stops, endless, letterVars, panicked>>

\* monitorForShutdown
MonitorForShutdown ==
    /\ signalled /\ ~shutdown
    /\ shutdown' = TRUE
    /\ UNCHANGED <<letters, open, loopVars, publishing, receipts, monitorVars, signalled,
                   stops, endless, letterVars, panicked>>

\* The end of RabbitService.Shutdown, or of Publisher.Shutdown(true): a call
\* that needs a channel from now on may wait for it for ever.
PoolShutdown ==
    /\ stops > 0
    /\ ~poolDown
    /\ poolDown' = TRUE
    /\ UNCHANGED <<letters, open, loopVars, publishing, receipts, monitorVars, signalled,
                   shutdown, stops, unsendable, letterVars, panicked>>

-----------------------------------------------------------------------------
LoopStep(i) ==
    \/ LoopSelect(i) \/ ReceiveLetter(i) \/ LettersIdle(i)
    \/ PublishLetter(i) \/ StopCheck(i) \/ LoopExit(i)

MonitorStep ==
    \/ \E r \in receipts : ReceiveReceipt(r)
    \/ ReportRetry \/ Requeue \/ ReportGivenUp \/ MonitorExit

\* A panic in a goroutine ends the process.
Running ==
    \/ StartAutoPublishing
    \/ \E i \in Loops : LoopStep(i)
    \/ \E l \in Letters : PublishEnds(l) \/ QueueLetter(l)
    \/ MonitorStep \/ ProcessError
    \/ StopAutoPublish \/ SendAutoStop \/ SignalShutdown \/ MonitorForShutdown
    \/ PoolShutdown

Next == ~panicked /\ Running

\* Goroutines keep running, and PublishWithConfirmation returns for a letter
\* that can be sent (CallReturns of PublishConfirm) while the pool is up.
\* Nobody is obliged to queue, start or stop.
Fairness ==
    /\ WF_vars(~panicked /\ SendAutoStop)
    /\ \A i \in Loops : WF_vars(~panicked /\ LoopStep(i))
    /\ \A l \in Letters : WF_vars(~panicked /\ ~poolDown /\ PublishEnds(l))
    /\ SF_vars(~panicked /\ MonitorStep) /\ WF_vars(~panicked /\ ProcessError)

Spec == Init /\ [][Next]_vars /\ Fairness

-----------------------------------------------------------------------------
(* Properties                                                              *)

Alive(i) == loop[i] \notin {"unborn", "dead"}

\* Start and stop in any order, from any goroutine, never leave two loops
\* delivering letters: autoStarted is TRUE for as long as a loop lives.
AtMostOneLoop == Cardinality({i \in Loops : Alive(i)}) <= 1

\* An accepted letter is never lost or doubled between the goroutines: until
\* its fate is known it is in exactly one of their hands or buffers.
LetterConserved ==
    \A l \in Letters :
        LET places == Cardinality({n \in DOMAIN letters : letters[n] = l})
                      + Cardinality({i \in Loops : hand[i] = l})
                      + Cardinality({r \in receipts : r[1] = l /\ ~r[2]})
                      + Cardinality({p \in publishing : p[1] = l})
                      + (IF l = failed THEN 1 ELSE 0)
        IN places = IF fate[l] = "accepted" THEN 1 ELSE 0

\* A letter is published at most once more than it has retries left when it is
\* created, however its failures and the shutdown interleave.
AttemptsBounded ==
    \A l \in Letters :
        attempts[l] <= 1 + (IF MaxRetryCount > StartRetryCount
                              THEN MaxRetryCount - StartRetryCount ELSE 0)

\* pub.letters yields a nil letter only to a loop started again after a stop.
NilOnlyAfterRestart == panicked => \E i \in Loops : loop[i] = "dead"

\* The loop waits for a slot, and every slot is kept by a publish that need
\* not return.
Jammed(i) ==
    /\ loop[i] = "acquire"
    /\ Cardinality({p \in publishing : p[2] = i /\ (p[1] \in unsendable \/ poolDown)}) = Slots

\* As long as nobody stops the publisher, a letter that QueueLetter accepted
\* and that can be sent is delivered or its retries are exhausted, unless as
\* many refused letters as there are slots have jammed the loop: full buffers
\* and a full centralErr delay the goroutines but never leave them waiting for
\* each other.
AcceptedLetterSettled ==
    [](stops = 0) => \A l \in Letters :
        fate[l] = "accepted" /\ l \notin unsendable
            ~> fate[l] \in {"delivered", "exhausted"} \/ \E i \in Loops : Jammed(i)

\* A stop requested while a loop runs ends that loop, once users queue no more,
\* unless the loop is jammed by refused letters or by publishes that were under
\* way when the pool was shut down.
StopEndsLoop ==
    \A i \in Loops :
        (stoppers > 0 \/ autoStop) /\ Alive(i) ~> loop[i] = "dead" \/ panicked \/ []Jammed(i)

\* The comment on the default receipt handler: its action is to retry
\* publishing all failures. No letter is given up after a single attempt.
FailuresRetried ==
    \A l \in Letters : fate[l] = "exhausted" => attempts[l] > 1
=============================================================================
