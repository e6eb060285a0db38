--------------------------- MODULE PublishConfirm ---------------------------
(***************************************************************************)
(* The four ways publisher.go publishes one letter, run concurrently:      *)
(* Publish and PublishWithConfirmation on cached channels,                 *)
(* PublishWithTransient and PublishWithConfirmationTransient on channels   *)
(* of their own.                                                           *)
(*                                                                         *)
(* The pool appears as what ConnectionPool shows of it: a cached channel   *)
(* is lent to one call at a time, and an erred one comes back reopened.    *)
(* The broker and the amqp library are external: the broker stores a       *)
(* published letter, then confirms it or refuses it; a channel that closes *)
(* nacks the confirmations still pending on it.                            *)
(***************************************************************************)
EXTENDS Naturals, FiniteSets

CONSTANTS Calls,     \* publishing goroutines, one letter each
          Chans,     \* cached channels
          None,
          MaxDeaths, \* bound: channels that die
          MaxNacks,  \* bound: letters the broker refuses
          MaxCopies  \* bound: copies counted

ASSUME NamesAssumption ==
    /\ Calls \cap Chans = {}
    /\ None \notin Calls \cup Chans

ASSUME BoundsAssumption ==
    MaxDeaths \in Nat /\ MaxNacks \in Nat /\ MaxCopies \in Nat \ {0}

\* A call's own transient channel carries the call's name.
Channels == Chans \cup Calls

VARIABLES
    mode,    \* which function the call runs
    unsendable, \* the calls whose letter the library refuses (its headers)
    pc,      \* where the call is
    on,      \* the channel of the call's last attempt
    err,     \* the publish returned an error
    attempt, \* the last attempt's letter and its DeferredConfirmation
    result,  \* what the call returned
    free,    \* the cached channels in the cache
    alive,   \* open channels
    ctxDone, \* the letter's context is cancelled
    copies,  \* copies of the letter the broker has stored
    deaths, nacks \* what the bounds count

faults == <<deaths, nacks>>
calls == <<mode, unsendable>>
vars == <<calls, pc, on, err, attempt, result, free, alive, ctxDone, copies, faults>>

Confirmed == {"confirm", "confirmTransient"}
Transient == {"transient", "confirmTransient"}
Modes == {"plain", "transient", "confirm", "confirmTransient"}

\* Attempts the broker or a closing channel can still answer.
Pending == {"sent", "stored"}

TypeOK ==
    /\ mode \in [Calls -> Modes]
    /\ unsendable \subseteq Calls
    /\ pc \in [Calls -> {"get", "publish", "return", "wait", "done"}]
    /\ on \in [Calls -> Channels \cup {None}]
    /\ err \in [Calls -> BOOLEAN]
    /\ attempt \in [Calls -> Pending \cup {"none", "acked", "nacked"}]
    /\ result \in [Calls -> {"none", "ok", "error"}]
    /\ free \subseteq Chans
    /\ alive \subseteq Channels
    /\ ctxDone \subseteq Calls
    /\ copies \in [Calls -> 0 .. MaxCopies]
    /\ deaths \in 0 .. MaxDeaths
    /\ nacks \in 0 .. MaxNacks

Init ==
    /\ mode \in [Calls -> Modes]
    /\ unsendable \in SUBSET Calls
    /\ pc = [k \in Calls |-> "get"]
    /\ on = [k \in Calls |-> None]
    /\ err = [k \in Calls |-> FALSE]
    /\ attempt = [k \in Calls |-> "none"]
    /\ result = [k \in Calls |-> "none"]
    /\ free = Chans
    /\ alive = Chans
    /\ ctxDone = {}
    /\ copies = [k \in Calls |-> 0]
    /\ deaths = 0
    /\ nacks = 0

Goto(k, l) == pc' = [pc EXCEPT ![k] = l]

Stored(k) == copies' = [copies EXCEPT ![k] = IF @ < MaxCopies THEN @ + 1 ELSE @]

-----------------------------------------------------------------------------
(* The calls                                                               *)

\* GetChannelFromPool
GetCached(k, c) ==
    /\ pc[k] = "get"
    /\ mode[k] \notin Transient
    /\ c \in free
    /\ free' = free \ {c}
    /\ on' = [on EXCEPT ![k] = c]
    /\ Goto(k, "publish")
    /\ UNCHANGED <<calls, err, attempt, result, alive, ctxDone, copies, faults>>

\* GetTransientChannel
GetTransient(k) ==
    /\ pc[k] = "get"
    /\ mode[k] \in Transient
    /\ on' = [on EXCEPT ![k] = k]
    /\ alive' = alive \cup {k}
    /\ Goto(k, "publish")
    /\ UNCHANGED <<calls, err, attempt, result, free, ctxDone, copies, faults>>

\* PublishWithContext, publishDeferredConfirm: the letter is on its way, or
\* the channel is closed or the library refuses the letter.
Publish(k) ==
    /\ pc[k] = "publish"
    /\ LET sent == on[k] \in alive /\ k \notin unsendable IN
         /\ err' = [err EXCEPT ![k] = ~sent]
         /\ attempt' = [attempt EXCEPT ![k] = IF sent THEN "sent" ELSE "none"]
    /\ Goto(k, "return")
    /\ UNCHANGED <<calls, on, result, free, alive, ctxDone, copies, faults>>

\* What a call does when it has given its channel up: Publish and
\* PublishWithTransient return; the others retry an error or wait.
AfterReturn(k) ==
    IF mode[k] \in Confirmed
      THEN Goto(k, IF err[k] THEN "get" ELSE "wait") /\ UNCHANGED result
      ELSE /\ Goto(k, "done")
           /\ result' = [result EXCEPT ![k] = IF err[k] THEN "error" ELSE "ok"]

ReturnUnlessErred(k) ==
    /\ pc[k] = "return"
    /\ on[k] \in Chans
    /\ free' = IF err[k] THEN free ELSE free \cup {on[k]}
    /\ AfterReturn(k)
    /\ UNCHANGED <<calls, on, err, attempt, alive, ctxDone, copies, faults>>

\* ReturnChannel(chanHost, err != nil): an erred channel is reopened.
ReturnCached(k) ==
    /\ pc[k] = "return"
    /\ on[k] \in Chans
    /\ alive' = IF err[k] THEN alive \cup {on[k]} ELSE alive
    /\ free' = free \cup {on[k]}
    /\ AfterReturn(k)
    /\ UNCHANGED <<calls, on, err, attempt, ctxDone, copies, faults>>

CloseTransientCaches(k) ==
    /\ pc[k] = "return"
    /\ on[k] = k
    /\ free' = free \cup {k}
    /\ AfterReturn(k)
    /\ UNCHANGED <<calls, on, err, attempt, alive, ctxDone, copies, faults>>

\* Channel.Close(): the broker handles the letter before the close, and what
\* it has not confirmed by then is nacked by the closing channel.
CloseTransient(k) ==
    /\ pc[k] = "return"
    /\ on[k] = k
    /\ alive' = alive \ {k}
    /\ IF attempt[k] = "sent" /\ k \in alive THEN Stored(k) ELSE UNCHANGED copies
    /\ attempt' = [attempt EXCEPT ![k] = IF @ \in Pending THEN "nacked" ELSE @]
    /\ AfterReturn(k)
    /\ UNCHANGED <<calls, on, err, free, ctxDone, faults>>

WaitIgnoresAcked(k) ==
    /\ pc[k] = "wait"
    /\ attempt[k] \in {"acked", "nacked"}
    /\ Goto(k, "done")
    /\ result' = [result EXCEPT ![k] = "ok"]
    /\ UNCHANGED <<calls, on, err, attempt, free, alive, ctxDone, copies, faults>>

WaitAlwaysRepublishes(k) ==
    /\ pc[k] = "wait"
    /\ attempt[k] \in {"stored", "acked", "nacked"}
    /\ Goto(k, IF attempt[k] = "acked" THEN "done" ELSE "get")
    /\ result' = [result EXCEPT ![k] = IF attempt[k] = "acked" THEN "ok" ELSE @]
    /\ UNCHANGED <<calls, on, err, attempt, free, alive, ctxDone, copies, faults>>

\* waitPublishConfirmation sees the confirmation: an ack ends the call, a nack
\* publishes again.
WaitConfirmed(k) ==
    /\ pc[k] = "wait"
    /\ attempt[k] \in {"acked", "nacked"}
    /\ Goto(k, IF attempt[k] = "acked" THEN "done" ELSE "get")
    /\ result' = [result EXCEPT ![k] = IF attempt[k] = "acked" THEN "ok" ELSE @]
    /\ UNCHANGED <<calls, on, err, attempt, free, alive, ctxDone, copies, faults>>

\* The timeout fires; it may beat a confirmation that is there already.
WaitTimeout(k) ==
    /\ pc[k] = "wait"
    /\ Goto(k, "done")
    /\ result' = [result EXCEPT ![k] = "error"]
    /\ UNCHANGED <<calls, on, err, attempt, free, alive, ctxDone, copies, faults>>

\* letter.Done() is ready.
WaitCancelled(k) == k \in ctxDone /\ WaitTimeout(k)

-----------------------------------------------------------------------------
(* The context, the broker and the network                                 *)

Cancel(k) ==
    /\ k \notin ctxDone
    /\ pc[k] # "done"
    /\ ctxDone' = ctxDone \cup {k}
    /\ UNCHANGED <<calls, pc, on, err, attempt, result, free, alive, copies, faults>>

BrokerStores(k) ==
    /\ attempt[k] = "sent"
    /\ Stored(k)
    /\ attempt' = [attempt EXCEPT ![k] = "stored"]
    /\ UNCHANGED <<calls, pc, on, err, result, free, alive, ctxDone, faults>>

BrokerAcks(k) ==
    /\ attempt[k] = "stored"
    /\ attempt' = [attempt EXCEPT ![k] = "acked"]
    /\ UNCHANGED <<calls, pc, on, err, result, free, alive, ctxDone, copies, faults>>

BrokerNacks(k) ==
    /\ attempt[k] = "sent"
    /\ nacks < MaxNacks
    /\ nacks' = nacks + 1
    /\ attempt' = [attempt EXCEPT ![k] = "nacked"]
    /\ UNCHANGED <<calls, pc, on, err, result, free, alive, ctxDone, copies, deaths>>

\* A channel dies, alone or with its connection: pending confirmations on it
\* are nacked, whatever became of their letters.
ChannelDies(c) ==
    /\ c \in alive
    /\ deaths < MaxDeaths
    /\ deaths' = deaths + 1
    /\ alive' = alive \ {c}
    /\ attempt' = [k \in Calls |->
                     IF on[k] = c /\ attempt[k] \in Pending THEN "nacked" ELSE attempt[k]]
    /\ UNCHANGED <<calls, pc, on, err, result, free, ctxDone, copies, nacks>>

-----------------------------------------------------------------------------
Get(k) == GetTransient(k) \/ \E c \in Chans : GetCached(k, c)

Step(k) ==
    \/ Publish(k) \/ ReturnCached(k) \/ CloseTransient(k)
    \/ WaitConfirmed(k) \/ WaitTimeout(k) \/ WaitCancelled(k)

Broker(k) == BrokerStores(k) \/ BrokerAcks(k) \/ BrokerNacks(k)

\* Every call has returned.
Finished == (\A k \in Calls : pc[k] = "done") /\ UNCHANGED vars

Next ==
    \/ \E k \in Calls : Get(k) \/ Step(k) \/ Cancel(k) \/ Broker(k)
    \/ \E c \in Channels : ChannelDies(c)
    \/ Finished

\* Goroutines keep running, a timer fires, and the waiters for a cached
\* channel are served in order.
Fairness == \A k \in Calls : SF_vars(Get(k)) /\ WF_vars(Step(k))

Spec == Init /\ [][Next]_vars /\ Fairness

-----------------------------------------------------------------------------
(* Properties                                                              *)

\* A confirmed publish that returns nil has its letter stored by the broker,
\* whatever channels died and whatever was nacked meanwhile.
SuccessMeansStored ==
    \A k \in Calls : mode[k] \in Confirmed /\ result[k] = "ok" => copies[k] > 0

\* Cached channels are never lost to a call: those not in the cache are in the
\* hands of a call that is about to give them back, one call each.
ChannelsAccountedFor ==
    /\ \A c \in Chans \ free :
         Cardinality({k \in Calls : on[k] = c /\ pc[k] \in {"publish", "return"}}) = 1
    /\ \A k \in Calls : pc[k] \in {"publish", "return"} => on[k] \notin free

\* PublishWithConfirmation stores a second copy of a letter only after a nack
\* or the death of a channel: it never publishes again what may still be
\* confirmed.
RepublishNeedsFault ==
    \A k \in Calls : mode[k] = "confirm" => copies[k] <= 1 + deaths + nacks

\* Every call with a letter that can be sent returns (but for
\* PublishWithConfirmationTransient), even when more calls than cached channels
\* compete, channels die and another call retries an unsendable letter for
\* ever: no call keeps a channel from the others.
CallReturns ==
    \A k \in Calls :
        mode[k] # "confirmTransient" /\ k \notin unsendable ~> pc[k] = "done"

\* The doc comments of both confirming calls: a letter is published again if
\* a nack occurs. Without a nack and without a dead channel there is one copy.
OneCopyWithoutFault ==
    deaths + nacks = 0 => \A k \in Calls : copies[k] <= 1
=============================================================================
