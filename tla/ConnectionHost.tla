--------------------------- MODULE ConnectionHost ---------------------------
(***************************************************************************)
(* One ConnectionHost (connectionhost.go) and the goroutines that check,   *)
(* recover and use it (verifyHealthyConnection, triggerConnectionRecovery, *)
(* reconnectChannel and createCacheChannel of connectionpool.go).          *)
(*                                                                         *)
(* Getter is the goroutine that took the host out of the pool's queue in   *)
(* GetConnection; the queue hands a host to one goroutine at a time.       *)
(* Returners reach the same host without the queue, through the erred      *)
(* channels they give back (ReturnChannel, reconnectChannel), so they run  *)
(* concurrently with Getter and with each other.                           *)
(*                                                                         *)
(* Each successful dial makes a new amqp.Connection with new Errors and    *)
(* Blockers channels; the three are named by the number of that dial.      *)
(***************************************************************************)
EXTENDS Naturals, Sequences

CONSTANTS Getter,       \* the goroutine that holds the host out of the queue
          Returners,    \* goroutines returning erred channels of this host
          NoOne,        \* the owner of an unlocked mutex
          MaxDials,     \* bound: dials that succeed; the last one is not lost
          MaxOutages,   \* bound: times the server becomes unreachable
          MaxNotices,   \* bound: connection.blocked / unblocked frames
          MaxRefusals   \* bound: channels refused on an open connection

Workers == Returners \cup {Getter}

ASSUME WorkersAssumption == Getter \notin Returners /\ NoOne \notin Workers

ASSUME BoundsAssumption ==
    /\ MaxDials \in Nat \ {0}
    /\ MaxOutages \in Nat
    /\ MaxNotices \in Nat
    /\ MaxRefusals \in Nat

Dials == 1 .. MaxDials

VARIABLES
    Connection, \* the dial ch.Connection comes from
    Errors,     \* the dial whose error channel ch.Errors is
    blockers,   \* the frames in ch.Blockers
    connLock,   \* the owner of ch.connLock
    life,       \* each amqp.Connection: "none", "open", "closing" or "down"
    errored,    \* an *amqp.Error is buffered in the error channel of the dial
    watched,    \* NotifyClose and NotifyBlocked were called for the dial
    flagged,    \* flaggedConnections[ConnectionID]
    alarm,      \* the server blocks publishers of the current connection
    reachable,  \* a dial would succeed
    outages, notices, refusals, \* what the bounds count
    pc,         \* where each goroutine is
    unhealthy   \* verifyHealthyConnection's verdict so far: flagged || !healthy

host == <<Connection, Errors, watched>>
server == <<reachable, outages, notices, refusals, alarm>>
vars == <<host, server, connLock, blockers, life, errored, flagged, pc, unhealthy>>

Labels == {"idle", "verify", "flag", "decide", "connect", "lock", "recheck",
           "dial", "install", "notify", "flush", "unflag", "pause", "pausing",
           "make"}

\* The goroutines inside a critical section of connLock.
Holding == {"recheck", "dial", "install", "notify", "pausing"}

\* The goroutines inside triggerConnectionRecovery's first loop.
Reconnecting == {"connect", "lock", "recheck", "dial", "install", "notify"}

TypeOK ==
    /\ Connection \in Dials
    /\ Errors \in Dials
    /\ blockers \in Seq({"blocked", "unblocked"})
    /\ connLock \in Workers \cup {NoOne}
    /\ life \in [Dials -> {"none", "open", "closing", "down"}]
    /\ errored \in [Dials -> BOOLEAN]
    /\ watched \in [Dials -> BOOLEAN]
    /\ flagged \in BOOLEAN
    /\ alarm \in BOOLEAN
    /\ reachable \in BOOLEAN
    /\ outages \in 0 .. MaxOutages
    /\ notices \in 0 .. MaxNotices
    /\ refusals \in 0 .. MaxRefusals
    /\ pc \in [Workers -> Labels]
    /\ unhealthy \in [Workers -> BOOLEAN]

\* A host NewConnectionHost returned: the first dial succeeded.
Init ==
    /\ Connection = 1
    /\ Errors = 1
    /\ blockers = <<>>
    /\ connLock = NoOne
    /\ life = [d \in Dials |-> IF d = 1 THEN "open" ELSE "none"]
    /\ errored = [d \in Dials |-> FALSE]
    /\ watched = [d \in Dials |-> d = 1]
    /\ flagged = FALSE
    /\ alarm = FALSE
    /\ reachable = TRUE
    /\ outages = 0
    /\ notices = 0
    /\ refusals = 0
    /\ pc = [w \in Workers |-> "idle"]
    /\ unhealthy = [w \in Workers |-> FALSE]

-----------------------------------------------------------------------------
(* The amqp.Connection, as the code sees it.                               *)

\* Connection.IsClosed(): the flag is set before anyone is notified.
IsClosed(d) == life[d] \in {"closing", "down"}

\* The library closes the error channel of a dead connection, after the error
\* it sends; NotifyClose on a connection already dead closes it at once.
ErrorsClosed(d) == watched[d] /\ life[d] = "down"

Goto(w, l) == pc' = [pc EXCEPT ![w] = l]

-----------------------------------------------------------------------------
(* verifyHealthyConnection                                                 *)

\* The non-blocking receive from connHost.Errors; a closed channel is ready.
VerifyErrors(w) ==
    /\ pc[w] \in {"idle", "verify"}
    /\ unhealthy' = [unhealthy EXCEPT ![w] = errored[Errors] \/ ErrorsClosed(Errors)]
    /\ errored' = [errored EXCEPT ![Errors] = FALSE]
    /\ Goto(w, "flag")
    /\ UNCHANGED <<host, server, connLock, blockers, life, flagged>>

\* isConnectionFlagged
VerifyFlag(w) ==
    /\ pc[w] = "flag"
    /\ unhealthy' = [unhealthy EXCEPT ![w] = @ \/ flagged]
    /\ Goto(w, "decide")
    /\ UNCHANGED <<host, server, connLock, blockers, life, errored, flagged>>

\* Recover when flagged, unhealthy or closed; the verdict is a local variable.
VerifyDecide(w) ==
    /\ pc[w] = "decide"
    /\ Goto(w, IF unhealthy[w] \/ IsClosed(Connection) THEN "connect" ELSE "pause")
    /\ unhealthy' = [unhealthy EXCEPT ![w] = FALSE]
    /\ UNCHANGED <<host, server, connLock, blockers, life, errored, flagged>>

-----------------------------------------------------------------------------
(* ConnectWithErrorHandler: compare, lock, recompare, dial.                *)

Compare(w) ==
    /\ pc[w] = "connect"
    /\ Goto(w, IF IsClosed(Connection) THEN "lock" ELSE "flush")
    /\ UNCHANGED <<host, server, connLock, blockers, life, errored, flagged,
                   unhealthy>>

Lock(w) ==
    /\ pc[w] = "lock"
    /\ connLock = NoOne
    /\ connLock' = w
    /\ Goto(w, "recheck")
    /\ UNCHANGED <<host, server, blockers, life, errored, flagged, unhealthy>>

RecompareDropped(w) ==
    /\ pc[w] = "recheck"
    /\ Goto(w, "dial")
    /\ UNCHANGED <<host, server, connLock, blockers, life, errored, flagged,
                   unhealthy>>

Recompare(w) ==
    /\ pc[w] = "recheck"
    /\ IF IsClosed(Connection)
         THEN Goto(w, "dial") /\ UNCHANGED connLock
         ELSE Goto(w, "flush") /\ connLock' = NoOne
    /\ UNCHANGED <<host, server, blockers, life, errored, flagged, unhealthy>>

DialFailsKeepsLock(w) ==
    /\ pc[w] = "dial"
    /\ ~reachable
    /\ Goto(w, "connect")
    /\ UNCHANGED <<host, server, connLock, blockers, life, errored, flagged,
                   unhealthy>>

\* createTLSConfig or DialConfig fails: return false, unlock, sleep, continue.
DialFails(w) ==
    /\ pc[w] = "dial"
    /\ ~reachable
    /\ connLock' = NoOne
    /\ Goto(w, "connect")
    /\ UNCHANGED <<host, server, blockers, life, errored, flagged, unhealthy>>

\* DialConfig succeeds and ch.Connection is assigned.
DialSucceeds(w) ==
    /\ pc[w] = "dial"
    /\ reachable
    /\ Connection < MaxDials
    /\ Connection' = Connection + 1
    /\ life' = [life EXCEPT ![Connection + 1] = "open"]
    /\ alarm' = FALSE
    /\ Goto(w, "install")
    /\ UNCHANGED <<Errors, watched, reachable, outages, notices, refusals,
                   connLock, blockers, errored, flagged, unhealthy>>

InstallNil(w) ==
    /\ pc[w] = "install"
    /\ Errors' = 0
    /\ blockers' = <<>>
    /\ Goto(w, "notify")
    /\ UNCHANGED <<server, Connection, watched, connLock, life, errored, flagged, unhealthy>>

InstallKeepsErrors(w) ==
    /\ pc[w] = "install"
    /\ blockers' = <<>>
    /\ Goto(w, "notify")
    /\ UNCHANGED <<host, server, connLock, life, errored, flagged, unhealthy>>

\* ch.Errors and ch.Blockers become fresh channels.
InstallChannels(w) ==
    /\ pc[w] = "install"
    /\ Errors' = Connection
    /\ blockers' = <<>>
    /\ Goto(w, "notify")
    /\ UNCHANGED <<server, Connection, watched, connLock, life, errored,
                   flagged, unhealthy>>

RegisterSkipped(w) ==
    /\ pc[w] = "notify"
    /\ connLock' = NoOne
    /\ Goto(w, "flush")
    /\ UNCHANGED <<host, server, blockers, life, errored, flagged, unhealthy>>

\* NotifyClose(ch.Errors), NotifyBlocked(ch.Blockers), return true.
Register(w) ==
    /\ pc[w] = "notify"
    /\ watched' = [watched EXCEPT ![Connection] = TRUE]
    /\ connLock' = NoOne
    /\ Goto(w, "flush")
    /\ UNCHANGED <<server, Connection, Errors, blockers, life, errored, flagged,
                   unhealthy>>

-----------------------------------------------------------------------------
(* The flush loop at the end of triggerConnectionRecovery.                 *)

\* One iteration that receives a buffered error.
FlushError(w) ==
    /\ pc[w] = "flush"
    /\ errored[Errors]
    /\ errored' = [errored EXCEPT ![Errors] = FALSE]
    /\ UNCHANGED <<host, server, connLock, blockers, life, flagged, pc,
                   unhealthy>>

\* One iteration on a closed channel: it yields nil and the loop goes on.
FlushSpin(w) ==
    /\ pc[w] = "flush"
    /\ ~errored[Errors]
    /\ ErrorsClosed(Errors)
    /\ UNCHANGED vars

\* The default case: nothing to receive on an open channel.
FlushDone(w) ==
    /\ pc[w] = "flush"
    /\ ~errored[Errors]
    /\ ~ErrorsClosed(Errors)
    /\ Goto(w, "unflag")
    /\ UNCHANGED <<host, server, connLock, blockers, life, errored, flagged,
                   unhealthy>>

\* unflagConnection
Unflag(w) ==
    /\ pc[w] = "unflag"
    /\ flagged' = FALSE
    /\ Goto(w, "pause")
    /\ UNCHANGED <<host, server, connLock, blockers, life, errored, unhealthy>>

-----------------------------------------------------------------------------
(* PauseOnFlowControl, and the use of the connection that follows.         *)

PauseLock(w) ==
    /\ pc[w] = "pause"
    /\ connLock = NoOne
    /\ connLock' = w
    /\ Goto(w, "pausing")
    /\ UNCHANGED <<host, server, blockers, life, errored, flagged, unhealthy>>

\* An iteration that receives an Active frame, sleeps a second and goes on.
PauseSleeps(w) ==
    /\ pc[w] = "pausing"
    /\ ~IsClosed(Connection)
    /\ blockers # <<>> /\ Head(blockers) = "blocked"
    /\ blockers' = Tail(blockers)
    /\ UNCHANGED <<host, server, connLock, life, errored, flagged, pc,
                   unhealthy>>

\* An iteration that returns: closed connection, no frame, or an inactive one.
PauseReturns(w) ==
    /\ pc[w] = "pausing"
    /\ \/ IsClosed(Connection) /\ UNCHANGED blockers
       \/ ~IsClosed(Connection) /\ blockers = <<>> /\ UNCHANGED blockers
       \/ /\ ~IsClosed(Connection)
          /\ blockers # <<>> /\ Head(blockers) = "unblocked"
          /\ blockers' = Tail(blockers)
    /\ connLock' = NoOne
    /\ Goto(w, "make")
    /\ UNCHANGED <<host, server, life, errored, flagged, unhealthy>>

\* MakeChannel succeeds; Getter returns the connection unflagged, a returner
\* puts its channel back in the cache.
MakeChannel(w) ==
    /\ pc[w] = "make"
    /\ ~IsClosed(Connection)
    /\ Goto(w, "idle")
    /\ UNCHANGED <<host, server, connLock, blockers, life, errored, flagged,
                   unhealthy>>

\* MakeChannel fails: createCacheChannel returns the connection flagged and
\* takes one from the queue again; reconnectChannel verifies once more.
MakeChannelFails(w) ==
    /\ pc[w] = "make"
    /\ \/ IsClosed(Connection) /\ UNCHANGED refusals
       \/ refusals < MaxRefusals /\ refusals' = refusals + 1
    /\ flagged' = (flagged \/ w = Getter)
    /\ Goto(w, IF w = Getter THEN "idle" ELSE "verify")
    /\ UNCHANGED <<host, reachable, outages, notices, alarm, connLock, blockers,
                   life, errored, unhealthy>>

-----------------------------------------------------------------------------
(* The server and the network.                                             *)

\* A connection dies: its closed flag is set.
ConnectionLost(d) ==
    /\ life[d] = "open"
    /\ d < MaxDials
    /\ life' = [life EXCEPT ![d] = "closing"]
    /\ UNCHANGED <<host, server, connLock, blockers, errored, flagged, pc,
                   unhealthy>>

\* Its shutdown sends the error to the registered channel and closes it.
Broadcast(d) ==
    /\ life[d] = "closing"
    /\ life' = [life EXCEPT ![d] = "down"]
    /\ errored' = [errored EXCEPT ![d] = watched[d]]
    /\ UNCHANGED <<host, server, connLock, blockers, flagged, pc, unhealthy>>

Outage ==
    /\ reachable
    /\ outages < MaxOutages
    /\ reachable' = FALSE
    /\ outages' = outages + 1
    /\ UNCHANGED <<host, notices, refusals, alarm, connLock, blockers, life,
                   errored, flagged, pc, unhealthy>>

Restore ==
    /\ ~reachable
    /\ reachable' = TRUE
    /\ UNCHANGED <<host, outages, notices, refusals, alarm, connLock, blockers,
                   life, errored, flagged, pc, unhealthy>>

\* The server blocks or unblocks publishers and says so; a frame that arrives
\* before NotifyBlocked has no listener.
BlockedFrame ==
    /\ life[Connection] = "open"
    /\ notices < MaxNotices
    /\ notices' = notices + 1
    /\ alarm' = ~alarm
    /\ blockers' = IF watched[Connection]
                      THEN Append(blockers, IF alarm THEN "unblocked" ELSE "blocked")
                      ELSE blockers
    /\ UNCHANGED <<host, reachable, outages, refusals, connLock, life, errored,
                   flagged, pc, unhealthy>>

-----------------------------------------------------------------------------
\* What a goroutine does on its own once it is in verifyHealthyConnection.
Step(w) ==
    \/ pc[w] = "verify" /\ VerifyErrors(w)
    \/ VerifyFlag(w) \/ VerifyDecide(w)
    \/ Compare(w) \/ Recompare(w) \/ DialFails(w) \/ DialSucceeds(w)
    \/ InstallChannels(w) \/ Register(w)
    \/ FlushError(w) \/ FlushDone(w) \/ Unflag(w)
    \/ PauseSleeps(w) \/ PauseReturns(w)
    \/ MakeChannel(w) \/ MakeChannelFails(w)

Acquire(w) == Lock(w) \/ PauseLock(w)

\* A new GetConnection or erred ReturnChannel may never come.
Call(w) == pc[w] = "idle" /\ VerifyErrors(w)

Server ==
    \/ \E d \in Dials : ConnectionLost(d) \/ Broadcast(d)
    \/ Outage \/ Restore \/ BlockedFrame

Next ==
    \/ \E w \in Workers : Step(w) \/ Acquire(w) \/ Call(w) \/ FlushSpin(w)
    \/ Server

Safety == Init /\ [][Next]_vars

\* Goroutines keep running, sync.Mutex hands the lock to a starving waiter, a
\* dead connection finishes its shutdown and an outage ends.
Fairness ==
    /\ \A w \in Workers : WF_vars(Step(w)) /\ SF_vars(Acquire(w))
    /\ \A d \in Dials : WF_vars(Broadcast(d))
    /\ WF_vars(Restore)

Spec == Safety /\ Fairness

-----------------------------------------------------------------------------
(* Properties                                                              *)

\* ConnectWithErrorHandler never replaces a live connection: of all the
\* connections the host ever dialled only ch.Connection can be open, so no
\* connection is left open with nobody to close it.
OneLiveConnection == \A d \in Dials : life[d] = "open" => d = Connection

\* Whenever connLock is free, ch.Errors is the error channel of ch.Connection
\* and NotifyClose was called for it: a later loss will be noticed.
WatchedConnection ==
    connLock = NoOne => Errors = Connection /\ watched[Connection]

\* triggerConnectionRecovery's redial loop ends once the outage is over,
\* whoever reconnects first.
RecoveryEnds == \A w \in Workers : pc[w] \in Reconnecting ~> pc[w] = "flush"

\* If the host ends up with a connection that stays open, no goroutine is
\* stuck in verifyHealthyConnection or reconnectChannel: the flush loop and
\* the locks only hold one back while the connection is down.
VerifyReturnsWhenUp ==
    <>[](life[Connection] = "open") => \A w \in Workers : []<>(pc[w] = "idle")

\* The doc comment of GetConnection: a network outage pauses it until cleared.
OutagePausesUntilCleared == pc[Getter] # "idle" ~> pc[Getter] = "idle"
=============================================================================
