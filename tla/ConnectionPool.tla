--------------------------- MODULE ConnectionPool ---------------------------
(***************************************************************************)
(* The ConnectionPool (connectionpool.go): the queue of ConnectionHosts,   *)
(* the cache of ChannelHosts, the goroutines that borrow from them, and    *)
(* Owner, the goroutine that runs NewConnectionPool and Shutdown.          *)
(*                                                                         *)
(* verifyHealthyConnection is one step here: it returns with the host      *)
(* connected, and an outage only delays it. ConnectionHost refines it.     *)
(***************************************************************************)
EXTENDS Naturals, Sequences, Functions

CONSTANTS Users,                \* goroutines that publish or consume
          Owner,                \* the goroutine that makes and shuts the pool
          None,                 \* holds nothing
          MaxConnectionCount,   \* PoolConfig.MaxConnectionCount
          MaxCacheChannelCount, \* PoolConfig.MaxCacheChannelCount
          MaxLosses,            \* bound: connections that die
          MaxRefusals           \* bound: channels refused on an open connection

ASSUME UsersAssumption == Owner \notin Users /\ None \notin Users \cup {Owner}

ASSUME CountsAssumption ==
    /\ MaxConnectionCount \in Nat \ {0}
    /\ MaxCacheChannelCount \in Nat
    /\ MaxLosses \in Nat
    /\ MaxRefusals \in Nat
    /\ None \notin Nat

Hosts == 1 .. MaxConnectionCount
Chans == 1 .. MaxCacheChannelCount
Workers == Users \cup {Owner}

VARIABLES
    connections, \* cp.connections, the queue of hosts
    channels,    \* cp.channels, the buffered Go channel of cached ChannelHosts
    flagged,     \* cp.flaggedConnections
    up,          \* the host's amqp.Connection is open
    made,        \* hosts dialled while connecting, then cached channels made
    hostOf,      \* ChannelHost.connHost of each cached channel
    chanUp,      \* the cached channel's amqp.Channel is open
    pc,          \* where each goroutine is
    held,        \* the host a goroutine took from the queue
    chan,        \* the cached channel a goroutine took from the cache
    want,        \* the number of hosts Shutdown asks the queue for
    losses, refusals \* what the bounds count

net == <<losses, refusals>>
hosts == <<connections, flagged, up>>
cache == <<channels, hostOf, chanUp>>
vars == <<net, hosts, cache, made, pc, held, chan, want>>

UserLabels == {"idle", "getchan", "using", "verify", "make", "put",
               "getconn", "waiting", "transient", "stranded"}
OwnerLabels == {"connect", "getconn", "waiting", "verify", "make", "failed",
                "ready", "flush", "check", "len", "drain", "reset", "down"}

TypeOK ==
    /\ connections \in Seq(Hosts)
    /\ channels \in Seq(Chans)
    /\ flagged \in [Hosts -> BOOLEAN]
    /\ up \in [Hosts -> BOOLEAN]
    /\ made \in 0 .. (MaxConnectionCount + MaxCacheChannelCount)
    /\ hostOf \in [Chans -> Hosts \cup {None}]
    /\ chanUp \in [Chans -> BOOLEAN]
    /\ pc \in [Workers -> UserLabels \cup OwnerLabels]
    /\ held \in [Workers -> Hosts \cup {None}]
    /\ chan \in [Workers -> Chans \cup {None}]
    /\ want \in 0 .. MaxConnectionCount
    /\ losses \in 0 .. MaxLosses
    /\ refusals \in 0 .. MaxRefusals

Init ==
    /\ connections = <<>>
    /\ channels = <<>>
    /\ flagged = [h \in Hosts |-> FALSE]
    /\ up = [h \in Hosts |-> FALSE]
    /\ made = 0
    /\ hostOf = [c \in Chans |-> None]
    /\ chanUp = [c \in Chans |-> FALSE]
    /\ pc = [w \in Workers |-> IF w = Owner THEN "connect" ELSE "idle"]
    /\ held = [w \in Workers |-> None]
    /\ chan = [w \in Workers |-> None]
    /\ want = 0
    /\ losses = 0
    /\ refusals = 0

Goto(w, l) == pc' = [pc EXCEPT ![w] = l]

\* NewConnectionPool returned the pool.
Built == pc[Owner] \in OwnerLabels \ {"connect", "getconn", "waiting", "verify", "make", "failed"}

-----------------------------------------------------------------------------
(* initializeConnections                                                   *)

\* Dial the next host and queue it.
InitConnect ==
    /\ pc[Owner] = "connect"
    /\ made < MaxConnectionCount
    /\ made' = made + 1
    /\ up' = [up EXCEPT ![made + 1] = TRUE]
    /\ connections' = Append(connections, made + 1)
    /\ UNCHANGED <<net, flagged, cache, pc, held, chan, want>>

\* A dial fails: NewConnectionPool returns an error.
InitConnectFails ==
    /\ pc[Owner] = "connect"
    /\ made < MaxConnectionCount
    /\ Goto(Owner, "failed")
    /\ UNCHANGED <<net, hosts, cache, made, held, chan, want>>

InitChannelOffByOne ==
    /\ pc[Owner] = "connect"
    /\ made >= MaxConnectionCount
    /\ Goto(Owner, IF made <= MaxConnectionCount + MaxCacheChannelCount
                     THEN "getconn" ELSE "ready")
    /\ UNCHANGED <<net, hosts, cache, made, held, chan, want>>

\* The next iteration of the channel loop, or the end of it.
InitChannel ==
    /\ pc[Owner] = "connect"
    /\ made >= MaxConnectionCount
    /\ Goto(Owner, IF made < MaxConnectionCount + MaxCacheChannelCount
                     THEN "getconn" ELSE "ready")
    /\ UNCHANGED <<net, hosts, cache, made, held, chan, want>>

-----------------------------------------------------------------------------
(* createCacheChannel, run by Owner for the cache and by users who want a  *)
(* transient channel.                                                      *)

\* GetTransientChannel
GetTransientChannel(u) ==
    /\ Built
    /\ pc[u] = "idle"
    /\ Goto(u, "getconn")
    /\ UNCHANGED <<net, hosts, cache, made, held, chan, want>>

\* connections.Get(1) with a host in the queue, now or after a wait.
GetConnection(w) ==
    /\ pc[w] \in {"getconn", "waiting"}
    /\ connections # <<>>
    /\ held' = [held EXCEPT ![w] = Head(connections)]
    /\ connections' = Tail(connections)
    /\ Goto(w, "verify")
    /\ UNCHANGED <<net, flagged, up, cache, made, chan, want>>

\* connections.Get(1) on the empty queue: wait on this queue.
WaitConnection(w) ==
    /\ pc[w] = "getconn"
    /\ connections = <<>>
    /\ Goto(w, "waiting")
    /\ UNCHANGED <<net, hosts, cache, made, held, chan, want>>

\* The host a goroutine verifies: the one it holds, or its channel's.
Target(w) == IF held[w] # None THEN held[w] ELSE hostOf[chan[w]]

VerifyIgnoresClosed(w) ==
    /\ pc[w] = "verify"
    /\ LET h == Target(w) IN
         /\ up' = [up EXCEPT ![h] = @ \/ flagged[h]]
         /\ flagged' = [flagged EXCEPT ![h] = FALSE]
    /\ Goto(w, "make")
    /\ UNCHANGED <<net, connections, cache, made, held, chan, want>>

\* verifyHealthyConnection: redial a flagged or closed host, then go on.
VerifyHealthyConnection(w) ==
    /\ pc[w] = "verify"
    /\ LET h == Target(w) IN
         /\ up' = [up EXCEPT ![h] = TRUE]
         /\ flagged' = [flagged EXCEPT ![h] = FALSE]
    /\ Goto(w, "make")
    /\ UNCHANGED <<net, connections, cache, made, held, chan, want>>

\* ReturnConnection
ReturnConnection(w, flag) ==
    /\ flagged' = [flagged EXCEPT ![held[w]] = @ \/ flag]
    /\ connections' = Append(connections, held[w])
    /\ held' = [held EXCEPT ![w] = None]

\* NewChannelHost succeeds: Owner caches the channel, a user keeps it.
NewChannelHost(w) ==
    /\ pc[w] = "make"
    /\ held[w] # None
    /\ up[held[w]]
    /\ IF w = Owner
         THEN LET c == made + 1 - MaxConnectionCount IN
                /\ hostOf' = [hostOf EXCEPT ![c] = held[w]]
                /\ chanUp' = [chanUp EXCEPT ![c] = TRUE]
                /\ channels' = Append(channels, c)
                /\ made' = made + 1
                /\ Goto(w, "connect")
         ELSE Goto(w, "transient") /\ UNCHANGED <<cache, made>>
    /\ ReturnConnection(w, FALSE)
    /\ UNCHANGED <<net, up, chan, want>>

\* The connection is closed, or refuses the channel.
Refused(w) ==
    \/ ~up[Target(w)] /\ UNCHANGED refusals
    \/ refusals < MaxRefusals /\ refusals' = refusals + 1

NewChannelHostLeaks(w) ==
    /\ pc[w] = "make"
    /\ held[w] # None
    /\ Refused(w)
    /\ held' = [held EXCEPT ![w] = None]
    /\ Goto(w, "getconn")
    /\ UNCHANGED <<hosts, cache, losses, made, chan, want>>

\* NewChannelHost fails: return the connection flagged and start again.
NewChannelHostFails(w) ==
    /\ pc[w] = "make"
    /\ held[w] # None
    /\ Refused(w)
    /\ ReturnConnection(w, TRUE)
    /\ Goto(w, "getconn")
    /\ UNCHANGED <<up, cache, losses, made, chan, want>>

\* ReturnChannel of a transient channel only closes it.
CloseTransient(u) ==
    /\ pc[u] = "transient"
    /\ Goto(u, "idle")
    /\ UNCHANGED <<net, hosts, cache, made, held, chan, want>>

-----------------------------------------------------------------------------
(* The channel cache.                                                      *)

\* A call of GetChannelFromPool.
CallGetChannel(u) ==
    /\ Built
    /\ pc[u] = "idle"
    /\ Goto(u, "getchan")
    /\ UNCHANGED <<net, hosts, cache, made, held, chan, want>>

GetChannelPeeks(u) ==
    /\ pc[u] = "getchan"
    /\ channels # <<>>
    /\ chan' = [chan EXCEPT ![u] = Head(channels)]
    /\ Goto(u, "using")
    /\ UNCHANGED <<net, hosts, cache, made, held, want>>

\* The receive from cp.channels.
GetChannelFromPool(u) ==
    /\ pc[u] = "getchan"
    /\ channels # <<>>
    /\ chan' = [chan EXCEPT ![u] = Head(channels)]
    /\ channels' = Tail(channels)
    /\ Goto(u, "using")
    /\ UNCHANGED <<net, hosts, hostOf, chanUp, made, held, want>>

ReturnDropsErred(u) ==
    /\ pc[u] = "using"
    /\ \E erred \in BOOLEAN :
         /\ Goto(u, IF erred THEN "idle" ELSE "put")
         /\ chan' = IF erred THEN [chan EXCEPT ![u] = None] ELSE chan
    /\ UNCHANGED <<net, hosts, cache, made, held, want>>

\* ReturnChannel of a cached channel. A caller may call an open channel erred
\* (a publish it refused itself) and not know that a channel has died.
ReturnChannel(u) ==
    /\ pc[u] = "using"
    /\ \E erred \in BOOLEAN : Goto(u, IF erred THEN "verify" ELSE "put")
    /\ UNCHANGED <<net, hosts, cache, made, held, chan, want>>

\* reconnectChannel: MakeChannel succeeds on the channel's own host.
MakeChannel(u) ==
    /\ pc[u] = "make"
    /\ chan[u] # None
    /\ up[hostOf[chan[u]]]
    /\ chanUp' = [chanUp EXCEPT ![chan[u]] = TRUE]
    /\ Goto(u, "put")
    /\ UNCHANGED <<net, hosts, channels, hostOf, made, held, chan, want>>

\* MakeChannel fails: verify the host again.
MakeChannelFails(u) ==
    /\ pc[u] = "make"
    /\ chan[u] # None
    /\ Refused(u)
    /\ Goto(u, "verify")
    /\ UNCHANGED <<hosts, cache, losses, made, held, chan, want>>

PutKeepsChannel(u) ==
    /\ pc[u] = "put"
    /\ Len(channels) < MaxCacheChannelCount
    /\ channels' = Append(channels, chan[u])
    /\ Goto(u, "using")
    /\ UNCHANGED <<net, hosts, hostOf, chanUp, made, held, chan, want>>

\* The send to cp.channels, which would block on a full cache.
PutChannel(u) ==
    /\ pc[u] = "put"
    /\ Len(channels) < MaxCacheChannelCount
    /\ channels' = Append(channels, chan[u])
    /\ chan' = [chan EXCEPT ![u] = None]
    /\ Goto(u, "idle")
    /\ UNCHANGED <<net, hosts, hostOf, chanUp, made, held, want>>

-----------------------------------------------------------------------------
(* Shutdown                                                                *)

Shutdown ==
    /\ pc[Owner] = "ready"
    /\ Goto(Owner, "flush")
    /\ UNCHANGED <<net, hosts, cache, made, held, chan, want>>

\* One iteration of ChannelFlushLoop: close a cached channel.
FlushChannel ==
    /\ pc[Owner] = "flush"
    /\ channels # <<>>
    /\ chanUp' = [chanUp EXCEPT ![Head(channels)] = FALSE]
    /\ channels' = Tail(channels)
    /\ UNCHANGED <<net, hosts, hostOf, made, pc, held, chan, want>>

FlushDone ==
    /\ pc[Owner] = "flush"
    /\ channels = <<>>
    /\ Goto(Owner, "check")
    /\ UNCHANGED <<net, hosts, cache, made, held, chan, want>>

\* for !cp.connections.Empty()
CheckEmpty ==
    /\ pc[Owner] = "check"
    /\ Goto(Owner, IF connections = <<>> THEN "reset" ELSE "len")
    /\ UNCHANGED <<net, hosts, cache, made, held, chan, want>>

\* cp.connections.Len()
ReadLen ==
    /\ pc[Owner] = "len"
    /\ want' = Len(connections)
    /\ Goto(Owner, "drain")
    /\ UNCHANGED <<net, hosts, cache, made, held, chan>>

DrainNeedsAll ==
    /\ pc[Owner] = "drain"
    /\ Len(connections) = want
    /\ up' = [h \in Hosts |-> up[h] /\ h \notin Range(connections)]
    /\ chanUp' = [c \in Chans |-> chanUp[c] /\ hostOf[c] \notin Range(connections)]
    /\ connections' = <<>>
    /\ want' = 0
    /\ Goto(Owner, "check")
    /\ UNCHANGED <<net, flagged, channels, hostOf, made, held, chan>>

\* cp.connections.Get(want): up to want hosts; it waits for one if it asked
\* for some and the queue is empty. The hosts' connections are closed.
Drain ==
    /\ pc[Owner] = "drain"
    /\ want > 0 => connections # <<>>
    /\ LET n == IF want < Len(connections) THEN want ELSE Len(connections)
           taken == Range(SubSeq(connections, 1, n))
       IN /\ up' = [h \in Hosts |-> up[h] /\ h \notin taken]
          /\ chanUp' = [c \in Chans |-> chanUp[c] /\ hostOf[c] \notin taken]
          /\ connections' = SubSeq(connections, n + 1, Len(connections))
    /\ want' = 0
    /\ Goto(Owner, "check")
    /\ UNCHANGED <<net, flagged, channels, hostOf, made, held, chan>>

\* The pool gets a new queue; whoever waits on the old one waits for ever.
Reset ==
    /\ pc[Owner] = "reset"
    /\ connections' = <<>>
    /\ flagged' = [h \in Hosts |-> FALSE]
    /\ pc' = [w \in Workers |-> IF w = Owner THEN "down"
                                ELSE IF pc[w] = "waiting" THEN "stranded"
                                ELSE pc[w]]
    /\ UNCHANGED <<net, up, cache, made, held, chan, want>>

-----------------------------------------------------------------------------
\* A connection dies, and every channel on it.
ConnectionLost(h) ==
    /\ up[h]
    /\ losses < MaxLosses
    /\ losses' = losses + 1
    /\ up' = [up EXCEPT ![h] = FALSE]
    /\ chanUp' = [c \in Chans |-> chanUp[c] /\ hostOf[c] # h]
    /\ UNCHANGED <<refusals, connections, flagged, channels, hostOf, made, pc,
                   held, chan, want>>

-----------------------------------------------------------------------------
\* Calls that may never come.
Call(u) == GetTransientChannel(u) \/ CallGetChannel(u)

\* Receives that another goroutine may win.
Receive(w) == GetConnection(w) \/ GetChannelFromPool(w)

Step(w) ==
    \/ WaitConnection(w) \/ VerifyHealthyConnection(w)
    \/ NewChannelHost(w) \/ NewChannelHostFails(w) \/ CloseTransient(w)
    \/ ReturnChannel(w) \/ MakeChannel(w) \/ MakeChannelFails(w) \/ PutChannel(w)

Initialize == InitConnect \/ InitChannel

ShutdownStep == FlushChannel \/ FlushDone \/ CheckEmpty \/ ReadLen \/ Reset

Next ==
    \/ \E u \in Users : Call(u)
    \/ \E w \in Workers : Receive(w) \/ Step(w)
    \/ Initialize \/ InitConnectFails
    \/ Shutdown \/ ShutdownStep \/ Drain
    \/ \E h \in Hosts : ConnectionLost(h)

\* Goroutines keep running; waiters on a Go channel and on the queue are
\* served in the order they came, so a receive that is possible again and
\* again happens. Nobody is obliged to call.
Fairness ==
    /\ \A w \in Workers : WF_vars(Step(w)) /\ SF_vars(Receive(w))
    /\ WF_vars(Initialize) /\ WF_vars(ShutdownStep) /\ SF_vars(Drain)

Safety == Init /\ [][Next]_vars

Spec == Safety /\ Fairness

-----------------------------------------------------------------------------
(* Properties                                                              *)

\* Where a cached channel and a host are, as Loans sees them.
Holders(holds, i) == {w \in Workers : holds[w] = i}

Place(shelf, holds, i) ==
    IF i \in Range(shelf) THEN "shelf"
    ELSE IF Holders(holds, i) # {} THEN CHOOSE w \in Holders(holds, i) : TRUE
    ELSE "outside"

ChannelLoans == INSTANCE Loans
    WITH Items <- Chans, Borrowers <- Workers, Shelf <- "shelf", Outside <- "outside",
         place <- [c \in Chans |-> Place(channels, chan, c)]

ConnectionLoans == INSTANCE Loans
    WITH Items <- Hosts, Borrowers <- Workers, Shelf <- "shelf", Outside <- "outside",
         place <- [h \in Hosts |-> Place(connections, held, h)]

\* The cache lends each channel to one goroutine at a time and gets it back:
\* ReturnChannel never drops a channel, on any path.
ChannelsLent == ChannelLoans!Spec

\* The same of the connection queue: GetConnection and ReturnConnection.
ConnectionsLent == ConnectionLoans!Spec

\* No channel or host is in two hands, or in a hand and on the shelf, or
\* twice on the shelf.
ExclusiveLoans ==
    /\ IsInjective(channels) /\ IsInjective(connections)
    /\ \A w, v \in Workers : w # v => /\ chan[w] # None => chan[w] # chan[v]
                                      /\ held[w] # None => held[w] # held[v]
    /\ \A w \in Workers : chan[w] \notin Range(channels) /\ held[w] \notin Range(connections)

\* The send at the end of ReturnChannel never finds the cache full, so giving
\* a channel back cannot block its user.
PutNeverBlocks == \A u \in Users : pc[u] = "put" => Len(channels) < MaxCacheChannelCount

\* A goroutine that returns an erred channel gets out of reconnectChannel and
\* the channel is back in the cache.
ErredChannelComesBack == \A u \in Users : pc[u] = "using" ~> pc[u] = "idle"

\* While nobody shuts the pool down, a goroutine that asks for a transient
\* channel gets one, whatever connections die meanwhile.
TransientChannelServed ==
    [](pc[Owner] \in {"connect", "getconn", "waiting", "verify", "make", "ready"}) =>
        \A u \in Users : pc[u] = "getconn" ~> pc[u] = "transient"

\* Shutdown returns although goroutines still take and return channels and
\* hosts, provided they do not ask for new transient channels for ever.
ShutdownReturns ==
    <>[][\A u \in Users : ~GetTransientChannel(u)]_vars =>
        (pc[Owner] = "flush" ~> pc[Owner] = "down")
=============================================================================
