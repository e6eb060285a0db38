------------------------ MODULE ConnectionPoolProofs ------------------------
(***************************************************************************)
(* Proofs about ConnectionPool, for any number of goroutines, connections, *)
(* cached channels, losses and refusals: who has what (ExclusiveLoans), a  *)
(* cache that is never full when a channel comes back, and the refinement  *)
(* of Loans by the channel cache and by the connection queue.              *)
(***************************************************************************)
EXTENDS ConnectionPool, ShelfTheorems

-----------------------------------------------------------------------------
(* The inductive invariant, in parts                                       *)

\* One shelf and the hands around it.
Exclusive(shelf, holds) ==
    /\ IsInjective(shelf)
    /\ \A w, v \in Workers : w # v => (holds[w] # None => holds[w] # holds[v])
    /\ \A w \in Workers : holds[w] \notin Range(shelf)

\* Where a goroutine is tells what it holds: a host while it makes a channel on
\* it, or a cached channel from the receive to the send.
LabelInv ==
    /\ pc[Owner] \in OwnerLabels /\ chan[Owner] = None
    /\ \A u \in Users : pc[u] \in UserLabels
    /\ \A w \in Workers :
         /\ held[w] # None <=> pc[w] \in {"verify", "make"} /\ chan[w] = None
         /\ chan[w] # None => pc[w] \in {"using", "verify", "make", "put"}
         /\ pc[w] \in {"using", "put"} => chan[w] # None

\* While NewConnectionPool makes cached channels, all hosts are there and there
\* is a channel to make.
Building ==
    pc[Owner] \in {"getconn", "waiting", "verify", "make"}
        => MaxConnectionCount <= made /\ made < MaxConnectionCount + MaxCacheChannelCount

\* What NewConnectionPool has not made yet is nowhere.
HostsMade ==
    \A h \in Hosts : made < h =>
        h \notin Range(connections) /\ \A w \in Workers : held[w] # h

ChansMade ==
    \A c \in Chans : made < c + MaxConnectionCount =>
        c \notin Range(channels) /\ \A w \in Workers : chan[w] # c

IInv ==
    /\ TypeOK /\ LabelInv /\ Building /\ HostsMade /\ ChansMade
    /\ Exclusive(channels, chan) /\ Exclusive(connections, held)

-----------------------------------------------------------------------------
(* Moves: what each does to Exclusive and to the place of each thing       *)

\* Between shelf s with hands f and shelf t with hands g, x moves and nothing
\* else does.
Moves(N, s, f, t, g, x, from, to) ==
    /\ x \in N /\ Place(s, f, x) = from
    /\ \A i \in N : Place(t, g, i) = IF i = x THEN to ELSE Place(s, f, i)

\* A place depends only on the shelf's contents and on the thing's holders.
LEMMA SamePlace ==
    ASSUME NEW s, NEW t, NEW f, NEW g, NEW i,
           i \in Range(s) <=> i \in Range(t), Holders(f, i) = Holders(g, i)
    PROVE  Place(s, f, i) = Place(t, g, i)
BY DEF Place

\* A receive: the first thing on the shelf goes to w.
LEMMA LendMove ==
    ASSUME NEW N, None \notin N, NEW s \in Seq(N), NEW f \in [Workers -> N \cup {None}],
           Exclusive(s, f), NEW w \in Workers, s # <<>>, f[w] = None,
           NEW t, t = Tail(s), NEW g, g = [f EXCEPT ![w] = Head(s)]
    PROVE  Exclusive(t, g) /\ Moves(N, s, f, t, g, Head(s), "shelf", w)
<1>. DEFINE x == Head(s)
<1>1. /\ x \in Range(s) /\ x \in N
      /\ IsInjective(t) /\ Range(t) = Range(s) \ {x}
  BY ShelfTail DEF Exclusive
<1>2. g = [v \in Workers |-> IF v = w THEN x ELSE f[v]]
  OBVIOUS
<1>. HIDE DEF x
<1>3. Exclusive(t, g)
  BY <1>1, <1>2 DEF Exclusive
<1>4. Place(s, f, x) = "shelf"
  BY <1>1 DEF Place
<1>5. Place(t, g, x) = w
  <2>1. Holders(g, x) = {w}
    BY <1>1, <1>2 DEF Exclusive, Holders
  <2>. QED
    BY <1>1, <2>1 DEF Place
<1>6. ASSUME NEW i \in N, i # x PROVE Place(t, g, i) = Place(s, f, i)
  <2>1. Holders(g, i) = Holders(f, i)
    BY <1>2, <1>6 DEF Holders
  <2>2. i \in Range(t) <=> i \in Range(s)
    BY <1>1, <1>6
  <2>. QED
    BY <2>1, <2>2, SamePlace
<1>. QED
  BY <1>1, <1>3, <1>4, <1>5, <1>6 DEF x, Moves

\* A send: what w holds goes to the end of the shelf.
LEMMA GiveBackMove ==
    ASSUME NEW N, None \notin N, NEW s \in Seq(N), NEW f \in [Workers -> N \cup {None}],
           Exclusive(s, f), NEW w \in Workers, f[w] # None,
           NEW t, t = Append(s, f[w]), NEW g, g = [f EXCEPT ![w] = None]
    PROVE  Exclusive(t, g) /\ Moves(N, s, f, t, g, f[w], w, "shelf")
<1>. DEFINE x == f[w]
<1>1. x \in N /\ x \notin Range(s)
  BY DEF Exclusive
<1>2. IsInjective(t) /\ Range(t) = Range(s) \cup {x}
  BY <1>1, ShelfAppend DEF Exclusive
<1>3. g = [v \in Workers |-> IF v = w THEN None ELSE f[v]]
  OBVIOUS
<1>4. Range(s) \subseteq N
  BY LenProperties DEF Range
<1>5. \A v \in Workers : v # w => f[v] # x
  BY <1>1 DEF Exclusive
<1>6. Exclusive(t, g)
  <2>1. ASSUME NEW v \in Workers PROVE g[v] \notin Range(t)
    BY <1>1, <1>2, <1>3, <1>4, <1>5 DEF Exclusive
  <2>2. ASSUME NEW v \in Workers, NEW u \in Workers, v # u, g[v] # None PROVE g[v] # g[u]
    BY <1>3, <2>2 DEF Exclusive
  <2>. QED
    BY <1>2, <2>1, <2>2 DEF Exclusive
<1>7. Place(s, f, x) = w
  <2>1. Holders(f, x) = {w}
    BY <1>5 DEF Holders
  <2>. QED
    BY <1>1, <2>1 DEF Place
<1>8. Place(t, g, x) = "shelf"
  BY <1>2 DEF Place
<1>9. ASSUME NEW i \in N, i # x PROVE Place(t, g, i) = Place(s, f, i)
  <2>1. Holders(g, i) = Holders(f, i)
    BY <1>3, <1>9 DEF Holders
  <2>2. i \in Range(t) <=> i \in Range(s)
    BY <1>2, <1>9
  <2>. QED
    BY <2>1, <2>2, SamePlace
<1>. QED
  BY <1>1, <1>6, <1>7, <1>8, <1>9 DEF Moves

\* Something new goes to the end of the shelf.
LEMMA StockMove ==
    ASSUME NEW N, NEW s \in Seq(N), NEW f \in [Workers -> N \cup {None}], Exclusive(s, f),
           NEW x \in N, x \notin Range(s), \A w \in Workers : f[w] # x
    PROVE  /\ Exclusive(Append(s, x), f)
           /\ Place(s, f, x) = "outside"
           /\ \A i \in N : Place(Append(s, x), f, i) = IF i = x THEN "shelf" ELSE Place(s, f, i)
<1>1. IsInjective(Append(s, x)) /\ Range(Append(s, x)) = Range(s) \cup {x}
  BY ShelfAppend DEF Exclusive
<1>2. Exclusive(Append(s, x), f)
  BY <1>1 DEF Exclusive
<1>3. Place(s, f, x) = "outside"
  <2>1. Holders(f, x) = {}
    BY DEF Holders
  <2>. QED
    BY <2>1 DEF Place
<1>4. Place(Append(s, x), f, x) = "shelf"
  BY <1>1 DEF Place
<1>5. ASSUME NEW i \in N, i # x PROVE Place(Append(s, x), f, i) = Place(s, f, i)
  BY <1>1, <1>5, SamePlace
<1>. QED
  BY <1>2, <1>3, <1>4, <1>5

\* The things of S are taken off the shelf and given to nobody.
LEMMA RetireMove ==
    ASSUME NEW N, NEW s \in Seq(N), NEW f \in [Workers -> N \cup {None}], Exclusive(s, f),
           NEW t, IsInjective(t), NEW S \in SUBSET Range(s), Range(t) = Range(s) \ S
    PROVE  /\ Exclusive(t, f) /\ S \subseteq N
           /\ \A i \in S : Place(s, f, i) = "shelf"
           /\ \A i \in N : Place(t, f, i) = IF i \in S THEN "outside" ELSE Place(s, f, i)
<1>1. Range(s) \subseteq N
  BY LenProperties DEF Range
<1>2. Exclusive(t, f)
  BY DEF Exclusive
<1>3. ASSUME NEW i \in S PROVE Place(s, f, i) = "shelf" /\ Place(t, f, i) = "outside"
  <2>1. Holders(f, i) = {}
    BY DEF Exclusive, Holders
  <2>. QED
    BY <2>1 DEF Place
<1>4. ASSUME NEW i \in N, i \notin S PROVE Place(t, f, i) = Place(s, f, i)
  BY <1>4, SamePlace
<1>. QED
  BY <1>1, <1>2, <1>3, <1>4

-----------------------------------------------------------------------------
(* The invariant is inductive                                              *)

\* The steps that move nothing.
Quiet == UNCHANGED <<channels, chan, connections, held, made>>

\* A step is quiet or one of the moves.
LEMMA Kinds ==
    ASSUME [Next]_vars
    PROVE  \/ Quiet
           \/ InitConnect \/ FlushChannel \/ Drain \/ Reset
           \/ \E w \in Workers : \/ GetConnection(w) \/ NewChannelHost(w)
                                 \/ NewChannelHostFails(w)
                                 \/ GetChannelFromPool(w) \/ PutChannel(w)
<1>1. CASE UNCHANGED vars
  BY <1>1 DEF vars, cache, hosts, Quiet
<1>2. ASSUME NEW u \in Users, Call(u) PROVE Quiet
  BY <1>2 DEF Call, GetTransientChannel, CallGetChannel, cache, hosts, Quiet
<1>3. ASSUME NEW w \in Workers,
             \/ WaitConnection(w) \/ VerifyHealthyConnection(w) \/ CloseTransient(w)
             \/ ReturnChannel(w) \/ MakeChannel(w) \/ MakeChannelFails(w)
      PROVE  Quiet
  BY <1>3 DEF WaitConnection, VerifyHealthyConnection, CloseTransient, ReturnChannel,
     MakeChannel, MakeChannelFails, cache, hosts, Quiet
<1>4. ASSUME \/ InitChannel \/ InitConnectFails \/ Shutdown \/ FlushDone \/ CheckEmpty
             \/ ReadLen
      PROVE  Quiet
  BY <1>4 DEF InitChannel, InitConnectFails, Shutdown, FlushDone, CheckEmpty, ReadLen, cache,
     hosts, Quiet
<1>5. ASSUME NEW h \in Hosts, ConnectionLost(h) PROVE Quiet
  BY <1>5 DEF ConnectionLost, Quiet
<1>. QED
  BY <1>1, <1>2, <1>3, <1>4, <1>5 DEF Next, Receive, Step, Initialize, ShutdownStep

\* The sets of things: None is not one of them.
LEMMA Things ==
    /\ None \notin Hosts /\ None \notin Chans /\ Owner \in Workers
    /\ Hosts \subseteq Nat /\ Chans \subseteq Nat
    /\ MaxConnectionCount \in Nat \ {0} /\ MaxCacheChannelCount \in Nat
BY UsersAssumption, CountsAssumption DEF Hosts, Chans, Workers

\* Initially nothing has been made.
LEMMA InitHolds == Init => IInv
<1>. SUFFICES ASSUME Init PROVE IInv
  OBVIOUS
<1>1. TypeOK
  BY Things, CountsAssumption DEF Init, TypeOK, UserLabels, OwnerLabels
<1>2. LabelInv
  BY Things, UsersAssumption DEF Init, LabelInv, UserLabels, OwnerLabels, Workers
<1>3. Range(<<>>) = {} /\ IsInjective(<<>>)
  BY DEF Range, IsInjective
<1>4. Building /\ HostsMade /\ ChansMade
  BY <1>3, Things DEF Init, Building, HostsMade, ChansMade
<1>5. Exclusive(channels, chan) /\ Exclusive(connections, held)
  BY <1>3, Things DEF Init, Exclusive
<1>. QED
  BY <1>1, <1>2, <1>4, <1>5 DEF IInv

\* What moves a cached channel: a receive, a send, Owner's new one, a flush.
LEMMA ChannelKinds ==
    ASSUME [Next]_vars
    PROVE  \/ UNCHANGED <<channels, chan>>
           \/ \E w \in Workers : GetChannelFromPool(w) \/ PutChannel(w)
           \/ NewChannelHost(Owner) \/ FlushChannel
<1>1. CASE Quiet
  BY <1>1 DEF Quiet
<1>2. CASE InitConnect \/ Drain \/ Reset
  BY <1>2 DEF InitConnect, Drain, Reset, cache
<1>3. ASSUME NEW w \in Workers,
             GetConnection(w) \/ (NewChannelHost(w) /\ w # Owner) \/ NewChannelHostFails(w)
      PROVE  UNCHANGED <<channels, chan>>
  BY <1>3 DEF GetConnection, NewChannelHost, NewChannelHostFails, cache
<1>. QED
  BY <1>1, <1>2, <1>3, Kinds

\* What moves a host: a dial, a receive, a return, a drain, a reset.
LEMMA ConnectionKinds ==
    ASSUME [Next]_vars
    PROVE  \/ UNCHANGED <<connections, held>>
           \/ \E w \in Workers : \/ GetConnection(w)
                                 \/ NewChannelHost(w) \/ NewChannelHostFails(w)
           \/ InitConnect \/ Drain \/ Reset
<1>1. CASE Quiet
  BY <1>1 DEF Quiet
<1>2. CASE FlushChannel
  BY <1>2 DEF FlushChannel, hosts
<1>3. ASSUME NEW w \in Workers, GetChannelFromPool(w) \/ PutChannel(w)
      PROVE  UNCHANGED <<connections, held>>
  BY <1>3 DEF GetChannelFromPool, PutChannel, hosts
<1>. QED
  BY <1>1, <1>2, <1>3, Kinds

\* The host InitConnect queues is a new one.
LEMMA NewHost ==
    ASSUME IInv, InitConnect
    PROVE  /\ made + 1 \in Hosts /\ made + 1 \notin Range(connections)
           /\ \A w \in Workers : held[w] # made + 1
<1>1. made \in Nat /\ made + 1 \in Hosts
  BY Things DEF IInv, TypeOK, InitConnect, Hosts
<1>2. made < made + 1
  BY <1>1
<1>. QED
  BY <1>1, <1>2 DEF IInv, HostsMade

\* The channel NewConnectionPool caches is a new one.
LEMMA NewChannel ==
    ASSUME IInv, NewChannelHost(Owner)
    PROVE  LET x == made + 1 - MaxConnectionCount
           IN  /\ x \in Chans /\ x \notin Range(channels) /\ \A w \in Workers : chan[w] # x
               /\ channels' = Append(channels, x) /\ chan' = chan
<1>. DEFINE x == made + 1 - MaxConnectionCount
<1>1. made \in Nat /\ pc[Owner] = "make"
  BY Things DEF IInv, TypeOK, NewChannelHost
<1>2. MaxConnectionCount <= made /\ made < MaxConnectionCount + MaxCacheChannelCount
  BY <1>1 DEF IInv, Building
<1>3. x \in Chans /\ made < x + MaxConnectionCount
  BY <1>1, <1>2, Things DEF Chans
<1>. HIDE DEF x
<1>5. x \notin Range(channels) /\ \A w \in Workers : chan[w] # x
  BY <1>3 DEF IInv, ChansMade
<1>. QED
  BY <1>3, <1>5 DEF NewChannelHost, x

\* Shutdown takes the first hosts of the queue.
LEMMA Drained ==
    ASSUME IInv, Drain
    PROVE  \E n \in 0 .. Len(connections) :
               connections' = SubSeq(connections, n + 1, Len(connections))
<1>. DEFINE n == IF want < Len(connections) THEN want ELSE Len(connections)
<1>1. want \in Nat /\ Len(connections) \in Nat
  BY Things, LenProperties DEF IInv, TypeOK
<1>2. n \in 0 .. Len(connections)
  BY <1>1
<1>. QED
  BY <1>2 DEF Drain

\* No step breaks the exclusiveness of the cached channels.
LEMMA ChannelsStep == IInv /\ [Next]_vars => Exclusive(channels, chan)'
<1>. SUFFICES ASSUME IInv, [Next]_vars PROVE Exclusive(channels, chan)'
  OBVIOUS
<1>1. /\ None \notin Chans /\ channels \in Seq(Chans)
      /\ chan \in [Workers -> Chans \cup {None}] /\ Exclusive(channels, chan)
  BY Things DEF IInv, TypeOK
<1>2. CASE UNCHANGED <<channels, chan>>
  BY <1>1, <1>2 DEF Exclusive
<1>3. ASSUME NEW w \in Workers, GetChannelFromPool(w) PROVE Exclusive(channels, chan)'
  <2>1. chan[w] = None
    BY <1>3 DEF IInv, LabelInv, GetChannelFromPool
  <2>2. Exclusive(Tail(channels), [chan EXCEPT ![w] = Head(channels)])
    BY <1>1, <1>3, <2>1, LendMove DEF GetChannelFromPool
  <2>. QED
    BY <1>3, <2>2 DEF GetChannelFromPool, Exclusive
<1>4. ASSUME NEW w \in Workers, PutChannel(w) PROVE Exclusive(channels, chan)'
  <2>1. chan[w] # None
    BY <1>4 DEF IInv, LabelInv, PutChannel
  <2>2. Exclusive(Append(channels, chan[w]), [chan EXCEPT ![w] = None])
    BY <1>1, <2>1, GiveBackMove
  <2>. QED
    BY <1>4, <2>2 DEF PutChannel, Exclusive
<1>5. ASSUME NewChannelHost(Owner) PROVE Exclusive(channels, chan)'
  <2>. DEFINE x == made + 1 - MaxConnectionCount
  <2>1. /\ x \in Chans /\ x \notin Range(channels) /\ \A w \in Workers : chan[w] # x
        /\ channels' = Append(channels, x) /\ chan' = chan
    BY <1>5, NewChannel
  <2>. HIDE DEF x
  <2>2. Exclusive(Append(channels, x), chan)
    BY <1>1, <2>1, StockMove
  <2>. QED
    BY <2>1, <2>2 DEF Exclusive
<1>6. CASE FlushChannel
  <2>1. /\ IsInjective(Tail(channels)) /\ Head(channels) \in Range(channels)
        /\ Range(Tail(channels)) = Range(channels) \ {Head(channels)}
    BY <1>1, <1>6, ShelfTail DEF FlushChannel, Exclusive
  <2>2. Exclusive(Tail(channels), chan)
    BY <1>1, <2>1 DEF Exclusive
  <2>. QED
    BY <1>6, <2>2 DEF FlushChannel, Exclusive
<1>. QED
  BY <1>2, <1>3, <1>4, <1>5, <1>6, ChannelKinds

\* No step breaks the exclusiveness of the hosts.
LEMMA ConnectionsStep == IInv /\ [Next]_vars => Exclusive(connections, held)'
<1>. SUFFICES ASSUME IInv, [Next]_vars PROVE Exclusive(connections, held)'
  OBVIOUS
<1>1. /\ None \notin Hosts /\ connections \in Seq(Hosts)
      /\ held \in [Workers -> Hosts \cup {None}] /\ Exclusive(connections, held)
  BY Things DEF IInv, TypeOK
<1>2. CASE UNCHANGED <<connections, held>>
  BY <1>1, <1>2 DEF Exclusive
<1>3. CASE InitConnect
  <2>1. /\ made + 1 \in Hosts /\ made + 1 \notin Range(connections)
        /\ \A w \in Workers : held[w] # made + 1
    BY <1>3, NewHost
  <2>2. Exclusive(Append(connections, made + 1), held)
    BY <1>1, <2>1, StockMove
  <2>. QED
    BY <1>3, <2>2 DEF InitConnect, Exclusive
<1>4. ASSUME NEW w \in Workers, GetConnection(w) PROVE Exclusive(connections, held)'
  <2>1. held[w] = None
    BY <1>4 DEF IInv, LabelInv, GetConnection
  <2>2. Exclusive(Tail(connections), [held EXCEPT ![w] = Head(connections)])
    BY <1>1, <1>4, <2>1, LendMove DEF GetConnection
  <2>. QED
    BY <1>4, <2>2 DEF GetConnection, Exclusive
<1>5. ASSUME NEW w \in Workers, NewChannelHost(w) \/ NewChannelHostFails(w)
      PROVE  Exclusive(connections, held)'
  <2>1. held[w] # None
    BY <1>5 DEF NewChannelHost, NewChannelHostFails
  <2>2. Exclusive(Append(connections, held[w]), [held EXCEPT ![w] = None])
    BY <1>1, <2>1, GiveBackMove
  <2>. QED
    BY <1>5, <2>2 DEF NewChannelHost, NewChannelHostFails, ReturnConnection, Exclusive
<1>6. CASE Drain
  <2>1. PICK n \in 0 .. Len(connections) :
              connections' = SubSeq(connections, n + 1, Len(connections))
    BY <1>6, Drained
  <2>2. /\ IsInjective(connections') /\ connections' \in Seq(Hosts)
        /\ Range(connections') = Range(connections) \ Range(SubSeq(connections, 1, n))
        /\ Range(SubSeq(connections, 1, n)) \in SUBSET Range(connections)
    BY <1>1, <2>1, ShelfSplit DEF Exclusive
  <2>3. held' = held
    BY <1>6 DEF Drain
  <2>. QED
    BY <1>1, <2>2, <2>3 DEF Exclusive
<1>7. CASE Reset
  <2>1. connections' = <<>> /\ held' = held /\ Range(<<>>) = {} /\ IsInjective(<<>>)
    BY <1>7 DEF Reset, Range, IsInjective
  <2>. QED
    BY <1>1, <2>1 DEF Exclusive
<1>. QED
  BY <1>2, <1>3, <1>4, <1>5, <1>6, <1>7, ConnectionKinds

\* Each goroutine's label and what it holds change together.
LEMMA LabelStep == IInv /\ [Next]_vars => LabelInv'
<1>. SUFFICES ASSUME IInv, [Next]_vars PROVE LabelInv'
  OBVIOUS
<1>. USE Things DEF LabelInv, UserLabels, OwnerLabels
<1>0. /\ pc \in [Workers -> UserLabels \cup OwnerLabels] /\ LabelInv
      /\ held \in [Workers -> Hosts \cup {None}] /\ chan \in [Workers -> Chans \cup {None}]
      /\ Workers = Users \cup {Owner} /\ Owner \notin Users
  BY UsersAssumption DEF IInv, TypeOK, Workers
<1>1. CASE UNCHANGED <<pc, held, chan>>
  BY <1>0, <1>1
<1>2. ASSUME NEW u \in Users, Call(u) PROVE LabelInv'
  BY <1>0, <1>2 DEF Call, GetTransientChannel, CallGetChannel, Goto
<1>3. ASSUME NEW w \in Workers, GetConnection(w) PROVE LabelInv'
  <2>1. Head(connections) \in Hosts
    BY <1>3, ShelfTail DEF IInv, TypeOK, Exclusive, GetConnection
  <2>. QED
    BY <1>0, <1>3, <2>1 DEF GetConnection, Goto
<1>4. ASSUME NEW w \in Workers, GetChannelFromPool(w) PROVE LabelInv'
  <2>1. Head(channels) \in Chans /\ w # Owner
    BY <1>0, <1>4, ShelfTail DEF IInv, TypeOK, Exclusive, GetChannelFromPool
  <2>. QED
    BY <1>0, <1>4, <2>1 DEF GetChannelFromPool, Goto
<1>5. ASSUME NEW w \in Workers,
             WaitConnection(w) \/ VerifyHealthyConnection(w) \/ CloseTransient(w)
      PROVE  LabelInv'
  BY <1>0, <1>5 DEF WaitConnection, VerifyHealthyConnection, CloseTransient, Goto
<1>6. ASSUME NEW w \in Workers, NewChannelHost(w) PROVE LabelInv'
  BY <1>0, <1>6 DEF NewChannelHost, ReturnConnection, Goto
<1>7. ASSUME NEW w \in Workers, NewChannelHostFails(w) PROVE LabelInv'
  BY <1>0, <1>7 DEF NewChannelHostFails, ReturnConnection, Goto
<1>8. ASSUME NEW w \in Workers,
             ReturnChannel(w) \/ MakeChannel(w) \/ MakeChannelFails(w)
      PROVE  LabelInv'
  BY <1>0, <1>8 DEF ReturnChannel, MakeChannel, MakeChannelFails, Goto
<1>9. ASSUME NEW w \in Workers, PutChannel(w) PROVE LabelInv'
  BY <1>0, <1>9 DEF PutChannel, Goto
<1>10. CASE \/ InitChannel \/ InitConnectFails \/ Shutdown \/ FlushDone \/ CheckEmpty
            \/ ReadLen \/ Drain
  BY <1>0, <1>10 DEF InitChannel, InitConnectFails, Shutdown, FlushDone, CheckEmpty, ReadLen,
     Drain, Goto
<1>11. CASE Reset
  BY <1>0, <1>11 DEF Reset
<1>12. CASE InitConnect \/ FlushChannel \/ (\E h \in Hosts : ConnectionLost(h)) \/ UNCHANGED vars
  BY <1>1, <1>12 DEF InitConnect, FlushChannel, ConnectionLost, vars
<1>. QED
  BY <1>2, <1>3, <1>4, <1>5, <1>6, <1>7, <1>8, <1>9, <1>10, <1>11, <1>12
     DEF Next, Receive, Step, Initialize, ShutdownStep

\* made counts up, and only for a dial or a cached channel.
LEMMA Grows ==
    ASSUME IInv, [Next]_vars
    PROVE  /\ made \in Nat /\ made' \in Nat /\ made <= made'
           /\ InitConnect \/ NewChannelHost(Owner) \/ made' = made
<1>1. made \in Nat
  BY Things DEF IInv, TypeOK
<1>2. CASE InitConnect
  BY <1>1, <1>2 DEF InitConnect
<1>3. CASE NewChannelHost(Owner)
  <2>1. made' = made + 1
    BY <1>3 DEF NewChannelHost
  <2>. QED
    BY <1>1, <1>3, <2>1
<1>4. CASE Quiet \/ FlushChannel \/ Drain \/ Reset
  BY <1>1, <1>4 DEF Quiet, FlushChannel, Drain, Reset
<1>5. ASSUME NEW w \in Workers,
             \/ GetConnection(w) \/ (NewChannelHost(w) /\ w # Owner)
             \/ NewChannelHostFails(w) \/ GetChannelFromPool(w) \/ PutChannel(w)
      PROVE  made' = made
  BY <1>5 DEF GetConnection, NewChannelHost, NewChannelHostFails, GetChannelFromPool, PutChannel
<1>. QED
  BY <1>1, <1>2, <1>3, <1>4, <1>5, Kinds

\* NewConnectionPool starts another cached channel only if there is one to make.
LEMMA BuildingStep == IInv /\ [Next]_vars => Building'
<1>. SUFFICES ASSUME IInv, [Next]_vars PROVE Building'
  OBVIOUS
<1>. DEFINE L == {"getconn", "waiting", "verify", "make"}
<1>0. /\ pc \in [Workers -> UserLabels \cup OwnerLabels] /\ LabelInv /\ Building /\ made \in Nat
      /\ Workers = Users \cup {Owner} /\ Owner \notin Users
  BY Things, UsersAssumption DEF IInv, TypeOK, Workers
<1>1. ASSUME made' = made, pc'[Owner] \in L => pc[Owner] \in L PROVE Building'
  BY <1>0, <1>1 DEF Building
<1>2. CASE InitConnect
  BY <1>2 DEF InitConnect, Building
<1>3. CASE InitChannel
  BY <1>0, <1>3, Things DEF InitChannel, Goto, Building
<1>4. CASE NewChannelHost(Owner)
  BY <1>0, <1>4, Things DEF NewChannelHost, Goto, Building
<1>5. ASSUME NEW u \in Users, Call(u) \/ NewChannelHost(u)
      PROVE  made' = made /\ (pc'[Owner] \in L => pc[Owner] \in L)
  BY <1>0, <1>5 DEF Call, GetTransientChannel, CallGetChannel, NewChannelHost, Goto
<1>6. ASSUME NEW w \in Workers,
             \/ GetConnection(w) \/ GetChannelFromPool(w) \/ WaitConnection(w)
             \/ VerifyHealthyConnection(w) \/ NewChannelHostFails(w) \/ CloseTransient(w)
             \/ ReturnChannel(w) \/ MakeChannel(w) \/ MakeChannelFails(w) \/ PutChannel(w)
      PROVE  made' = made /\ (pc'[Owner] \in L => pc[Owner] \in L)
  BY <1>0, <1>6, Things DEF LabelInv, OwnerLabels, Goto, GetConnection,
     GetChannelFromPool, WaitConnection, VerifyHealthyConnection, NewChannelHostFails,
     CloseTransient, ReturnChannel, MakeChannel, MakeChannelFails, PutChannel
<1>7. ASSUME \/ InitConnectFails \/ Shutdown \/ FlushDone \/ CheckEmpty \/ ReadLen \/ Drain
             \/ Reset
      PROVE  made' = made /\ (pc'[Owner] \in L => pc[Owner] \in L)
  BY <1>0, <1>7, Things DEF InitConnectFails, Shutdown, FlushDone, CheckEmpty, ReadLen,
     Drain, Reset, Goto
<1>8. ASSUME FlushChannel \/ (\E h \in Hosts : ConnectionLost(h)) \/ UNCHANGED vars
      PROVE  made' = made /\ (pc'[Owner] \in L => pc[Owner] \in L)
  BY <1>8 DEF FlushChannel, ConnectionLost, vars
<1>. HIDE DEF L
<1>. QED
  BY <1>0, <1>1, <1>2, <1>3, <1>4, <1>5, <1>6, <1>7, <1>8
     DEF Next, Receive, Step, Initialize, ShutdownStep

\* No host gets around before it is dialled.
LEMMA HostsStep == IInv /\ [Next]_vars => HostsMade'
<1>. DEFINE Nowhere(h) == h \notin Range(connections) /\ \A v \in Workers : held[v] # h
<1>. SUFFICES ASSUME IInv, [Next]_vars, NEW h \in Hosts, made' < h PROVE Nowhere(h)'
  BY DEF HostsMade
<1>0. /\ connections \in Seq(Hosts) /\ IsInjective(connections) /\ None # h
      /\ held \in [Workers -> Hosts \cup {None}] /\ h \in Nat
  BY Things DEF IInv, TypeOK, Exclusive
<1>1. Nowhere(h)
  BY <1>0, Grows DEF IInv, HostsMade
<1>2. CASE UNCHANGED <<connections, held>>
  BY <1>1, <1>2
<1>3. ASSUME NEW w \in Workers, GetConnection(w) PROVE Nowhere(h)'
  <2>1. Head(connections) \in Range(connections) /\ Range(Tail(connections)) \subseteq Range(connections)
    BY <1>0, <1>3, ShelfTail DEF GetConnection
  <2>. QED
    BY <1>0, <1>1, <1>3, <2>1 DEF GetConnection
<1>4. ASSUME NEW w \in Workers, NewChannelHost(w) \/ NewChannelHostFails(w) PROVE Nowhere(h)'
  <2>1. held[w] \in Hosts /\ held[w] \notin Range(connections)
    BY <1>0, <1>4 DEF NewChannelHost, NewChannelHostFails, IInv, Exclusive
  <2>2. Range(Append(connections, held[w])) = Range(connections) \cup {held[w]}
    BY <1>0, <2>1, ShelfAppend
  <2>. QED
    BY <1>0, <1>1, <1>4, <2>2 DEF NewChannelHost, NewChannelHostFails, ReturnConnection
<1>5. CASE InitConnect
  <2>1. Range(Append(connections, made + 1)) = Range(connections) \cup {made + 1}
    BY <1>0, <1>5, NewHost, ShelfAppend
  <2>2. made + 1 # h
    BY <1>0, <1>5, Grows DEF InitConnect
  <2>. QED
    BY <1>1, <1>5, <2>1, <2>2 DEF InitConnect
<1>6. CASE Drain
  <2>1. PICK n \in 0 .. Len(connections) :
              connections' = SubSeq(connections, n + 1, Len(connections))
    BY <1>6, Drained
  <2>2. Range(connections') \subseteq Range(connections)
    BY <1>0, <2>1, ShelfSplit
  <2>. QED
    BY <1>1, <1>6, <2>2 DEF Drain
<1>7. CASE Reset
  <2>1. connections' = <<>> /\ Range(<<>>) = {} /\ held' = held
    BY <1>7 DEF Reset, Range
  <2>. QED
    BY <1>1, <2>1
<1>. QED
  BY <1>2, <1>3, <1>4, <1>5, <1>6, <1>7, ConnectionKinds

\* No channel gets around before it is made.
LEMMA ChansStep == IInv /\ [Next]_vars => ChansMade'
<1>. DEFINE Nowhere(c) == c \notin Range(channels) /\ \A v \in Workers : chan[v] # c
<1>. SUFFICES ASSUME IInv, [Next]_vars, NEW c \in Chans, made' < c + MaxConnectionCount
              PROVE  Nowhere(c)'
  BY DEF ChansMade
<1>0. /\ channels \in Seq(Chans) /\ IsInjective(channels) /\ None # c
      /\ chan \in [Workers -> Chans \cup {None}] /\ c \in Nat
  BY Things DEF IInv, TypeOK, Exclusive
<1>1. Nowhere(c)
  <2>1. made < c + MaxConnectionCount
    BY <1>0, Grows, Things
  <2>. QED
    BY <2>1 DEF IInv, ChansMade
<1>2. CASE UNCHANGED <<channels, chan>>
  BY <1>1, <1>2
<1>3. ASSUME NEW w \in Workers, GetChannelFromPool(w) PROVE Nowhere(c)'
  <2>1. Head(channels) \in Range(channels) /\ Range(Tail(channels)) \subseteq Range(channels)
    BY <1>0, <1>3, ShelfTail DEF GetChannelFromPool
  <2>. QED
    BY <1>0, <1>1, <1>3, <2>1 DEF GetChannelFromPool
<1>4. ASSUME NEW w \in Workers, PutChannel(w) PROVE Nowhere(c)'
  <2>1. chan[w] \in Chans /\ chan[w] \notin Range(channels)
    BY <1>0, <1>4 DEF PutChannel, IInv, LabelInv, Exclusive
  <2>2. Range(Append(channels, chan[w])) = Range(channels) \cup {chan[w]}
    BY <1>0, <2>1, ShelfAppend
  <2>. QED
    BY <1>0, <1>1, <1>4, <2>2 DEF PutChannel
<1>5. CASE NewChannelHost(Owner)
  <2>1. PICK x \in Chans : /\ x = made + 1 - MaxConnectionCount /\ x \notin Range(channels)
                           /\ channels' = Append(channels, x) /\ chan' = chan
    BY <1>5, NewChannel
  <2>2. Range(channels') = Range(channels) \cup {x}
    BY <1>0, <2>1, ShelfAppend
  <2>3. c # x
    <3>1. made' = made + 1
      BY <1>5 DEF NewChannelHost
    <3>. QED
      BY <1>0, <2>1, <3>1, Grows, Things
  <2>. QED
    BY <1>1, <2>1, <2>2, <2>3
<1>6. CASE FlushChannel
  <2>1. Range(Tail(channels)) \subseteq Range(channels)
    BY <1>0, <1>6, ShelfTail DEF FlushChannel
  <2>. QED
    BY <1>1, <1>6, <2>1 DEF FlushChannel
<1>. QED
  BY <1>2, <1>3, <1>4, <1>5, <1>6, ChannelKinds

\* Types: made stays within the two counts, and the length of the queue that
\* Shutdown reads is at most the number of hosts.
LEMMA TypeStep == IInv /\ [Next]_vars => TypeOK'
<1>. SUFFICES ASSUME IInv, [Next]_vars PROVE TypeOK'
  OBVIOUS
<1>. USE Things
<1>0. TypeOK /\ Owner \in Workers
  BY DEF IInv
<1>1. CASE UNCHANGED vars
  BY <1>0, <1>1 DEF TypeOK, vars, net, hosts, cache
<1>2. ASSUME NEW u \in Users, Call(u) PROVE TypeOK'
  BY <1>0, <1>2 DEF Call, GetTransientChannel, CallGetChannel, Goto, TypeOK, net, hosts, cache,
     UserLabels
<1>3. ASSUME NEW w \in Workers, GetConnection(w) PROVE TypeOK'
  <2>1. Head(connections) \in Hosts /\ Tail(connections) \in Seq(Hosts)
    BY <1>0, <1>3, HeadTailProperties DEF TypeOK, GetConnection
  <2>. QED
    BY <1>0, <1>3, <2>1 DEF GetConnection, Goto, TypeOK, net, hosts, cache, UserLabels
<1>4. ASSUME NEW w \in Workers, GetChannelFromPool(w) PROVE TypeOK'
  <2>1. Head(channels) \in Chans /\ Tail(channels) \in Seq(Chans)
    BY <1>0, <1>4, HeadTailProperties DEF TypeOK, GetChannelFromPool
  <2>. QED
    BY <1>0, <1>4, <2>1 DEF GetChannelFromPool, Goto, TypeOK, net, hosts, cache, UserLabels
<1>5. ASSUME NEW w \in Workers, WaitConnection(w) \/ CloseTransient(w) \/ ReturnChannel(w)
      PROVE  TypeOK'
  BY <1>0, <1>5 DEF WaitConnection, CloseTransient, ReturnChannel, Goto, TypeOK, net, hosts,
     cache, UserLabels
<1>6. ASSUME NEW w \in Workers, VerifyHealthyConnection(w) PROVE TypeOK'
  BY <1>0, <1>6 DEF VerifyHealthyConnection, Goto, TypeOK, net, hosts, cache, UserLabels
<1>7. ASSUME NEW w \in Workers, NewChannelHost(w) PROVE TypeOK'
  <2>1. held[w] \in Hosts /\ Append(connections, held[w]) \in Seq(Hosts)
    BY <1>0, <1>7, AppendProperties DEF NewChannelHost, TypeOK
  <2>2. /\ connections' \in Seq(Hosts) /\ held' \in [Workers -> Hosts \cup {None}]
        /\ flagged' \in [Hosts -> BOOLEAN]
    BY <1>0, <1>7, <2>1 DEF NewChannelHost, ReturnConnection, TypeOK
  <2>3. /\ UNCHANGED <<losses, refusals, up, chan, want>>
        /\ pc' \in [Workers -> UserLabels \cup OwnerLabels]
    BY <1>0, <1>7 DEF NewChannelHost, TypeOK, Goto, net, UserLabels, OwnerLabels
  <2>4. /\ channels' \in Seq(Chans) /\ hostOf' \in [Chans -> Hosts \cup {None}]
        /\ chanUp' \in [Chans -> BOOLEAN]
        /\ made' \in 0 .. (MaxConnectionCount + MaxCacheChannelCount)
    <3>1. CASE w # Owner
      BY <1>0, <1>7, <3>1 DEF NewChannelHost, TypeOK, cache
    <3>2. CASE w = Owner
      <4>1. PICK x \in Chans : x = made + 1 - MaxConnectionCount
        BY <1>7, <3>2, NewChannel
      <4>2. /\ channels' = Append(channels, x) /\ hostOf' = [hostOf EXCEPT ![x] = held[w]]
            /\ chanUp' = [chanUp EXCEPT ![x] = TRUE] /\ made' = made + 1
        BY <1>7, <3>2, <4>1 DEF NewChannelHost
      <4>3. made \in Nat /\ made < MaxConnectionCount + MaxCacheChannelCount
        BY <1>7, <3>2, Grows DEF IInv, Building, NewChannelHost
      <4>4. channels' \in Seq(Chans)
        BY <1>0, <4>2, AppendProperties DEF TypeOK
      <4>5. made' \in 0 .. (MaxConnectionCount + MaxCacheChannelCount)
        BY <4>2, <4>3
      <4>. QED
        BY <1>0, <2>1, <4>2, <4>4, <4>5 DEF TypeOK
    <3>. QED
      BY <3>1, <3>2
  <2>. QED
    BY <1>0, <2>2, <2>3, <2>4 DEF TypeOK
<1>8. ASSUME NEW w \in Workers, NewChannelHostFails(w) PROVE TypeOK'
  <2>1. held[w] \in Hosts /\ Append(connections, held[w]) \in Seq(Hosts)
    BY <1>0, <1>8, AppendProperties DEF NewChannelHostFails, TypeOK
  <2>2. refusals' \in 0 .. MaxRefusals
    BY <1>0, <1>8, CountsAssumption DEF NewChannelHostFails, Refused, TypeOK
  <2>. QED
    BY <1>0, <1>8, <2>1, <2>2 DEF NewChannelHostFails, ReturnConnection, Goto, TypeOK, hosts,
       cache, UserLabels
<1>9. ASSUME NEW w \in Workers, MakeChannel(w) PROVE TypeOK'
  BY <1>0, <1>9 DEF MakeChannel, Goto, TypeOK, net, hosts, cache, UserLabels
<1>10. ASSUME NEW w \in Workers, MakeChannelFails(w) PROVE TypeOK'
  <2>2. refusals' \in 0 .. MaxRefusals
    BY <1>0, <1>10, CountsAssumption DEF MakeChannelFails, Refused, TypeOK
  <2>. QED
    BY <1>0, <1>10, <2>2 DEF MakeChannelFails, Goto, TypeOK, hosts, cache, UserLabels
<1>11. ASSUME NEW w \in Workers, PutChannel(w) PROVE TypeOK'
  <2>1. chan[w] \in Chans
    BY <1>0, <1>11 DEF PutChannel, IInv, LabelInv, TypeOK
  <2>2. Append(channels, chan[w]) \in Seq(Chans)
    BY <1>0, <2>1, AppendProperties DEF TypeOK
  <2>. QED
    BY <1>0, <1>11, <2>2 DEF PutChannel, Goto, TypeOK, net, hosts, cache, UserLabels
<1>12. CASE InitConnect
  <2>1. made + 1 \in Hosts /\ Append(connections, made + 1) \in Seq(Hosts)
    BY <1>0, <1>12, NewHost, AppendProperties DEF TypeOK
  <2>2. made' \in 0 .. (MaxConnectionCount + MaxCacheChannelCount)
    BY <1>0, <1>12 DEF TypeOK, InitConnect
  <2>. QED
    BY <1>0, <1>12, <2>1, <2>2 DEF InitConnect, TypeOK, net, hosts, cache
<1>13. CASE InitChannel \/ InitConnectFails \/ Shutdown \/ FlushDone \/ CheckEmpty
  BY <1>0, <1>13 DEF InitChannel, InitConnectFails, Shutdown, FlushDone, CheckEmpty, Goto,
     TypeOK, net, hosts, cache, OwnerLabels
<1>14. CASE FlushChannel
  <2>1. Tail(channels) \in Seq(Chans)
    BY <1>0, <1>14, HeadTailProperties DEF TypeOK, FlushChannel
  <2>. QED
    BY <1>0, <1>14, <2>1 DEF FlushChannel, TypeOK, net, hosts
<1>15. CASE ReadLen
  <2>1. Range(connections) \subseteq Hosts /\ Len(connections) \in Nat
    BY <1>0, LenProperties DEF TypeOK, Range
  <2>2. Len(connections) <= MaxConnectionCount
    <3>1. PICK n \in Nat : n = MaxConnectionCount
      OBVIOUS
    <3>2. IsInjective(connections) /\ connections \in Seq(1 .. n) /\ Range(connections) \subseteq 1 .. n
      BY <1>0, <2>1, <3>1 DEF IInv, Exclusive, TypeOK, Hosts
    <3>. QED
      BY <3>1, <3>2, ShelfBound
  <2>3. want' \in 0 .. MaxConnectionCount
    BY <1>15, <2>1, <2>2 DEF ReadLen
  <2>. QED
    BY <1>0, <1>15, <2>3 DEF ReadLen, Goto, TypeOK, net, hosts, cache, OwnerLabels
<1>16. CASE Drain
  <2>3. PICK n \in 0 .. Len(connections) :
              connections' = SubSeq(connections, n + 1, Len(connections))
    BY <1>16, Drained
  <2>1. connections' \in Seq(Hosts)
    BY <1>0, <2>3, ShelfSplit DEF TypeOK, IInv, Exclusive
  <2>2. /\ up' \in [Hosts -> BOOLEAN] /\ chanUp' \in [Chans -> BOOLEAN]
        /\ want' \in 0 .. MaxConnectionCount
    BY <1>16 DEF Drain
  <2>. QED
    BY <1>0, <1>16, <2>1, <2>2 DEF Drain, Goto, TypeOK, net, OwnerLabels
<1>17. CASE Reset
  <2>1. <<>> \in Seq(Hosts)
    BY EmptySeq
  <2>2. pc' \in [Workers -> UserLabels \cup OwnerLabels]
    BY <1>0, <1>17 DEF Reset, TypeOK, UserLabels, OwnerLabels
  <2>. QED
    BY <1>0, <1>17, <2>1, <2>2 DEF Reset, TypeOK, net, cache
<1>18. ASSUME NEW h \in Hosts, ConnectionLost(h) PROVE TypeOK'
  <2>1. losses' \in 0 .. MaxLosses
    BY <1>0, <1>18, CountsAssumption DEF ConnectionLost, TypeOK
  <2>2. chanUp' \in [Chans -> BOOLEAN] /\ up' \in [Hosts -> BOOLEAN]
    BY <1>0, <1>18 DEF ConnectionLost, TypeOK
  <2>. QED
    BY <1>0, <1>18, <2>1, <2>2 DEF ConnectionLost, TypeOK
<1>. QED
  BY <1>1, <1>2, <1>3, <1>4, <1>5, <1>6, <1>7, <1>8, <1>9, <1>10, <1>11, <1>12, <1>13, <1>14,
     <1>15, <1>16, <1>17, <1>18 DEF Next, Receive, Step, Initialize, ShutdownStep

\* IInv is an invariant of the pool.
THEOREM Invariance == Spec => []IInv
<1>1. IInv /\ [Next]_vars => IInv'
  BY TypeStep, LabelStep, BuildingStep, HostsStep, ChansStep, ChannelsStep, ConnectionsStep
     DEF IInv
<1>. QED
  BY <1>1, InitHolds, PTL DEF Spec, Safety

\* The pool's state has its types in every behaviour; the length Shutdown reads
\* is never more than MaxConnectionCount.
THEOREM TypeCorrect == Spec => []TypeOK
BY Invariance, PTL DEF IInv

\* No channel and no host is in two hands, in a hand and on the shelf, or twice
\* on the shelf: whatever is lost, refused or shut down, GetChannelFromPool and
\* connections.Get never give two goroutines the same thing.
THEOREM LoansAreExclusive == Spec => []ExclusiveLoans
<1>1. IInv => ExclusiveLoans
  BY DEF IInv, Exclusive, ExclusiveLoans
<1>. QED
  BY <1>1, Invariance, PTL

\* The send at the end of ReturnChannel always finds room in cp.channels: the
\* sender's own channel is one of MaxCacheChannelCount and is not in the cache.
THEOREM ReturnNeverBlocks == Spec => []PutNeverBlocks
<1>1. IInv => PutNeverBlocks
  <2>. SUFFICES ASSUME IInv, NEW u \in Users, pc[u] = "put"
                PROVE  Len(channels) < MaxCacheChannelCount
    BY DEF PutNeverBlocks
  <2>1. PICK n \in Nat : n = MaxCacheChannelCount
    BY Things
  <2>2. /\ channels \in Seq(1 .. n) /\ IsInjective(channels) /\ u \in Workers
        /\ chan[u] \in 1 .. n /\ chan[u] \notin Range(channels)
    BY <2>1 DEF IInv, TypeOK, LabelInv, Exclusive, Chans, Workers
  <2>3. PICK x \in 1 .. n : x = chan[u]
    BY <2>2
  <2>4. Range(channels) \subseteq (1 .. n) \ {x}
    BY <2>2, <2>3, LenProperties DEF Range
  <2>5. /\ Cardinality(1 .. n) = n /\ Len(channels) <= Cardinality((1 .. n) \ {x})
        /\ Len(channels) \in Nat
    BY <2>2, <2>4, ShelfBound, LenProperties
  <2>6. IsFiniteSet(1 .. n)
    BY FS_Interval
  <2>7. Cardinality((1 .. n) \ {x}) = n - 1
    BY <2>5, <2>6, FS_RemoveElement
  <2>. QED
    BY <2>1, <2>5, <2>7
<1>. QED
  BY <1>1, Invariance, PTL

-----------------------------------------------------------------------------
(* The cache and the queue implement Loans                                 *)

\* Where everything is: the variable of Loans, for the cache and for the queue.
ChannelPlaces == [c \in Chans |-> Place(channels, chan, c)]

HostPlaces == [h \in Hosts |-> Place(connections, held, h)]

\* Every step of the pool is, for the cached channels, a step of Loans or none.
LEMMA ChannelsRefine ==
    ASSUME IInv, [Next]_vars
    PROVE  ChannelLoans!Next \/ ChannelPlaces' = ChannelPlaces
<1>1. /\ None \notin Chans /\ channels \in Seq(Chans)
      /\ chan \in [Workers -> Chans \cup {None}] /\ Exclusive(channels, chan)
  BY Things DEF IInv, TypeOK
<1>2. ChannelPlaces' = [c \in Chans |-> Place(channels', chan', c)]
  BY DEF ChannelPlaces, Place, Holders
<1>3. CASE UNCHANGED <<channels, chan>>
  BY <1>2, <1>3 DEF ChannelPlaces
<1>4. ASSUME NEW w \in Workers, GetChannelFromPool(w) PROVE ChannelLoans!Next
  <2>1. chan[w] = None
    BY <1>4 DEF IInv, LabelInv, GetChannelFromPool
  <2>2. /\ channels # <<>> /\ channels' = Tail(channels)
        /\ chan' = [chan EXCEPT ![w] = Head(channels)]
    BY <1>4 DEF GetChannelFromPool
  <2>3. Moves(Chans, channels, chan, channels', chan', Head(channels), "shelf", w)
    BY <1>1, <2>1, <2>2, LendMove
  <2>4. PICK x \in Chans : ChannelLoans!Lend(x, w)
    BY <1>2, <2>3 DEF Moves, ChannelLoans!Lend, ChannelLoans!Move, ChannelPlaces
  <2>. QED
    BY <2>4 DEF ChannelLoans!Next
<1>5. ASSUME NEW w \in Workers, PutChannel(w) PROVE ChannelLoans!Next
  <2>1. chan[w] # None
    BY <1>5 DEF IInv, LabelInv, PutChannel
  <2>2. channels' = Append(channels, chan[w]) /\ chan' = [chan EXCEPT ![w] = None]
    BY <1>5 DEF PutChannel
  <2>3. Moves(Chans, channels, chan, channels', chan', chan[w], w, "shelf")
    BY <1>1, <2>1, <2>2, GiveBackMove
  <2>4. PICK x \in Chans : ChannelLoans!GiveBack(x, w)
    BY <1>2, <2>3 DEF Moves, ChannelLoans!GiveBack, ChannelLoans!Move, ChannelPlaces
  <2>. QED
    BY <2>4 DEF ChannelLoans!Next
<1>6. CASE NewChannelHost(Owner)
  <2>1. PICK x \in Chans : /\ x \notin Range(channels) /\ \A w \in Workers : chan[w] # x
                           /\ channels' = Append(channels, x) /\ chan' = chan
    BY <1>6, NewChannel
  <2>2. /\ Place(channels, chan, x) = "outside"
        /\ \A c \in Chans : Place(channels', chan', c) = IF c = x THEN "shelf" ELSE Place(channels, chan, c)
    BY <1>1, <2>1, StockMove
  <2>3. ChannelLoans!Stock(x)
    BY <1>2, <2>2 DEF ChannelLoans!Stock, ChannelLoans!Move, ChannelPlaces
  <2>. QED
    BY <2>3 DEF ChannelLoans!Next
<1>7. CASE FlushChannel
  <2>1. /\ IsInjective(Tail(channels)) /\ Head(channels) \in Range(channels)
        /\ Range(Tail(channels)) = Range(channels) \ {Head(channels)}
    BY <1>1, <1>7, ShelfTail DEF FlushChannel, Exclusive
  <2>2. PICK S \in SUBSET Range(channels) :
              IsInjective(channels') /\ Range(channels') = Range(channels) \ S
    BY <1>7, <2>1 DEF FlushChannel
  <2>3. /\ S \in SUBSET Chans /\ \A c \in S : Place(channels, chan, c) = "shelf"
        /\ \A c \in Chans : Place(channels', chan, c) = IF c \in S THEN "outside" ELSE Place(channels, chan, c)
    BY <1>1, <2>2, RetireMove
  <2>4. chan' = chan
    BY <1>7 DEF FlushChannel
  <2>5. ChannelLoans!Retire(S)
    BY <1>2, <2>3, <2>4 DEF ChannelLoans!Retire, ChannelPlaces
  <2>. QED
    BY <2>3, <2>5 DEF ChannelLoans!Next
<1>. QED
  BY <1>3, <1>4, <1>5, <1>6, <1>7, ChannelKinds

\* Every step of the pool is, for the hosts, a step of Loans or none.
LEMMA HostsRefine ==
    ASSUME IInv, [Next]_vars
    PROVE  ConnectionLoans!Next \/ HostPlaces' = HostPlaces
<1>1. /\ None \notin Hosts /\ connections \in Seq(Hosts)
      /\ held \in [Workers -> Hosts \cup {None}] /\ Exclusive(connections, held)
  BY Things DEF IInv, TypeOK
<1>2. HostPlaces' = [h \in Hosts |-> Place(connections', held', h)]
  BY DEF HostPlaces, Place, Holders
<1>3. CASE UNCHANGED <<connections, held>>
  BY <1>2, <1>3 DEF HostPlaces
<1>4. ASSUME NEW w \in Workers, GetConnection(w) PROVE ConnectionLoans!Next
  <2>1. held[w] = None
    BY <1>4 DEF IInv, LabelInv, GetConnection
  <2>2. /\ connections # <<>> /\ connections' = Tail(connections)
        /\ held' = [held EXCEPT ![w] = Head(connections)]
    BY <1>4 DEF GetConnection
  <2>3. Moves(Hosts, connections, held, connections', held', Head(connections), "shelf", w)
    BY <1>1, <2>1, <2>2, LendMove
  <2>4. PICK x \in Hosts : ConnectionLoans!Lend(x, w)
    BY <1>2, <2>3 DEF Moves, ConnectionLoans!Lend, ConnectionLoans!Move, HostPlaces
  <2>. QED
    BY <2>4 DEF ConnectionLoans!Next
<1>5. ASSUME NEW w \in Workers, NewChannelHost(w) \/ NewChannelHostFails(w)
      PROVE  ConnectionLoans!Next
  <2>1. /\ held[w] # None /\ connections' = Append(connections, held[w])
        /\ held' = [held EXCEPT ![w] = None]
    BY <1>5 DEF NewChannelHost, NewChannelHostFails, ReturnConnection
  <2>2. connections' = Append(connections, held[w]) /\ held' = [held EXCEPT ![w] = None]
    BY <2>1
  <2>3. Moves(Hosts, connections, held, connections', held', held[w], w, "shelf")
    BY <1>1, <2>1, <2>2, GiveBackMove
  <2>4. PICK x \in Hosts : ConnectionLoans!GiveBack(x, w)
    BY <1>2, <2>3 DEF Moves, ConnectionLoans!GiveBack, ConnectionLoans!Move, HostPlaces
  <2>. QED
    BY <2>4 DEF ConnectionLoans!Next
<1>6. CASE InitConnect
  <2>1. PICK x \in Hosts : /\ x \notin Range(connections) /\ \A w \in Workers : held[w] # x
                           /\ connections' = Append(connections, x) /\ held' = held
    BY <1>6, NewHost DEF InitConnect
  <2>2. /\ Place(connections, held, x) = "outside"
        /\ \A h \in Hosts : Place(connections', held', h) = IF h = x THEN "shelf" ELSE Place(connections, held, h)
    BY <1>1, <2>1, StockMove
  <2>3. ConnectionLoans!Stock(x)
    BY <1>2, <2>2 DEF ConnectionLoans!Stock, ConnectionLoans!Move, HostPlaces
  <2>. QED
    BY <2>3 DEF ConnectionLoans!Next
<1>7. CASE Drain \/ Reset
  <2>1. PICK S \in SUBSET Range(connections) :
              IsInjective(connections') /\ Range(connections') = Range(connections) \ S
    <3>1. CASE Drain
      <4>1. PICK n \in 0 .. Len(connections) :
                  connections' = SubSeq(connections, n + 1, Len(connections))
        BY <3>1, Drained
      <4>. QED
        BY <1>1, <4>1, ShelfSplit DEF Exclusive
    <3>2. CASE Reset
      <4>1. connections' = <<>> /\ Range(<<>>) = {} /\ IsInjective(<<>>)
        BY <3>2 DEF Reset, Range, IsInjective
      <4>. QED
        BY <4>1
    <3>. QED
      BY <1>7, <3>1, <3>2
  <2>3. /\ S \in SUBSET Hosts /\ \A h \in S : Place(connections, held, h) = "shelf"
        /\ \A h \in Hosts : Place(connections', held, h) = IF h \in S THEN "outside" ELSE Place(connections, held, h)
    BY <1>1, <2>1, RetireMove
  <2>4. held' = held
    BY <1>7 DEF Drain, Reset
  <2>5. ConnectionLoans!Retire(S)
    BY <1>2, <2>3, <2>4 DEF ConnectionLoans!Retire, HostPlaces
  <2>. QED
    BY <2>3, <2>5 DEF ConnectionLoans!Next
<1>. QED
  BY <1>3, <1>4, <1>5, <1>6, <1>7, ConnectionKinds

\* The channel cache implements Loans: a cached channel is lent to one
\* goroutine at a time, and ReturnChannel, on every path through
\* reconnectChannel, puts it back; only Shutdown takes one away.
THEOREM ChannelsAreLent == Spec => ChannelsLent
<1>1. Init => ChannelLoans!Init
  <2>. SUFFICES ASSUME Init PROVE ChannelLoans!Init
    OBVIOUS
  <2>1. channels = <<>> /\ Range(<<>>) = {} /\ \A w \in Workers : chan[w] = None
    BY DEF Init, Range
  <2>2. \A c \in Chans : Place(channels, chan, c) = "outside"
    BY <2>1, Things DEF Place, Holders
  <2>. QED
    BY <2>2 DEF ChannelLoans!Init
<1>2. IInv /\ [Next]_vars => [ChannelLoans!Next]_([c \in Chans |-> Place(channels, chan, c)])
  BY ChannelsRefine DEF ChannelPlaces
<1>. QED
  BY <1>1, <1>2, Invariance, PTL DEF Spec, Safety, ChannelsLent, ChannelLoans!Spec

\* The connection queue implements Loans: GetConnection takes a host out of the
\* queue for one goroutine, and createCacheChannel returns it whether or not a
\* channel could be made; only Shutdown takes hosts away.
THEOREM ConnectionsAreLent == Spec => ConnectionsLent
<1>1. Init => ConnectionLoans!Init
  <2>. SUFFICES ASSUME Init PROVE ConnectionLoans!Init
    OBVIOUS
  <2>1. connections = <<>> /\ Range(<<>>) = {} /\ \A w \in Workers : held[w] = None
    BY DEF Init, Range
  <2>2. \A h \in Hosts : Place(connections, held, h) = "outside"
    BY <2>1, Things DEF Place, Holders
  <2>. QED
    BY <2>2 DEF ConnectionLoans!Init
<1>2. IInv /\ [Next]_vars => [ConnectionLoans!Next]_([h \in Hosts |-> Place(connections, held, h)])
  BY HostsRefine DEF HostPlaces
<1>. QED
  BY <1>1, <1>2, Invariance, PTL DEF Spec, Safety, ConnectionsLent, ConnectionLoans!Spec
=============================================================================
