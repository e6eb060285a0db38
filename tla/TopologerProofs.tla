--------------------------- MODULE TopologerProofs ---------------------------
(***************************************************************************)
(* Proofs about Topologer, for any topology, any settings and any number   *)
(* of builders, faults and other calls.                                    *)
(***************************************************************************)
EXTENDS Topologer, TLAPS

\* The inductive invariant.
IInv == TypeOK /\ PrefixDeclared

\* The plan is a sequence of entities.
LEMMA PlanType == Plan \in Seq(Entities)
<1>1. Exchanges \in Seq(Entities) /\ Queues \in Seq(Entities)
  BY PlanAssumption DEF Entities
<1>2. QueueBindings \in Seq(Entities) /\ ExchangeBindings \in Seq(Entities)
  BY PlanAssumption DEF Entities
<1>. QED
  BY <1>1, <1>2 DEF Plan

\* Rewriting the settings twice is rewriting them once, and yields settings.
LEMMA OverriddenSettings ==
    ASSUME NEW s \in Settings
    PROVE  /\ Overridden(s) \in Settings
           /\ Overridden(Overridden(s)).noWait = Overridden(s).noWait
  BY DEF Overridden, Settings, Tables

\* A request that returns no error has been applied, unless nobody waits.
LEMMA SilentRequest ==
    ASSUME NEW e, NEW s \in Settings, NEW built, Request(e, s, built, FALSE), ~s.noWait
    PROVE  topology' = topology \cup {e}
  BY DEF Request, Reported, Settings

\* No request takes anything away.
LEMMA RequestKeeps ==
    ASSUME NEW e, NEW s, NEW built, NEW err, Request(e, s, built, err)
    PROVE  topology \subseteq topology'
  BY DEF Request

\* What the broker deletes was there, and every builder's history has it.
LEMMA DeletedKeeps ==
    ASSUME TypeOK, NEW S, Deleted(S)
    PROVE  /\ topology' \subseteq topology
           /\ \A b \in Builders : topology \cup gone[b] \subseteq topology' \cup gone'[b]
           /\ \A n \in Names \cap topology' : made'[n] = made[n]
           /\ old' \subseteq old
<1>. DEFINE lost == Closure(S)
<1>1. lost \subseteq topology
  BY DEF Closure
<1>2. /\ topology' = topology \ lost
      /\ made' = [n \in Names |-> IF n \in lost THEN Undeclared ELSE made[n]]
      /\ gone' = [b \in Builders |-> gone[b] \cup lost]
      /\ old' = old \ lost
  BY DEF Deleted
<1>. HIDE DEF lost
<1>. QED
  BY <1>1, <1>2

\* The invariant holds before the first call.
LEMMA InitInv == Init => IInv
<1>. SUFFICES ASSUME Init PROVE IInv
  OBVIOUS
<1>1. Len(Plan) \in Nat /\ Len(Queues) \in Nat
  BY PlanType, PlanAssumption
<1>2. TypeOK
  <2>1. conf \in [Entities -> Settings]
    BY ScenariosAssumption DEF Init
  <2>2. purgeAt \in 1 .. Len(Queues) + 1 /\ at \in [Builders -> 1 .. Len(Plan) + 1]
    BY <1>1 DEF Init
  <2>3. /\ made \in [Names -> Declarations]
        /\ build \in [Builders -> Calls] /\ ignore \in [Builders -> BOOLEAN]
        /\ gone \in [Builders -> SUBSET Entities]
    BY DEF Init, Calls, Undeclared, Declarations, Tables
  <2>4. builds \in Nat /\ faults \in 0 .. MaxFaults /\ ops \in Nat
    BY BoundsAssumption, ScenariosAssumption DEF Init
  <2>5. /\ topology \subseteq Entities /\ messages \subseteq topology \cap Range(Queues)
        /\ unacked \subseteq topology \cap Range(Queues)
        /\ old \subseteq messages /\ purge \in Calls /\ purgeNoWait \in BOOLEAN
    BY DEF Init, Calls
  <2>. QED
    BY <2>1, <2>2, <2>3, <2>4, <2>5 DEF TypeOK
<1>. QED
  BY <1>1, <1>2 DEF Init, IInv, PrefixDeclared

\* Losing a connection leaves declarations.
LEMMA OrphanedType ==
    ASSUME NEW m \in [Names -> Declarations], NEW c
    PROVE  /\ Orphaned(m, c) \in [Names -> Declarations]
           /\ \A n \in Names : /\ Orphaned(m, c)[n].args = m[n].args
                               /\ Orphaned(m, c)[n].built = m[n].built
                               /\ Orphaned(m, c)[n].durable = m[n].durable
                               /\ Orphaned(m, c)[n].autoDelete = m[n].autoDelete
                               /\ c # Nobody /\ m[n].owner = Nobody
                                    => Orphaned(m, c)[n].owner = Nobody
<1>1. ASSUME NEW n \in Names
      PROVE  /\ m[n] \in Declarations /\ [m[n] EXCEPT !.owner = Dead] \in Declarations
             /\ Orphaned(m, c)[n] \in {m[n], [m[n] EXCEPT !.owner = Dead]}
             /\ m[n].owner # c => Orphaned(m, c)[n] = m[n]
  BY DEF Orphaned, Declarations
<1>2. Orphaned(m, c) \in [Names -> Declarations]
  BY <1>1 DEF Orphaned
<1>3. ASSUME NEW d \in Declarations
      PROVE  LET o == [d EXCEPT !.owner = Dead]
             IN  /\ o.args = d.args /\ o.built = d.built
                 /\ o.durable = d.durable /\ o.autoDelete = d.autoDelete
  BY DEF Declarations
<1>. QED
  BY <1>1, <1>2, <1>3

\* What a declaration records.
LEMMA DeclaredType ==
    ASSUME NEW s \in Settings, NEW built \in BOOLEAN, NEW c \in Conns
    PROVE  Declared(s, built, c) \in Declarations
  BY DEF Declared, Settings, Declarations

\* A request adds at most its element to the broker, with its declaration, and
\* may lose a connection.
LEMMA RequestEffect ==
    ASSUME TypeOK, NEW e \in Entities, NEW s \in Settings, NEW built \in BOOLEAN,
           NEW err, Request(e, s, built, err)
    PROVE  /\ topology' \in {topology, topology \cup {e}}
           /\ faults' \in 0 .. MaxFaults
           /\ \E c \in Conns, after \in [Names -> Declarations] :
                /\ made' \in {after, Orphaned(after, c)}
                /\ \/ after = made /\ Names \cap topology' = Names \cap topology
                   \/ e \in Names \ topology /\ after = [made EXCEPT ![e] = Declared(s, built, c)]
<1>1. faults' \in 0 .. MaxFaults
  BY BoundsAssumption DEF Request, TypeOK
<1>2. PICK c \in Conns, handled \in BOOLEAN :
        LET applied == handled /\ ~Refused(e, s, c)
            after == IF applied /\ e \in Names \ topology
                       THEN [made EXCEPT ![e] = Declared(s, built, c)] ELSE made
        IN  /\ topology' = IF applied THEN topology \cup {e} ELSE topology
            /\ made' \in {after, Orphaned(after, c)}
  BY DEF Request
<1>. DEFINE applied == handled /\ ~Refused(e, s, c)
            after == IF applied /\ e \in Names \ topology
                       THEN [made EXCEPT ![e] = Declared(s, built, c)] ELSE made
<1>3. after \in [Names -> Declarations]
  BY DeclaredType DEF TypeOK
<1>4. \/ after = made /\ Names \cap topology' = Names \cap topology
      \/ e \in Names \ topology /\ after = [made EXCEPT ![e] = Declared(s, built, c)]
  BY <1>2
<1>5. made' \in {after, Orphaned(after, c)} /\ topology' \in {topology, topology \cup {e}}
  BY <1>2
<1>. HIDE DEF after
<1>. QED
  BY <1>1, <1>3, <1>4, <1>5

\* A request leaves a set of entities at the broker and counts its fault.
LEMMA RequestType ==
    ASSUME TypeOK, NEW e \in Entities, NEW s \in Settings, NEW built \in BOOLEAN,
           NEW err, Request(e, s, built, err)
    PROVE  /\ topology' \subseteq Entities
           /\ made' \in [Names -> Declarations]
           /\ faults' \in 0 .. MaxFaults
<1>1. topology' \in {topology, topology \cup {e}} /\ faults' \in 0 .. MaxFaults
  BY RequestEffect
<1>2. \E c \in Conns, after \in [Names -> Declarations] : made' \in {after, Orphaned(after, c)}
  BY RequestEffect
<1>3. made' \in [Names -> Declarations]
  <2>1. PICK c \in Conns, after \in [Names -> Declarations] : made' \in {after, Orphaned(after, c)}
    BY <1>2
  <2>2. Orphaned(after, c) \in [Names -> Declarations]
    BY OrphanedType
  <2>. QED
    BY ONLY <2>1, <2>2
<1>4. topology' \subseteq Entities
  BY <1>1 DEF TypeOK
<1>. QED
  BY <1>1, <1>3, <1>4

\* The operations of the Topologer are of a few kinds.
LEMMA Kinds ==
    ASSUME Next
    PROVE  \/ \E b \in Builders : BuildTopology(b) \/ BuildNext(b) \/ BuildReturns(b)
           \/ \E e \in Entities, s \in Settings : Create(e, s)
           \/ \E e \in Entities : \E n : Remove(e, n)
           \/ \E q \in Range(Queues) : Arrive(q) \/ Deliver(q) \/ Settle(q) \/ Expire(q)
           \/ \E c \in Conns : ConnectionLost(c)
           \/ BrokerRestart
           \/ PurgeQueues \/ PurgeQueue \/ PurgeReturns
<1>1. /\ Range(Exchanges) \subseteq Entities /\ Range(Queues) \subseteq Entities
      /\ Range(QueueBindings) \subseteq Entities /\ Range(ExchangeBindings) \subseteq Entities
      /\ OwnSettings \subseteq Settings
  BY ScenariosAssumption DEF Entities, Names, Bindings
<1>. QED
  BY <1>1 DEF Next, CreateExchange, CreateQueue, QueueBind, ExchangeBind, ExchangeDelete,
              QueueDelete, ExchangeUnbind, UnbindQueue

\* Every step keeps the types.
LEMMA TypeStep ==
    ASSUME TypeOK, [Next]_vars
    PROVE  TypeOK'
<1>0. Len(Plan) \in Nat /\ Len(Queues) \in Nat
  BY PlanType, PlanAssumption
<1>1. ASSUME NEW b \in Builders, BuildTopology(b)
      PROVE  TypeOK'
  BY <1>0, <1>1, BoundsAssumption DEF BuildTopology, TypeOK, Calls, brokerState, messageState, purgeState
<1>2. ASSUME NEW b \in Builders, BuildNext(b)
      PROVE  TypeOK'
  <2>. DEFINE e == Plan[at[b]]
  <2>1. at[b] \in 1 .. Len(Plan) /\ e \in Entities
    BY <1>2, PlanType DEF BuildNext, TypeOK
  <2>2. conf' \in [Entities -> Settings] /\ conf'[e] \in Settings
    BY <1>2, <2>1, OverriddenSettings DEF BuildNext, TypeOK
  <2>3. PICK err \in BOOLEAN :
           /\ Request(e, conf'[e], TRUE, err)
           /\ IF StopsOn(err, ignore[b])
                THEN build' = [build EXCEPT ![b] = "failed"] /\ at' = at
                ELSE at' = [at EXCEPT ![b] = @ + 1] /\ build' = build
    BY <1>2 DEF BuildNext
  <2>4. at' \in [Builders -> 1 .. Len(Plan) + 1]
    <3>1. at \in [Builders -> 1 .. Len(Plan) + 1]
      BY DEF TypeOK
    <3>2. at' = at \/ at' = [at EXCEPT ![b] = @ + 1]
      BY <2>3
    <3>. QED
      BY <1>0, <2>1, <3>1, <3>2
  <2>5. build' \in [Builders -> Calls]
    BY <2>3 DEF TypeOK, Calls
  <2>6. /\ topology' \subseteq Entities
        /\ made' \in [Names -> Declarations]
        /\ faults' \in 0 .. MaxFaults
    BY <2>1, <2>2, <2>3, RequestType
  <2>7. topology \subseteq topology'
    BY <2>3, RequestKeeps
  <2>8. UNCHANGED <<ignore, gone, messages, unacked, purge, purgeAt, purgeNoWait, old, builds, ops>>
    BY <1>2 DEF BuildNext, purgeState, messageState
  <2>. QED
    BY <2>2, <2>4, <2>5, <2>6, <2>7, <2>8 DEF TypeOK
<1>3. ASSUME NEW b \in Builders, BuildReturns(b)
      PROVE  TypeOK'
  BY <1>3 DEF BuildReturns, TypeOK, Calls, brokerState, messageState, purgeState
<1>4. ASSUME NEW e \in Entities, NEW s \in Settings, Create(e, s)
      PROVE  TypeOK'
  <2>1. PICK err \in BOOLEAN : Request(e, s, FALSE, err)
    BY <1>4 DEF Create
  <2>2. /\ topology' \subseteq Entities
        /\ made' \in [Names -> Declarations]
        /\ faults' \in 0 .. MaxFaults
    BY <2>1, RequestType
  <2>3. topology \subseteq topology'
    BY <2>1, RequestKeeps
  <2>4. ops' \in Nat
    BY <1>4, BoundsAssumption DEF Create, Operation, TypeOK
  <2>5. UNCHANGED <<conf, build, at, ignore, gone, messages, unacked, old, purge, purgeAt,
                    purgeNoWait, builds>>
    BY <1>4 DEF Create, builderState, purgeState, messageState
  <2>. QED
    BY <2>2, <2>3, <2>4, <2>5 DEF TypeOK
<1>5. ASSUME NEW S, Deleted(S),
             UNCHANGED <<conf, build, at, ignore, purge, purgeAt, purgeNoWait, builds>>,
             faults' \in 0 .. MaxFaults, ops' \in Nat
      PROVE  TypeOK'
  <2>1. PICK lost \in SUBSET topology :
          /\ topology' = topology \ lost
          /\ made' = [n \in Names |-> IF n \in lost THEN Undeclared ELSE made[n]]
          /\ gone' = [b \in Builders |-> gone[b] \cup lost]
          /\ messages' = messages \ lost /\ unacked' = unacked \ lost /\ old' = old \ lost
    <3>1. Closure(S) \in SUBSET topology
      BY DEF Closure
    <3>. QED
      BY <1>5, <3>1 DEF Deleted
  <2>2. Undeclared \in Declarations
    BY DEF Undeclared, Declarations, Tables
  <2>3. made' \in [Names -> Declarations] /\ gone' \in [Builders -> SUBSET Entities]
    BY <2>1, <2>2 DEF TypeOK
  <2>. QED
    BY <1>5, <2>1, <2>3 DEF TypeOK
<1>6. ASSUME NEW e, NEW n, Remove(e, n)
      PROVE  TypeOK'
  <2>1. ops' \in Nat /\ faults' \in 0 .. MaxFaults
    BY <1>6, BoundsAssumption DEF Remove, Operation, TypeOK
  <2>. QED
    BY <1>5, <1>6, <2>1 DEF Remove, builderState, purgeState
<1>7. ASSUME NEW q \in Range(Queues), Expire(q)
      PROVE  TypeOK'
  BY <1>5, <1>7 DEF Expire, builderState, purgeState, TypeOK
<1>8. CASE BrokerRestart
  <2>1. ops' \in Nat /\ faults' \in 0 .. MaxFaults
    BY <1>8, BoundsAssumption DEF BrokerRestart, TypeOK
  <2>. QED
    BY <1>5, <1>8, <2>1 DEF BrokerRestart, builderState, purgeState
<1>9. ASSUME NEW c \in Conns, ConnectionLost(c)
      PROVE  TypeOK'
  <2>1. made' \in [Names -> Declarations] /\ faults' \in 0 .. MaxFaults
    BY <1>9, OrphanedType, BoundsAssumption DEF ConnectionLost, TypeOK
  <2>. QED
    BY <1>9, <2>1 DEF ConnectionLost, TypeOK, builderState, messageState, purgeState
<1>10. ASSUME NEW q \in Range(Queues), Arrive(q) \/ Deliver(q) \/ Settle(q)
       PROVE  TypeOK'
  <2>1. /\ messages' \subseteq topology \cap Range(Queues) /\ old' \subseteq messages'
        /\ unacked' \subseteq topology \cap Range(Queues)
        /\ ops' \in Nat
    BY <1>10, BoundsAssumption DEF Arrive, Deliver, Settle, Operation, TypeOK
  <2>2. UNCHANGED <<conf, topology, made, build, at, ignore, gone, purge, purgeAt, purgeNoWait,
                    builds, faults>>
    BY <1>10 DEF Arrive, Deliver, Settle, brokerState, builderState, purgeState
  <2>. QED
    BY <2>1, <2>2 DEF TypeOK
<1>11. CASE PurgeQueues
  BY <1>0, <1>11, BoundsAssumption
     DEF PurgeQueues, Operation, TypeOK, Calls, brokerState, builderState
<1>12. CASE PurgeQueue
  <2>1. /\ made' = made \/ \E c \in Conns : made' = Orphaned(made, c)
        /\ faults' \in 0 .. MaxFaults
        /\ messages' \subseteq messages /\ old' \subseteq messages'
        /\ purge' \in Calls /\ purgeAt' \in 1 .. Len(Queues) + 1
    BY <1>0, <1>12, BoundsAssumption DEF PurgeQueue, StopsOn, TypeOK, Calls
  <2>2. made' \in [Names -> Declarations]
    BY <2>1, OrphanedType DEF TypeOK
  <2>3. UNCHANGED <<conf, topology, build, at, ignore, gone, unacked, purgeNoWait, builds, ops>>
    BY <1>12 DEF PurgeQueue, builderState
  <2>. QED
    BY <2>1, <2>2, <2>3 DEF TypeOK
<1>13. CASE PurgeReturns
  BY <1>13 DEF PurgeReturns, TypeOK, Calls, brokerState, builderState, messageState
<1>14. CASE UNCHANGED vars
  BY <1>14 DEF vars, TypeOK, brokerState, builderState, messageState, purgeState
<1>. QED
  BY <1>1, <1>2, <1>3, <1>4, <1>6, <1>7, <1>8, <1>9, <1>10, <1>11, <1>12, <1>13, <1>14, Kinds

\* The shared config, the broker and the calls keep their types.
THEOREM TypeCorrect == Spec => []TypeOK
<1>1. Init => TypeOK
  BY InitInv DEF IInv
<1>. QED
  BY <1>1, TypeStep, PTL DEF Spec

\* The elements passed stay accounted for when nothing is taken away unseen
\* and no element becomes awaited.
LEMMA PrefixKept ==
    ASSUME IInv,
           build' = build, at' = at, ignore' = ignore,
           \A e \in Entities : Awaited(e)' => Awaited(e),
           \A b \in Builders : topology \cup gone[b] \subseteq topology' \cup gone'[b]
    PROVE  PrefixDeclared'
<1>. SUFFICES ASSUME NEW b \in Builders, build[b] # "idle", ~ignore[b],
                     NEW k \in 1 .. at[b] - 1, Awaited(Plan[k])'
              PROVE  Plan[k] \in topology' \cup gone'[b]
  BY DEF PrefixDeclared, Awaited
<1>1. k \in 1 .. Len(Plan)
  BY PlanType DEF IInv, TypeOK
<1>2. Plan[k] \in Entities
  BY <1>1, PlanType
<1>. QED
  BY <1>2 DEF IInv, PrefixDeclared

\* One iteration of a builder: the element it passes without an error is at
\* the broker or not awaited, and the ones passed before stay accounted for.
LEMMA BuildNextStep ==
    ASSUME IInv, NEW b \in Builders, BuildNext(b)
    PROVE  IInv'
<1>. DEFINE e == Plan[at[b]]
<1>1. at[b] \in 1 .. Len(Plan) /\ e \in Entities /\ Len(Plan) \in Nat
  BY PlanType DEF BuildNext, IInv, TypeOK
<1>2. conf \in [Entities -> Settings] /\ conf[e] \in Settings
  BY <1>1 DEF IInv, TypeOK
<1>3. conf' = [conf EXCEPT ![e] = Overridden(conf[e])]
  BY DEF BuildNext
<1>4. conf' \in [Entities -> Settings] /\ conf'[e] = Overridden(conf[e])
  BY <1>1, <1>2, <1>3, OverriddenSettings
<1>5. PICK err \in BOOLEAN :
         /\ Request(e, conf'[e], TRUE, err)
         /\ IF StopsOn(err, ignore[b])
              THEN build' = [build EXCEPT ![b] = "failed"] /\ at' = at
              ELSE at' = [at EXCEPT ![b] = @ + 1] /\ build' = build
  BY DEF BuildNext
<1>6. topology \subseteq topology'
  BY <1>5, RequestKeeps
<1>7. ignore' = ignore /\ gone' = gone
  BY DEF BuildNext
<1>8. TypeOK'
  BY TypeStep DEF Next, IInv
<1>9. \A f \in Entities : Awaited(f)' => Awaited(f)
  BY <1>1, <1>2, <1>3, <1>4, OverriddenSettings DEF Awaited
<1>10. PrefixDeclared'
  <2>. SUFFICES ASSUME NEW c \in Builders, build'[c] # "idle", ~ignore[c],
                       NEW k \in 1 .. at'[c] - 1, Awaited(Plan[k])'
                PROVE  Plan[k] \in topology' \cup gone[c]
    BY <1>7 DEF PrefixDeclared, Awaited
  <2>1. k \in 1 .. Len(Plan) /\ Plan[k] \in Entities
    BY <1>1, <1>8, PlanType DEF TypeOK
  <2>2. Awaited(Plan[k])
    BY <1>9, <2>1
  <2>3. CASE k \in 1 .. at[c] - 1
    <3>1. build[c] # "idle"
      BY <1>5 DEF BuildNext, IInv, TypeOK
    <3>. QED
      BY <1>6, <2>2, <2>3, <3>1 DEF IInv, PrefixDeclared
  <2>4. CASE k \notin 1 .. at[c] - 1
    <3>1. c = b /\ k = at[b] /\ ~StopsOn(err, ignore[b])
      <4>1. at \in [Builders -> 1 .. Len(Plan) + 1] /\ Len(Plan) \in Nat
        BY <1>1 DEF IInv, TypeOK
      <4>2. \/ at' = at
            \/ at' = [at EXCEPT ![b] = @ + 1] /\ ~StopsOn(err, ignore[b])
        BY <1>5
      <4>. QED
        BY ONLY <4>1, <4>2, <2>4, b \in Builders, c \in Builders, k \in 1 .. at'[c] - 1
    <3>2. err = FALSE
      BY <3>1, <1>5 DEF StopsOn
    <3>3. ~conf'[e].noWait
      BY <2>2, <3>1, <1>4 DEF Awaited
    <3>4. conf'[e] \in Settings
      BY <1>1, <1>4
    <3>5. Request(e, conf'[e], TRUE, FALSE)
      BY <1>5, <3>2
    <3>6. topology' = topology \cup {e}
      BY ONLY <3>3, <3>4, <3>5, SilentRequest
    <3>. QED
      BY <3>1, <3>6
  <2>. QED
    BY <2>3, <2>4
<1>. QED
  BY <1>8, <1>10 DEF IInv

\* Every step of the system keeps the invariant.
LEMMA StepInv ==
    ASSUME IInv, [Next]_vars
    PROVE  IInv'
<1>0. TypeOK'
  BY TypeStep DEF IInv
<1>. DEFINE Quiet == UNCHANGED <<conf, build, at, ignore>>
<1>1. ASSUME NEW b \in Builders, BuildTopology(b)
      PROVE  IInv'
  <2>1. PrefixDeclared'
    <3>. SUFFICES ASSUME NEW c \in Builders, build'[c] # "idle", ~ignore'[c],
                         NEW k \in 1 .. at'[c] - 1, Awaited(Plan[k])'
                  PROVE  Plan[k] \in topology' \cup gone'[c]
      BY DEF PrefixDeclared
    <3>1. c # b
      BY <1>1 DEF BuildTopology, IInv, TypeOK
    <3>2. /\ build[c] # "idle" /\ ~ignore[c] /\ k \in 1 .. at[c] - 1
          /\ gone'[c] = gone[c] /\ topology' = topology /\ conf' = conf
      BY <1>1, <3>1 DEF BuildTopology, IInv, TypeOK, brokerState
    <3>3. Awaited(Plan[k])
      BY <3>2 DEF Awaited
    <3>. QED
      BY <3>2, <3>3 DEF IInv, PrefixDeclared
  <2>. QED
    BY <1>0, <2>1 DEF IInv
<1>2. ASSUME NEW b \in Builders, BuildReturns(b)
      PROVE  IInv'
  <2>1. /\ conf' = conf /\ topology' = topology /\ at' = at
        /\ ignore' = ignore /\ gone' = gone
        /\ \A c \in Builders : build'[c] # "idle" => build[c] # "idle"
    BY <1>2 DEF BuildReturns, IInv, TypeOK, brokerState
  <2>2. PrefixDeclared'
    BY <2>1 DEF IInv, PrefixDeclared, Awaited
  <2>. QED
    BY <1>0, <2>2 DEF IInv
<1>3. ASSUME NEW e, NEW s, Create(e, s)
      PROVE  IInv'
  <2>1. Quiet /\ gone' = gone /\ topology \subseteq topology'
    BY <1>3, RequestKeeps DEF Create, builderState
  <2>. QED
    BY <1>0, <2>1, PrefixKept DEF IInv, Awaited
<1>4. ASSUME NEW S, Deleted(S), Quiet
      PROVE  IInv'
  BY <1>0, <1>4, DeletedKeeps, PrefixKept DEF IInv, Awaited
<1>5. CASE \/ \E e \in Entities : \E n : Remove(e, n)
           \/ \E q \in Range(Queues) : Expire(q)
           \/ BrokerRestart
  BY <1>4, <1>5 DEF Remove, Expire, BrokerRestart, builderState
<1>6. CASE \/ \E q \in Range(Queues) : Arrive(q) \/ Deliver(q) \/ Settle(q)
           \/ \E c \in Conns : ConnectionLost(c)
           \/ PurgeQueues \/ PurgeQueue \/ PurgeReturns \/ UNCHANGED vars
  <2>1. Quiet /\ gone' = gone /\ topology' = topology
    BY <1>6 DEF Arrive, Deliver, Settle, ConnectionLost, PurgeQueues, PurgeQueue, PurgeReturns,
                vars, brokerState, builderState
  <2>. QED
    BY <1>0, <2>1, PrefixKept DEF IInv, Awaited
<1>. QED
  BY <1>1, <1>2, <1>3, <1>5, <1>6, BuildNextStep, Kinds

\* A build that does not ignore errors has every awaited element it passed at
\* the broker until another call or the broker itself deletes it, whatever the
\* topology, the settings, the other builders and the lost connections.
THEOREM BuiltOrReported == Spec => []PrefixDeclared
<1>1. IInv => PrefixDeclared
  BY DEF IInv
<1>. QED
  BY InitInv, StepInv, <1>1, PTL DEF Spec

-----------------------------------------------------------------------------
(* Quorum queues                                                           *)

\* Rewriting keeps whether the settings ask for a quorum queue, and settles
\* the rest of what a quorum queue needs.
LEMMA OverriddenQuorum ==
    ASSUME NEW s \in Settings
    PROVE  /\ Overridden(s).quorum = s.quorum
           /\ Overridden(s).args = "other" <=> s.args = "other"
           /\ s.quorum /\ s.args # "other"
                => /\ Overridden(s).args = "quorum" /\ Overridden(s).durable
                   /\ ~Overridden(s).autoDelete /\ ~Overridden(s).exclusive
  BY DEF Overridden, Settings, Tables

\* What QuorumKept says of one queue.
Quorum(d) == d.args = "quorum" /\ d.durable /\ ~d.autoDelete /\ d.owner = Nobody

\* Losing a connection changes no quorum queue and builds none.
LEMMA OrphanedQuorum ==
    ASSUME NEW m \in [Names -> Declarations], NEW c \in Conns, NEW n \in Names
    PROVE  /\ Orphaned(m, c)[n].built = m[n].built
           /\ Quorum(m[n]) => Quorum(Orphaned(m, c)[n])
  BY OrphanedType, OwnersAssumption DEF Quorum

\* A queue the config wants as a quorum queue stays one, whoever builds.
LEMMA QuorumStep ==
    ASSUME TypeOK, QuorumKept, [Next]_vars
    PROVE  QuorumKept'
<1>0. Range(Queues) \subseteq Names /\ Names \subseteq Entities
  BY DEF Names, Entities
<1>1. ASSUME conf' = conf, topology' \subseteq topology,
             \A n \in Names \cap topology' :
                made'[n] = made[n] \/ \E c \in Conns : made'[n] = Orphaned(made, c)[n]
      PROVE  QuorumKept'
  <2>1. ASSUME NEW q \in Range(Queues) \cap topology'
        PROVE  made'[q].built = made[q].built /\ (Quorum(made[q]) => Quorum(made'[q]))
    BY <1>0, <1>1, OrphanedQuorum DEF TypeOK
  <2>. QED
    BY <1>1, <2>1 DEF QuorumKept, Quorum
<1>2. ASSUME NEW b \in Builders, BuildNext(b)
      PROVE  QuorumKept'
  <2>. DEFINE e == Plan[at[b]]
              s == conf'[e]
  <2>1. e \in Entities /\ conf \in [Entities -> Settings] /\ conf[e] \in Settings
    BY <1>2, PlanType DEF BuildNext, TypeOK
  <2>2. /\ conf' = [conf EXCEPT ![e] = Overridden(conf[e])] /\ s = Overridden(conf[e])
        /\ \A f \in Entities : conf'[f] = IF f = e THEN Overridden(conf[e]) ELSE conf[f]
    BY <1>2, <2>1 DEF BuildNext
  <2>3. PICK err \in BOOLEAN : Request(e, s, TRUE, err)
    BY <1>2 DEF BuildNext
  <2>4. s \in Settings
    BY <2>1, <2>2, OverriddenSettings
  <2>. HIDE DEF e, s
  <2>5. PICK c \in Conns, after \in [Names -> Declarations] :
          /\ made' \in {after, Orphaned(after, c)}
          /\ \/ after = made /\ Names \cap topology' = Names \cap topology
             \/ e \in Names \ topology /\ after = [made EXCEPT ![e] = Declared(s, TRUE, c)]
    BY <2>1, <2>3, <2>4, RequestEffect
  <2>6. topology' \in {topology, topology \cup {e}}
    BY <2>1, <2>3, <2>4, RequestEffect
  <2>7. ASSUME NEW q \in Range(Queues) \cap topology', made'[q].built,
               conf'[q].quorum, conf'[q].args # "other"
        PROVE  Quorum(made'[q])
    <3>0. q \in Entities /\ q \in Names /\ q \in topology'
      BY <1>0
    <3>1. conf[q].quorum /\ conf[q].args # "other"
      <4>1. CASE q = e
        BY <2>1, <2>2, <2>7, <3>0, <4>1, OverriddenQuorum
      <4>2. CASE q # e
        BY <2>2, <2>7, <3>0, <4>2
      <4>. QED
        BY <4>1, <4>2
    <3>2. after[q].built
      BY <1>0, <2>5, <2>7, OrphanedQuorum
    <3>3. ASSUME q \in topology, after[q] = made[q] PROVE Quorum(after[q])
      BY <3>0, <3>1, <3>2, <3>3 DEF QuorumKept, Quorum
    <3>4. ASSUME q = e, after[q] = Declared(s, TRUE, c) PROVE Quorum(after[q])
      <4>1. s.args = "quorum" /\ s.durable /\ ~s.autoDelete /\ ~s.exclusive
        BY <2>1, <2>2, <3>1, <3>4, OverriddenQuorum
      <4>. QED
        BY ONLY <3>4, <4>1 DEF Declared, Quorum
    <3>5. \/ q \in topology /\ after[q] = made[q]
          \/ q = e /\ after[q] = Declared(s, TRUE, c)
      <4>1. made \in [Names -> Declarations]
        BY DEF TypeOK
      <4>2. CASE after = made /\ Names \cap topology' = Names \cap topology
        BY <3>0, <4>2
      <4>3. CASE e \in Names \ topology /\ after = [made EXCEPT ![e] = Declared(s, TRUE, c)]
        BY <2>6, <3>0, <4>1, <4>3
      <4>. QED
        BY <2>5, <4>2, <4>3
    <3>6. Quorum(after[q])
      BY <3>3, <3>4, <3>5
    <3>. QED
      BY <1>0, <2>5, <3>6, OrphanedQuorum
  <2>. QED
    BY <2>7 DEF QuorumKept, Quorum
<1>3. ASSUME NEW e \in Entities, NEW s \in Settings, Create(e, s)
      PROVE  QuorumKept'
  <2>1. PICK err \in BOOLEAN : Request(e, s, FALSE, err)
    BY <1>3 DEF Create
  <2>2. PICK c \in Conns, after \in [Names -> Declarations] :
          /\ made' \in {after, Orphaned(after, c)}
          /\ \/ after = made /\ Names \cap topology' = Names \cap topology
             \/ e \in Names \ topology /\ after = [made EXCEPT ![e] = Declared(s, FALSE, c)]
    BY <2>1, RequestEffect
  <2>3. topology' \in {topology, topology \cup {e}} /\ conf' = conf
    BY <1>3, <2>1, RequestEffect DEF Create
  <2>4. ASSUME NEW q \in Range(Queues) \cap topology', made'[q].built,
               conf[q].quorum, conf[q].args # "other"
        PROVE  Quorum(made'[q])
    <3>1. after[q].built
      BY <1>0, <2>2, <2>4, OrphanedQuorum
    <3>2. ~Declared(s, FALSE, c).built
      BY DEF Declared
    <3>3. q \in topology /\ after[q] = made[q]
      BY <1>0, <2>2, <2>3, <3>1, <3>2 DEF TypeOK
    <3>4. Quorum(after[q])
      BY <2>4, <3>1, <3>3 DEF QuorumKept, Quorum
    <3>. QED
      BY <1>0, <2>2, <3>4, OrphanedQuorum
  <2>. QED
    BY <2>3, <2>4 DEF QuorumKept, Quorum
<1>4. CASE \/ \E e \in Entities : \E n : Remove(e, n)
           \/ \E q \in Range(Queues) : Expire(q)
           \/ BrokerRestart
  BY <1>1, <1>4, DeletedKeeps DEF Remove, Expire, BrokerRestart
<1>5. CASE (\E c \in Conns : ConnectionLost(c)) \/ PurgeQueue
  <2>1. /\ conf' = conf /\ topology' = topology
        /\ made' = made \/ \E c \in Conns : made' = Orphaned(made, c)
    BY <1>5 DEF ConnectionLost, PurgeQueue
  <2>. QED
    BY <1>1, <2>1
<1>6. CASE \/ \E b \in Builders : BuildTopology(b) \/ BuildReturns(b)
           \/ \E q \in Range(Queues) : Arrive(q) \/ Deliver(q) \/ Settle(q)
           \/ PurgeQueues \/ PurgeReturns \/ UNCHANGED vars
  BY <1>1, <1>6 DEF BuildTopology, BuildReturns, Arrive, Deliver, Settle, PurgeQueues,
                    PurgeReturns, vars, brokerState
<1>. QED
  BY <1>2, <1>3, <1>4, <1>5, <1>6, Kinds

\* A queue configured as quorum without a table of its own is never built as a
\* classic one by BuildTopology, for any number of builders that rewrite the
\* shared settings. It says nothing of queues with a table of their own, which
\* are built as the table says, nor of those made by CreateQueue.
THEOREM QuorumQueuesKept == Spec => []QuorumKept
<1>1. Init => TypeOK
  BY InitInv DEF IInv
<1>2. Init => QuorumKept
  BY DEF Init, QuorumKept
<1>. QED
  BY <1>1, <1>2, TypeStep, QuorumStep, PTL DEF Spec

-----------------------------------------------------------------------------
(* Purging                                                                 *)

\* The queues a purge has passed hold no message from before the call, and a
\* purge that returned has passed all of them.
PurgedSoFar ==
    /\ purge \in {"run", "ok"} /\ ~purgeNoWait => \A k \in 1 .. purgeAt - 1 : Queues[k] \notin old
    /\ purge = "ok" => purgeAt = Len(Queues) + 1

\* Nobody but a purge changes where the purge is, and old messages only go.
LEMMA PurgeStep ==
    ASSUME TypeOK, PurgedSoFar, [Next]_vars
    PROVE  PurgedSoFar'
<1>0. Len(Queues) \in Nat /\ purgeAt \in 1 .. Len(Queues) + 1
  BY PlanAssumption DEF TypeOK
<1>1. ASSUME UNCHANGED purgeState, old' \subseteq old
      PROVE  PurgedSoFar'
  BY <1>1 DEF PurgedSoFar, purgeState
<1>2. CASE PurgeQueues
  BY <1>2 DEF PurgeQueues, PurgedSoFar
<1>3. CASE PurgeQueue
  <2>1. PICK err \in BOOLEAN :
          /\ old' \subseteq old
          /\ ~purgeNoWait /\ ~err => Queues[purgeAt] \notin old'
          /\ IF err THEN purge' = "failed" /\ purgeAt' = purgeAt
                    ELSE purgeAt' = purgeAt + 1 /\ purge' = purge
    <3>1. PICK err \in BOOLEAN, c \in Conns :
            /\ \/ /\ err = Reported(Queues[purgeAt] \notin topology \/ Locked(Queues[purgeAt], c),
                                    purgeNoWait)
                  /\ IF Queues[purgeAt] \notin topology \/ Locked(Queues[purgeAt], c)
                       THEN old' = old ELSE old' = old \ {Queues[purgeAt]}
               \/ (purgeNoWait \/ err) /\ (old' = old \/ old' = old \ {Queues[purgeAt]})
            /\ IF err THEN purge' = "failed" /\ purgeAt' = purgeAt
                      ELSE purgeAt' = purgeAt + 1 /\ purge' = purge
      BY <1>3 DEF PurgeQueue, StopsOn
    <3>. QED
      BY <3>1 DEF Reported
  <2>2. purge = "run" /\ purgeNoWait' = purgeNoWait
    BY <1>3 DEF PurgeQueue
  <2>. QED
    BY <1>0, <2>1, <2>2 DEF PurgedSoFar
<1>4. CASE PurgeReturns
  BY <1>4 DEF PurgeReturns, PurgedSoFar, messageState
<1>5. CASE \/ \E e \in Entities : \E n : Remove(e, n)
           \/ \E q \in Range(Queues) : Expire(q)
           \/ BrokerRestart
  BY <1>1, <1>5, DeletedKeeps DEF Remove, Expire, BrokerRestart
<1>6. ASSUME NEW q \in Range(Queues), Arrive(q) \/ Deliver(q) \/ Settle(q)
      PROVE  PurgedSoFar'
  BY <1>1, <1>6 DEF Arrive, Deliver, Settle
<1>7. CASE \/ \E b \in Builders : BuildTopology(b) \/ BuildNext(b) \/ BuildReturns(b)
           \/ \E e \in Entities, s \in Settings : Create(e, s)
           \/ \E c \in Conns : ConnectionLost(c)
           \/ UNCHANGED vars
  BY <1>1, <1>7 DEF BuildTopology, BuildNext, BuildReturns, Create, ConnectionLost, vars,
                    messageState
<1>. QED
  BY <1>2, <1>3, <1>4, <1>5, <1>6, <1>7, Kinds

\* PurgeQueues returns nil only if no message is left in the queues that was
\* there before the call and was with no consumer since, however deletions,
\* publications, deliveries and lost connections interleave.
THEOREM PurgeIsComplete == Spec => []PurgeRemovesOld
<1>1. Init => TypeOK
  BY InitInv DEF IInv
<1>2. Init => PurgedSoFar
  BY DEF Init, PurgedSoFar
<1>3. TypeOK /\ PurgedSoFar => PurgeRemovesOld
  <2>. SUFFICES ASSUME TypeOK, PurgedSoFar, purge = "ok", ~purgeNoWait, NEW q \in old
                PROVE  FALSE
    BY DEF PurgeRemovesOld
  <2>1. PICK k \in DOMAIN Queues : Queues[k] = q
    BY DEF TypeOK, Range
  <2>2. k \in 1 .. purgeAt - 1
    BY PlanAssumption DEF PurgedSoFar
  <2>. QED
    BY <2>1, <2>2 DEF PurgedSoFar
<1>. QED
  BY <1>1, <1>2, <1>3, TypeStep, PurgeStep, PTL DEF Spec
=============================================================================
