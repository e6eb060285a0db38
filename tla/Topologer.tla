------------------------------ MODULE Topologer ------------------------------
(***************************************************************************)
(* The Topologer (topologer.go): goroutines that build one shared          *)
(* TopologyConfig, others that declare, delete, unbind and purge, and the  *)
(* broker. Every call works on a transient channel of its own, closed      *)
(* before the call returns, so the broker has dealt with the request by    *)
(* then, on some connection of the pool, which may be lost under any       *)
(* request. The broker also deletes by itself: exclusive queues with their *)
(* connection, auto-delete queues with their last consumer, auto-delete    *)
(* exchanges with their last binding, and what is not durable when it      *)
(* restarts.                                                               *)
(***************************************************************************)
EXTENDS Naturals, Sequences, FiniteSets, Functions

CONSTANTS Exchanges, Queues, \* config.Exchanges and config.Queues: sequences of names
          QueueBindings, ExchangeBindings, \* sequences of <<name, exchange>>
          Scenarios,         \* configs, each with bounds on the calls that are made
          OwnSettings,       \* settings that callers of the Create functions give
          Conns,             \* the connections of the pool
          Nobody, Dead,      \* owners of queues: none, a lost connection
          Builders,          \* goroutines that call BuildTopology
          MaxFaults          \* bound: lost connections and broker restarts

ASSUME BoundsAssumption == MaxFaults \in Nat

Bindings == Range(QueueBindings) \cup Range(ExchangeBindings)
Names == Range(Exchanges) \cup Range(Queues)

ASSUME PlanAssumption ==
    /\ Range(Exchanges) \cap Range(Queues) = {} /\ Names \cap Bindings = {}
    /\ Exchanges \in Seq(Names) /\ Queues \in Seq(Names)
    /\ QueueBindings \in Seq(Bindings) /\ ExchangeBindings \in Seq(Bindings)

Entities == Names \cup Bindings

\* BuildExchanges, BuildQueues, BindQueues and BindExchanges, one after the
\* other; each is the same loop over its slice.
Plan == Exchanges \o Queues \o QueueBindings \o ExchangeBindings

\* One element of the config. args: no table, a table that asks for a quorum
\* queue, or another table.
Tables == {"nil", "quorum", "other"}

Settings == [passive : BOOLEAN, noWait : BOOLEAN, durable : BOOLEAN, autoDelete : BOOLEAN,
             exclusive : BOOLEAN, quorum : BOOLEAN, args : Tables]

\* Bindings are not declared with flags, and only queues are exclusive and
\* have types and tables that matter here.
Configured(e, s) ==
    /\ e \in Bindings => ~s.passive /\ s.durable /\ ~s.autoDelete
    /\ e \notin Range(Queues) => ~s.exclusive /\ ~s.quorum /\ s.args = "nil"

\* A scenario is a config, the bound on calls of BuildTopology and the bound on
\* calls of the other operations and moves of the other clients.
ASSUME ScenariosAssumption ==
    /\ Scenarios \subseteq [conf : [Entities -> Settings], builds : Nat, ops : Nat]
    /\ \A s \in Scenarios : \A e \in Entities : Configured(e, s.conf[e])
    /\ OwnSettings \subseteq Settings

ASSUME OwnersAssumption == Nobody \notin Conns /\ Dead \notin Conns /\ Nobody # Dead

\* How a name was declared: by a build or not, and by which connection if it
\* is exclusive.
Declarations == [durable : BOOLEAN, autoDelete : BOOLEAN, args : Tables, built : BOOLEAN,
                 owner : Conns \cup {Nobody, Dead}]

Undeclared == [durable |-> FALSE, autoDelete |-> FALSE, args |-> "nil", built |-> FALSE,
               owner |-> Nobody]

VARIABLES
    conf,     \* the shared config: the settings of every entity
    topology, \* what exists at the broker
    made,     \* how each name was declared when it was made
    build,    \* each builder: "idle", "run", "ok" or "failed"
    at,       \* the position of its loop
    ignore,   \* ignoreErrors
    gone,     \* entities deleted since a builder's call began (history)
    messages, \* queues that hold messages nobody has been given yet
    unacked,  \* queues with messages that wait for an acknowledgement
    purge,    \* the call of PurgeQueues: "idle", "run", "ok" or "failed"
    purgeAt, purgeNoWait,
    old,      \* queues with messages that nobody has been given since before
              \* the call (history)
    builds, ops, \* calls that the scenario still allows
    faults    \* what MaxFaults counts

brokerState == <<topology, made>>
builderState == <<build, at, ignore>>
purgeState == <<purge, purgeAt, purgeNoWait>>
messageState == <<messages, unacked, old>>
vars == <<conf, brokerState, builderState, gone, messageState, purgeState, builds, faults, ops>>

Calls == {"idle", "run", "ok", "failed"}

TypeOK ==
    /\ conf \in [Entities -> Settings]
    /\ topology \subseteq Entities
    /\ made \in [Names -> Declarations]
    /\ build \in [Builders -> Calls]
    /\ at \in [Builders -> 1 .. Len(Plan) + 1]
    /\ ignore \in [Builders -> BOOLEAN]
    /\ gone \in [Builders -> SUBSET Entities]
    /\ messages \subseteq topology \cap Range(Queues) /\ old \subseteq messages
    /\ unacked \subseteq topology \cap Range(Queues)
    /\ purge \in Calls /\ purgeAt \in 1 .. Len(Queues) + 1 /\ purgeNoWait \in BOOLEAN
    /\ builds \in Nat /\ faults \in 0 .. MaxFaults /\ ops \in Nat

Init ==
    /\ \E s \in Scenarios : conf = s.conf /\ builds = s.builds /\ ops = s.ops
    /\ topology = {}
    /\ made = [n \in Names |-> Undeclared]
    /\ build = [b \in Builders |-> "idle"]
    /\ at = [b \in Builders |-> 1]
    /\ ignore = [b \in Builders |-> FALSE]
    /\ gone = [b \in Builders |-> {}]
    /\ messages = {} /\ unacked = {} /\ old = {}
    /\ purge = "idle" /\ purgeAt = 1 /\ purgeNoWait = FALSE
    /\ faults = 0

-----------------------------------------------------------------------------
(* The broker                                                              *)

\* An exclusive queue is for its own connection only.
Locked(n, c) == n \in Names \cap topology /\ made[n].owner \notin {Nobody, c}

Declared(s, built, c) ==
    [durable |-> s.durable, autoDelete |-> s.autoDelete, args |-> s.args, built |-> built,
     owner |-> IF s.exclusive THEN c ELSE Nobody]

\* What quorum queues cannot be.
ClassicOnly(s) == ~s.durable \/ s.autoDelete \/ s.exclusive

\* Why a declaration or a binding is refused.
Refused(e, s, c) ==
    \/ s.passive /\ e \notin topology
    \/ e \in Bindings /\ (~({e[1], e[2]} \subseteq topology) \/ Locked(e[1], c))
    \/ Locked(e, c)
    \/ /\ e \in Names \cap topology /\ ~s.passive
       /\ made[e] # Declared(s, made[e].built, c)
    \/ s.args = "quorum" /\ ClassicOnly(s) /\ ~s.passive

\* A failed request returns an error, unless nobody waits for the reply.
Reported(failed, noWait) == failed /\ ~noWait

\* The queues of a lost connection await their deletion.
Orphaned(m, c) == [n \in Names |-> IF m[n].owner = c THEN [m[n] EXCEPT !.owner = Dead] ELSE m[n]]

\* A request with settings s on some connection returns err. If the connection
\* is lost under it, the broker may have dealt with it or not, and a caller
\* that does not wait may still see the error of the send.
Request(e, s, built, err) ==
    \E c \in Conns, handled \in BOOLEAN :
        LET applied == handled /\ ~Refused(e, s, c)
            after == IF applied /\ e \in Names \ topology
                       THEN [made EXCEPT ![e] = Declared(s, built, c)] ELSE made
        IN  /\ topology' = IF applied THEN topology \cup {e} ELSE topology
            /\ \/ /\ handled
                  /\ err = Reported(Refused(e, s, c), s.noWait)
                  /\ made' = after
                  /\ UNCHANGED faults
               \/ /\ faults < MaxFaults
                  /\ faults' = faults + 1
                  /\ s.noWait \/ err
                  /\ made' = Orphaned(after, c)

\* What goes when S goes: bindings with what they bind, and an auto-delete
\* exchange with the last of its bindings.
Closed(S) ==
    /\ \A e \in Bindings \cap topology : e[1] \in S \/ e[2] \in S => e \in S
    /\ \A x \in Range(Exchanges) \cap topology :
         LET from == {e \in Bindings \cap topology : e[2] = x}
         IN  made[x].autoDelete /\ from # {} /\ from \subseteq S => x \in S

\* The least closed set with S.
Closure(S) == {e \in topology : \A T \in SUBSET (topology \ {e}) : S \subseteq T => ~Closed(T)}

\* The broker deletes S and what goes with it.
Deleted(S) ==
    LET lost == Closure(S) IN
        /\ topology' = topology \ lost
        /\ made' = [n \in Names |-> IF n \in lost THEN Undeclared ELSE made[n]]
        /\ gone' = [b \in Builders |-> gone[b] \cup lost]
        /\ messages' = messages \ lost
        /\ unacked' = unacked \ lost
        /\ old' = old \ lost

\* A connection of the pool is lost between requests.
ConnectionLost(c) ==
    /\ \E n \in Names : made[n].owner = c
    /\ faults < MaxFaults
    /\ faults' = faults + 1
    /\ made' = Orphaned(made, c)
    /\ UNCHANGED <<conf, topology, builderState, gone, messageState, purgeState, builds, ops>>

\* The broker deletes an exclusive queue after its connection, and an
\* auto-delete queue after its last consumer.
Expire(q) ==
    /\ q \in topology
    /\ made[q].owner = Dead \/ made[q].autoDelete
    /\ Deleted({q})
    /\ UNCHANGED <<conf, builderState, purgeState, builds, faults, ops>>

\* The broker restarts: it keeps what is durable and not exclusive, and its
\* messages.
BrokerRestart ==
    /\ faults < MaxFaults
    /\ faults' = faults + 1
    /\ Deleted({n \in Names \cap topology : ~made[n].durable \/ made[n].owner # Nobody})
    /\ UNCHANGED <<conf, builderState, purgeState, builds, ops>>

-----------------------------------------------------------------------------
(* BuildTopology                                                           *)

\* A call; a failed one may be repeated.
BuildTopology(b) ==
    /\ build[b] # "run"
    /\ builds > 0
    /\ build' = [build EXCEPT ![b] = "run"]
    /\ at' = [at EXCEPT ![b] = 1]
    /\ \E ignoreErrors \in BOOLEAN : ignore' = [ignore EXCEPT ![b] = ignoreErrors]
    /\ gone' = [gone EXCEPT ![b] = {}]
    /\ builds' = builds - 1
    /\ UNCHANGED <<conf, brokerState, messageState, purgeState, faults, ops>>

OverriddenOnlyFlags(s) ==
    IF s.quorum
      THEN [s EXCEPT !.exclusive = FALSE, !.durable = TRUE, !.noWait = FALSE, !.autoDelete = FALSE]
      ELSE s

\* CreateQueueFromConfig rewrites the shared settings of a quorum queue.
Overridden(s) ==
    IF s.quorum
      THEN [s EXCEPT !.exclusive = FALSE, !.durable = TRUE, !.noWait = FALSE, !.autoDelete = FALSE,
                     !.args = IF @ = "nil" THEN "quorum" ELSE @]
      ELSE s

StopsOnNothing(err, ignoreErrors) == FALSE

\* The loops stop on the first error, unless errors are ignored.
StopsOn(err, ignoreErrors) == err /\ ~ignoreErrors

\* One iteration: CreateExchangeFromConfig, CreateQueueFromConfig, QueueBind
\* or ExchangeBind.
BuildNext(b) ==
    /\ build[b] = "run"
    /\ at[b] <= Len(Plan)
    /\ LET e == Plan[at[b]] IN
         /\ conf' = [conf EXCEPT ![e] = Overridden(@)]
         /\ \E err \in BOOLEAN :
              /\ Request(e, conf'[e], TRUE, err)
              /\ IF StopsOn(err, ignore[b])
                   THEN build' = [build EXCEPT ![b] = "failed"] /\ UNCHANGED at
                   ELSE at' = [at EXCEPT ![b] = @ + 1] /\ UNCHANGED build
    /\ UNCHANGED <<ignore, gone, messageState, purgeState, builds, ops>>

BuildReturns(b) ==
    /\ build[b] = "run"
    /\ at[b] = Len(Plan) + 1
    /\ build' = [build EXCEPT ![b] = "ok"]
    /\ UNCHANGED <<conf, brokerState, at, ignore, gone, messageState, purgeState, builds,
                   faults, ops>>

-----------------------------------------------------------------------------
(* The other operations                                                    *)

Operation == ops > 0 /\ ops' = ops - 1

\* A declaration or a binding with settings of the caller's own.
Create(e, s) ==
    /\ Configured(e, s)
    /\ Operation
    /\ \E err \in BOOLEAN : Request(e, s, FALSE, err)
    /\ UNCHANGED <<conf, builderState, gone, messageState, purgeState, builds>>

CreateExchange(x, s) == Create(x, s)

CreateQueue(q, s) == Create(q, s)

QueueBind(e, s) == Create(e, s)

ExchangeBind(e, s) == Create(e, s)

\* A deletion that the broker does not refuse.
Remove(e, n) ==
    /\ e \in topology
    /\ \E c \in Conns : ~Locked(n, c)
    /\ Operation
    /\ Deleted({e})
    /\ UNCHANGED <<conf, builderState, purgeState, builds, faults>>

ExchangeDelete(x) == Remove(x, x)

QueueDelete(q) == Remove(q, q)

ExchangeUnbind(e) == Remove(e, e[1])

UnbindQueue(e) == Remove(e, e[1])

\* Other clients: a message arrives, some or all are given to a consumer, and
\* those it has are acknowledged or come back to the queue.
Arrive(q) ==
    /\ Operation
    /\ q \in topology \ messages
    /\ messages' = messages \cup {q}
    /\ UNCHANGED <<conf, brokerState, builderState, gone, unacked, old, purgeState, builds,
                   faults>>

Deliver(q) ==
    /\ Operation
    /\ q \in messages
    /\ unacked' = unacked \cup {q}
    /\ \/ UNCHANGED <<messages, old>>
       \/ messages' = messages \ {q} /\ old' = old \ {q}
    /\ UNCHANGED <<conf, brokerState, builderState, gone, purgeState, builds, faults>>

Settle(q) ==
    /\ q \in unacked
    /\ unacked' = unacked \ {q}
    /\ messages' \in {messages, messages \cup {q}}
    /\ UNCHANGED <<conf, brokerState, builderState, gone, old, purgeState, builds, faults, ops>>

PurgeQueues ==
    /\ purge # "run"
    /\ Operation
    /\ purge' = IF Queues = <<>> THEN "failed" ELSE "run"
    /\ purgeAt' = 1 /\ purgeNoWait' \in BOOLEAN
    /\ old' = messages
    /\ UNCHANGED <<conf, brokerState, builderState, gone, messages, unacked, builds, faults>>

\* One PurgeQueue of the loop, which stops on the first error: the broker
\* empties the queue of all but the messages that wait for an acknowledgement.
PurgeQueue ==
    /\ purge = "run"
    /\ purgeAt <= Len(Queues)
    /\ LET q == Queues[purgeAt]
           Emptied == messages' = messages \ {q} /\ old' = old \ {q}
           Spared == UNCHANGED <<messages, old>>
       IN  \E err \in BOOLEAN, c \in Conns :
             LET failed == q \notin topology \/ Locked(q, c) IN
             /\ \/ /\ err = Reported(failed, purgeNoWait)
                   /\ IF failed THEN Spared ELSE Emptied
                   /\ UNCHANGED <<made, faults>>
                \/ /\ faults < MaxFaults /\ faults' = faults + 1
                   /\ purgeNoWait \/ err
                   /\ Spared \/ (~failed /\ Emptied)
                   /\ made' = Orphaned(made, c)
             /\ IF StopsOn(err, FALSE)
                  THEN purge' = "failed" /\ UNCHANGED purgeAt
                  ELSE purgeAt' = purgeAt + 1 /\ UNCHANGED purge
    /\ UNCHANGED <<conf, topology, builderState, gone, unacked, purgeNoWait, builds, ops>>

PurgeReturns ==
    /\ purge = "run"
    /\ purgeAt = Len(Queues) + 1
    /\ purge' = "ok"
    /\ UNCHANGED <<conf, brokerState, builderState, gone, messageState, purgeAt, purgeNoWait,
                   builds, faults, ops>>

Next ==
    \/ \E b \in Builders : BuildTopology(b) \/ BuildNext(b) \/ BuildReturns(b)
    \/ \E x \in Range(Exchanges) :
         ExchangeDelete(x) \/ \E s \in OwnSettings : CreateExchange(x, s)
    \/ \E q \in Range(Queues) :
         \/ QueueDelete(q) \/ Arrive(q) \/ Deliver(q) \/ Settle(q) \/ Expire(q)
         \/ \E s \in OwnSettings : CreateQueue(q, s)
    \/ \E e \in Range(QueueBindings) :
         UnbindQueue(e) \/ \E s \in OwnSettings : QueueBind(e, s)
    \/ \E e \in Range(ExchangeBindings) :
         ExchangeUnbind(e) \/ \E s \in OwnSettings : ExchangeBind(e, s)
    \/ \E c \in Conns : ConnectionLost(c)
    \/ BrokerRestart
    \/ PurgeQueues \/ PurgeQueue \/ PurgeReturns

Spec == Init /\ [][Next]_vars

-----------------------------------------------------------------------------
(* Properties                                                              *)

\* The build reports what becomes of this element.
Awaited(e) == ~Overridden(conf[e]).noWait

\* A build that does not ignore errors leaves every element it has passed at
\* the broker, but for the ones with NoWait and the ones deleted since, by
\* another call or by the broker (exclusive queues with their connection,
\* auto-delete elements with their last user): a nil result means that the
\* awaited part of the topology was built, an error that it was built up to the
\* failed element, with other builders sharing the config and connections lost
\* under requests.
PrefixDeclared ==
    \A b \in Builders :
        build[b] # "idle" /\ ~ignore[b]
            => \A k \in 1 .. at[b] - 1 : Awaited(Plan[k]) => Plan[k] \in topology \cup gone[b]

\* A queue configured as quorum without a table of its own is never built as
\* a classic queue, although the first build rewrites the shared settings and
\* later builds see the rewritten ones.
QuorumKept ==
    \A q \in Range(Queues) \cap topology :
        made[q].built /\ conf[q].quorum /\ conf[q].args # "other"
            => /\ made[q].args = "quorum"
               /\ made[q].durable /\ ~made[q].autoDelete /\ made[q].owner = Nobody

\* PurgeQueues returns no error only if no message is left that was in the
\* queues before the call and did not wait for an acknowledgement since, unless
\* it did not wait for the replies. Messages with a consumer stay, and may come
\* back.
PurgeRemovesOld == purge = "ok" /\ ~purgeNoWait => old = {}
=============================================================================
