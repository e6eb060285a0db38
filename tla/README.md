# friendlyrabbit in TLA+

friendlyrabbit is a Go library over `amqp091-go`: a pool of connections and
channels that heals itself, publishers with confirmations and retries,
consumers, topology building, and `RabbitService`, which wires them together.
This directory holds TLA+ models of its components, the TLC configurations
that check them on small instances, and TLAPS proofs of the results that matter
most. `PROJECT.json` lists runs, mutants, findings, hazards and theorems, and
maps each definition to the lines it models.

    tlc -workers 2 -config Host.cfg MCConnectionHost
    tlapm ConnectionHostProofs.tla

## 1. Inventory

| Component | State | Operations | Correct when |
|---|---|---|---|
| `ConnectionHost` (connectionhost.go) | `Connection`, `Errors`, `Blockers`, `connLock` | `Connect`, `ConnectWithErrorHandler`, `PauseOnFlowControl` | one live connection; a loss is always noticed; the lock is always given back |
| `ConnectionPool` (connectionpool.go) | queue `connections`, buffered channel `channels`, `flaggedConnections` | `NewConnectionPool`, `GetConnection`, `ReturnConnection`, `GetChannelFromPool`, `GetTransientChannel`, `ReturnChannel`, `Shutdown` | hosts and channels are lent to one goroutine at a time and come back on every path; nobody waits for ever |
| `ChannelHost` (channelhost.go) | `Channel`, `Errors`, its host | `NewChannelHost`, `MakeChannel`, `Close` | an erred channel is made again on its own host |
| `Publisher`, the calls (publisher.go) | the channel and confirmation of each call | `Publish`, `PublishWithTransient`, `PublishWithConfirmation`, `PublishWithConfirmationTransient` | success means stored; a republish has a reason; a call returns; channels come back |
| `Publisher`, auto-publishing (publisher.go) | `letters`, `autoStop`, `autoStarted`, `publishReceipts` | `StartAutoPublishing`, its loop, `QueueLetter`, `publishReceipt`, `Shutdown` | one loop; no letter lost or doubled; a stop is obeyed |
| `RabbitService` (rabbitservice.go) | `centralErr`, `shutdownSignal`, `shutdown`, consumers | `QueueLetter`, `processPublishReceipts`, `processErrors`, `monitorForShutdown`, `collectConsumerErrors`, `Shutdown` | bounded retries; its goroutines never wait for each other |
| `Consumer` (consumer.go, message.go) | `started`, `consumeStop`, `errors`, `receivedMessages`, `conLock` | `Get`, `StartConsuming`, the consume loop, `StopConsuming`, `Acknowledge`, `Nack`, `Reject` | messages stay with the broker until answered; channels come back; a stop is obeyed |
| `Topologer` (topologer.go) | the shared config it rewrites | build, create, bind, delete, unbind, purge, each on a transient channel | a build without an error has built what it reports on; a purge has removed what nobody was using |
| Payloads (json.go, internal/utils) | the shared encryption settings, the reader's buffer | `NewLetter`, `ToPayload`, `ReadPayload`, compression, encryption, the key of a new service | reading undoes writing or refuses; what is to be encrypted never goes out in clear |

Interactions. Publishers and consumers borrow `ChannelHost`s from the pool's Go
channel and give them back with a verdict (erred or not); an erred one is made
again on its `ConnectionHost`, which the borrower reaches *without* taking the
host from the queue, so several goroutines check and recover one host at once.
Transient channels take a host from the queue for the time it takes to open
the channel. The auto-publishing loop spawns a goroutine per letter (bounded by
a semaphore); each ends in a receipt on `publishReceipts`, which
`processPublishReceipts` turns into a requeue or a report on `centralErr`,
which `processErrors` drains. A consumer's errors take the same way through
`collectConsumerErrors`. `Shutdown` sends signals to all of them and then empties
the pool under the ones still at work.

The hard parts are: unlocked reads of fields a recovery replaces; notification
channels the library closes; retry loops with no exit but success; buffers
whose reader also writes to other buffers; stop signals racing the loops they
stop; subscriptions that outlive the loop that made them; settings that several
goroutines share and some rewrite; and the library's local nacks, which look
like the broker's.
`PROJECT.json` lists each hazard at its line.

## 2. Modules

| Module | Models | Proofs |
|---|---|---|
| `ConnectionHost` | one host, the goroutines that verify, recover and use it, the server | `ConnectionHostProofs` |
| `Loans` | abstract: what a pool promises about each item | refinement in `ConnectionPoolProofs` |
| `ConnectionPool` | the queue, the cache, borrowers, construction, shutdown; refines `Loans` twice | `ConnectionPoolProofs`, `ShelfTheorems` |
| `PublishConfirm` | the four publishing calls, the broker, dying channels | `PublishConfirmProofs` |
| `AutoPublisher` | the auto-publishing loop and the service goroutines around it | `AutoPublisherProofs` |
| `Consumer` | one consumer: its loops, its stoppers, the application, the broker | `ConsumerProofs`, `ShelfTheorems` |
| `RabbitService` | composes `Consumer` with the service's goroutines and calls of `Shutdown` | `ConsumerProofs` |
| `Topologer` | builders of one shared config, the other operations, the broker | `TopologerProofs` |
| `Payload` | `ToPayload` and `ReadPayload` as operators, the services that share a key, a reader | `PayloadProofs` |

The modules form layers. `ConnectionPool` takes `verifyHealthyConnection` as
one step that returns with the host connected; `ConnectionHost` has its steps.
`PublishConfirm` takes from the pool that a cached channel is lent to one call
at a time and that an erred one comes back reopened (`ChannelsLent`,
`ErredChannelComesBack`). `AutoPublisher` takes one call of
`PublishWithConfirmation` as a step that ends in success or failure. That it ends
comes from `CallReturns`, and so only for letters that can be sent and while the
pool is up; the other calls may never end, and keep their slot. `Consumer` takes
the pool as `PublishConfirm` does, and `RabbitService` extends `Consumer`: a step of the service is a step of the
consumer, of a service goroutine, or of a call of `Shutdown` that runs into
either.

Definitions without a `map` entry whose names say what is wrong with them
(`RecompareDropped`, `PutKeepsChannel`, ...) are mutants: plausible bugs that the
properties are shown to catch. No specification uses them.

### ConnectionHost

`Getter` is the goroutine in `GetConnection` that holds the host out of the
queue; `Returners` are goroutines inside `reconnectChannel`. Each successful
dial makes a connection, an `Errors` and a `Blockers` channel, all named by the
number of the dial; `Connection` and `Errors` are the dials the two fields
refer to, so "the error channel of an earlier connection" is a state. `connLock`
is the owner of the mutex. A dying connection first sets its closed flag
(`ConnectionLost`) and later sends to and closes its error channel
(`Broadcast`), as the library does; `ErrorsClosed` is then always ready.

The code's steps are the actions: `VerifyErrors`, `VerifyFlag`, `VerifyDecide`
(verifyHealthyConnection); `Compare`, `Lock`, `Recompare`, `DialFails`,
`DialSucceeds`, `InstallChannels`, `Register` (ConnectWithErrorHandler);
`FlushError`, `FlushSpin`, `FlushDone`, `Unflag` (triggerConnectionRecovery);
`PauseLock`, `PauseSleeps`, `PauseReturns` (PauseOnFlowControl); `MakeChannel`,
`MakeChannelFails`. The fields are read without the lock while it is held by a
writer; each read sees the old or the new value, which is what a word-sized
racy read yields on the platforms Go supports.

### ConnectionPool and Loans

`connections` and `channels` are sequences; `held` and `chan` say what each
goroutine has taken. `Owner` runs `initializeConnections` and later `Shutdown`
step by step: `Empty`, `Len` and `Get` of its drain loop are separate steps,
with other goroutines in between. `Reset` replaces the queue: a goroutine that
waits on the old one stays there (`stranded`).

`Loans` says an item is outside, on the shelf, or with one borrower who can only
put it back. `ChannelsLent` and `ConnectionsLent` are its specification under
the mapping `Place`.

### PublishConfirm

Each call publishes one letter with one of the four functions (`mode`), chosen
in `Init` together with the set of letters the library refuses to encode
(`unsendable`). `attempt` is the state of the last attempt: sent, stored by the
broker, acked, nacked. `CloseTransient` is `ReturnChannel` of a transient
channel: the broker handles what was sent before the close, and the library
nacks what is unconfirmed. `ChannelDies` nacks what is pending, stored or not.

### AutoPublisher

`loop[i]` is the i-th auto-publishing loop ever started; `publishing` the
goroutines it spawned; `receipts` the goroutines that send a receipt, with what
the channel buffers; `monitor` is `processPublishReceipts`. `stoppers` are the
goroutines `stopAutoPublish` spawns to send on `autoStop`. `panicked` is the
nil dereference of a publishing goroutine, which ends the process.

A publish has three outcomes. It succeeds, it fails (`PublishEnds`), or it never
returns: `PublishWithConfirmation` retries a letter the library refuses to encode
for ever (`unsendable`, chosen in `Init` as in `PublishConfirm`), and after
`PoolShutdown` it may wait for ever for a channel. Such a publish keeps its slot
of the semaphore. `Jammed(i)` says that all slots are kept in this way with the
loop waiting for another: it then delivers nothing and reads no stop signal.

### Consumer

`loop[i]` is where the i-th loop ever started is: `check`, `get`, `consume` and
`failed` are `startConsumeLoop`, `error`, `report`, `read`, `hand` and `stop` the
selects and sends of `processDeliveries`. `hold` is the channel it has taken,
`hand` the delivery it is about to pass on. `stop[s]` is a call of
`StopConsuming`, which keeps `conLock` while it sends and flushes.

A delivery is a message with the `amqp.Channel` it came on. When that channel dies
(`Die`) the broker takes back what is unanswered, the buffered deliveries are
dropped, and the deliveries in anybody's hands lose their channel: answering
them fails (`AnswerCounts`), although the same message may be on another channel
by then. A closed delivery channel yields the zero delivery; after an error the
loop may take some before it looks at `chanHost.Errors`, after a cancellation it
takes nothing else.

Consumers of the service have a name, so their tag is the same on every channel.
A stopped loop gives its channel back with the subscription on it (`subscribed`);
`ConsumeFails` has what happens to the next loop that draws that channel, and
with it to all channels of the connection.

### RabbitService

`monitor`, `collector` and `handler` are `monitorForShutdown`,
`collectConsumerErrors`, and `processErrors` or its variant with a user's
function. `call[s]` is a call of `Shutdown`: the signal, the stop of the
consumer, the pool's cache, its connections. `Publisher.Shutdown`, the first
thing `Shutdown` does, is `StopAutoPublish` of `AutoPublisher`.

### Topologer

An entity is an exchange, a queue or a binding; `conf` holds the settings of each,
`topology` what exists at the broker, `made` how it was declared, by a build or
not, and for an exclusive queue by which connection (`owner`). A builder's
position `at` runs over `Plan`, the four loops of `BuildTopology` one after the
other: they differ only in the call they make. `Request` is one call on a
transient channel: the broker refuses or applies it, and the error comes back
unless `NoWait` was set; or the connection is lost under it, before or after the
broker has applied it. `CreateQueueFromConfig` rewrites the settings of a quorum
queue in the shared config (`Overridden`).

The pool gives each request any of its connections. An exclusive queue is refused
to all but its own (`Locked`); when that is lost, under a request or between two
(`ConnectionLost`), its owner is `Dead` and the broker deletes it in its own time
(`Expire`, which also deletes auto-delete queues). `BrokerRestart` deletes
what is not durable or is exclusive. Whatever is deleted takes along its bindings, and an
auto-delete exchange goes with the last binding from it; `Closure` is what goes
with a set, and `gone` remembers all of it for each builder.

A queue's messages are ready (`messages`) or wait for an acknowledgement
(`unacked`). `Deliver` gives some or all ready ones to a consumer, `Settle` is
their acknowledgement or their return to the queue. `PurgeQueue` empties only
`messages`, as its comment says. `old` marks the queues that still hold messages from
before the purge that no consumer has had since.

### Payload

Bytes are described by the text they were made from, whether it was marshalled,
how it is compressed and which key it is sealed with; `Compress`, `Decompress`,
`Encrypt` and `Decrypt` are what the functions do to that description, and to the
buffer when they fail: a decompressor that rejects its input has already taken
the head of it. The state machine has services that share one `RabbitSeasoning`,
whose key every new service may replace, and a reader who may try again.

`Publish` is the calls in which the service makes the letter, with its own
settings; `PublishLetter` is `PublishLetter` and `QueueLetter`, which send a letter
that the caller has made. The caller's options (`LetterOpts`) name the service's
`CompressionConfig` and `EncryptionConfig` or leave them nil, which is the default:
such a letter goes out in clear even if the service encrypts.

## 3. Runs

| Run | Shows |
|---|---|
| `host` | `OneLiveConnection`: the recompare under the lock keeps a second goroutine from dialling over a live connection. `WatchedConnection`: with the lock free, the host listens to the connection it holds. `RecoveryEnds`: the redial loop ends after the outage, so the lock is given back on every path. `VerifyReturnsWhenUp`: nobody is stuck on a host whose connection stays up. |
| `pool` | `ChannelsLent`, `ConnectionsLent` (refinement of `Loans`), `ExclusiveLoans`, `PutNeverBlocks`, `ErredChannelComesBack`, `TransientChannelServed`, `ShutdownReturns`. |
| `confirm` | `SuccessMeansStored`, `ChannelsAccountedFor`, `RepublishNeedsFault`, `CallReturns`. |
| `auto` | `AtMostOneLoop`, `LetterConserved`, `AttemptsBounded`, `NilOnlyAfterRestart`. `AcceptedLetterSettled`: with no stop, an accepted letter that can be sent is delivered or its retries are exhausted, and `StopEndsLoop`: a stop is obeyed, both unless publishes that never return have jammed the loop. |
| `consumer` | `AckableNeverLost`: a message that must be acknowledged is in exactly one place at the broker, and a late answer never settles a redelivered copy. `ChannelsComeBack`: on every path. `StartedWhileRunning`: `StopConsuming` reaches every loop, unless starts overlap. |
| `service` | `ErrorsReachHandler`, `ConsumerRecovers` (a dead channel is replaced), `ShutdownEndsLoop`, `ShutdownReturns` (two calls of it), `GoroutinesEnd`. The properties name the cases in which the code does strand a goroutine. |
| `topology` | `PrefixDeclared`: what a build has passed without an error is at the broker, unless nobody waited for the reply or it was deleted since, by another call or by the broker. `QuorumKept`: a queue that a build makes, configured as quorum without a table of its own, is a quorum queue. `PurgeRemovesOld`: a purge that waits for its replies and reports no error has removed the messages that were there before it and had no consumer since. |
| `payload` | `RoundTrip`: a letter is read back or, if the key was replaced, refused. `ConfiguredLettersSealed`: with encryption on, every letter that the service makes, or a caller makes with the service's `EncryptionConfig`, is sealed. `RereadIsSafe`: reading a buffer again after a failure yields the message or fails. |

Four runs end in a counterexample, because the code does not do what its
comments say:

| Run | The comment | The code |
|---|---|---|
| `host_outage` | connectionpool.go:95, outages "will pause here until cleared" | a connection lost between the redial and the flush leaves the flush loop receiving nil from the closed error channel for ever |
| `confirm_transient` | publisher.go:175, "If a nack occurs, it will republish" | it closes the channel before it waits, so the library's local nack makes it store the letter twice without any fault |
| `auto_retries` | rabbitservice.go:109, "retry publishing all failures" | `RetryCount` starts at 3, so with the repository's `MaxRetryCount` of 3 nothing is retried |
| `consumer_stop` | consumer.go:184, "signal stop to the consumer" | the third of three stops waits in the send with `conLock`, which the loop that took the first signal needs to end |

Seven more observations come from writing the models and have no run of their own.
`PauseOnFlowControl` returns one second after a `connection.blocked` frame while the
server still blocks (the server sends one frame per change; connectionhost.go:131
says it sleeps until the blocking has stopped). `ConnectionPool.Shutdown` closes
only the hosts it finds in the queue: one in a goroutine's hands, or redialled by
an erred channel afterwards, stays up (connectionpool.go:290 says it closes all).
`collectConsumerErrors` never ends when no consumer is configured, because it reads the
shutdown flag inside the loop over consumers. A quorum queue configured with a
table of its own is declared without `x-queue-type`, that is, as a classic queue;
`QuorumKept` therefore excludes it. A third call of `RabbitService.Shutdown` waits for
ever: `monitorForShutdown` takes one signal and the buffer holds one more; the
`service` run has two calls. `PublishWithConfirmation` of a letter the library refuses
to encode never returns: it looks at the timeout and the context only after a
successful send (publisher.go:139 says it returns an error if it fails to publish
within the timeout). Under the auto-publisher such letters can take all slots of
the semaphore, after which nothing is published and no stop is obeyed (`Jammed`).

### Bounds

The bounds below serve the liveness properties and found the invariants; every
safety property is also proved for any value of the constants (section 4).

- `ConnectionHost`: three dials let a connection be lost, recovered and lost
  again, so that a goroutine still in its first recovery meets the second one.
  The last dial is not lost, which makes the recoveries finite: `RecoveryEnds`
  and `VerifyReturnsWhenUp` speak of finitely many losses. The getter and one
  returner race for the lock.
- `ConnectionPool`: two users compete for one cached channel and two hosts, with
  Owner the third to ask for a host; one loss and one refusal reach every retry
  path.
- `PublishConfirm`: two calls on one cached channel is the smallest instance in
  which a channel returns to the cache, and dies in another call's hands, with
  a confirmation pending. `MaxCopies` saturates the counter: four is more than
  `RepublishNeedsFault` allows (three).
- `AutoPublisher`: every buffer has room for one, so that each can be full; two
  letters are the fewest that can wait for each other, and with a single slot
  one refused letter jams the loop while the other waits. One retry (RetryCount
  starts at 3, `MaxRetryCount` is 4), two loops and two stops give a retry that
  races a stop, and a stop signal left over for the next loop.
- `Consumer`: two channels and two loops let a message be redelivered on another
  channel and a loop draw the channel a stopped one left subscribed; a death, a
  cancellation and buffers of one reach every branch. Channels and stoppers are
  interchangeable. `consumer_stop` needs three stoppers: with two the property
  holds.
- `RabbitService`: one loop, one channel, two deaths and two calls of `Shutdown`;
  a second start is `Consumer`'s business. There are no messages: the zero
  deliveries of a closed channel fill `receivedMessages` as messages would.
- `Topologer`: two exchanges, two queues, a binding of each kind; two connections,
  since an exclusive queue looks different from another one; one lost connection
  or restart. A scenario sets the config and how many calls are made. In some,
  one element has an unusual setting, one or two builders build twice, and there
  is one other call, enough to delete what a builder has passed, or to declare it
  differently first. In another there are no builds but six other calls: two
  declarations, an arrival and a purge, and two more to deliver, delete, unbind or
  purge meanwhile.
- `Payload`: one text besides the empty one, since the module copies texts and
  never compares them with each other, and two keys, of which one replaces the
  other. The module is finite without further bounds.

`CHECK_DEADLOCK FALSE` appears where the system may stop: a pool that failed to
start or is shut down, a publisher or consumer whose loop has ended, a topology
that is built. `ConnectionHost`
and `PublishConfirm` are checked for deadlock.

### Fairness

- A goroutine that can run does run (weak fairness of its steps). A spin in the
  flush loop is not progress, so fairness does not claim that one ends.
- `sync.Mutex` hands the lock to a waiter starved for a millisecond, and Go
  channels and the queue serve their waiters in order: acquiring the lock and
  receiving from them are strongly fair. In `AutoPublisher` the monitor's
  sends and receives are strongly fair for the same reason, in `Consumer` the
  cache and `conLock`. `RabbitService` makes do with weak fairness: its few calls
  cannot starve each other.
- An outage ends and a dead connection finishes its shutdown.
- `PublishEnds` is weakly fair only while the pool is up, and disabled for a letter
  the library refuses: nothing makes those calls return.
- Nobody is obliged to call the library, to start or to stop it, and the broker
  is not obliged to answer: calls return because their timer fires.
- `TransientChannelServed` assumes that nobody shuts the pool down,
  `AcceptedLetterSettled` that nobody stops the publisher and that the loop is not
  jammed, `StopEndsLoop` of the publisher the latter, `ShutdownReturns`
  that users do not ask for transient channels for ever; each says so in its
  formula.

## 4. Proofs

Every invariant that a passing run checks, and both refinements of `Loans`, are
theorems, valid for every value of the constants that meets the assumptions
named in the modules: names are distinct, sizes and bounds are natural numbers
(positive where the code makes a buffer of that size), the plan of a topology
lists its elements, and the channel cache of `Consumer` is finite. TLC evaluates
the assumptions on every run. Each inductive invariant was an invariant of a TLC
run before it was proved.

The proofs have one form: a property is joined with what it needs to be
inductive, one lemma per conjunct (and per group of actions) says that steps
keep it, and a theorem combines them with the specification.

`ConnectionHostProofs`: `TypeCorrect`, `NoOrphanConnection`
(`Safety => []OneLiveConnection`) and `LossIsNoticed`
(`Safety => []WatchedConnection`), for any number of goroutines, dials, outages
and frames. Neither property is inductive: a step from a state where two
goroutines are at `dial` would break the first. The inductive invariant `IInv`
adds

- `LockInv`: a goroutine is in a critical section exactly when it owns `connLock`;
- `DialInv`: the goroutine about to dial has seen the connection closed, and it
  still is, since only the lock's owner can replace it and no connection reopens;
- `FreshInv`: no connection exists beyond the last dial, so a dial is new;
- `FieldsInv`: the fields agree unless a goroutine is between the assignment of
  `ch.Connection` and `NotifyClose`.

One lemma per conjunct says which steps keep it, and `Invariance` combines them.

`PublishConfirmProofs`: `TypeCorrect` and `ConfirmedIsStored`
(`Spec => []SuccessMeansStored`), for any number of calls, channels and faults.
The strengthening `StoredInv` says an attempt that is stored or acked has a copy
at the broker; it is what makes the ack a call waits for trustworthy after its
channel is in other hands.
`ChannelsReturned` (`Spec => []ChannelsAccountedFor`) rests on `HeldInv`: a channel
in use is out of the cache and belongs to one call, and a channel not in use is in
the cache; the property itself speaks only of the calls that have ended.
`RepublishesOnlyAfterFault` (`Spec => []RepublishNeedsFault`) rests on `CopyInv`, which
says that the copies at the broker are accounted for by the dead channels and nacks
so far and by the last attempt.

`TopologerProofs`: `TypeCorrect` and `BuiltOrReported`
(`Spec => []PrefixDeclared`), for any topology, settings, builders, connections, faults
and other calls, with what the broker deletes by itself recorded in `gone`
(`DeletedKeeps`: what leaves the topology is in `gone`). `PrefixDeclared` is inductive
with the types. The step that needs
care is a builder's own: `SilentRequest` says that a request without an error was
applied unless nobody waits, and `OverriddenSettings` that rewriting the shared
settings once more changes nothing, so that no element passed before becomes
awaited afterwards. `QuorumQueuesKept` (`Spec => []QuorumKept`) uses the same fact
about settings; it speaks of queues that a build made and that have no table of
their own. `PurgeIsComplete` (`Spec => []PurgeRemovesOld`) needs to know what a
purge has done before it ends: `PurgedSoFar` says that the queues it has passed
hold no message that is older than the purge and was never delivered since, and
that one which ended well has passed the last queue. It does not say that the
queues are empty: what waits for an acknowledgement stays and may come back.

`PayloadProofs`: `LettersReadBack` (`Spec => []RoundTrip`) and `LettersSealed`
(`Spec => []ConfiguredLettersSealed`), for any texts, passphrases, salts and costs,
of the service's letters and of callers' letters alike. `RoundTrip`
says nothing of how a letter came about; the inductive invariant `LetterSealed`
adds that its body is what `ToPayload` makes of its input with the options and the
key it remembers, and that the other settings have not changed. `Unpacked` and `Opened`
say that decompression undoes compression and that the sealing key, and no other,
opens. `RereadingIsSafe` (`Spec => []RereadIsSafe`) adds
`BufferInv`: after a failure the buffer is the untouched body, or it is a wreck on
which the reader's own read fails again.

`AutoPublisherProofs`: `TypeCorrect`, `OneLoopAtATime` (`AtMostOneLoop`),
`NilNeedsRestart` (`NilOnlyAfterRestart`), `RetriesBounded` (`AttemptsBounded`) and
`NoLetterLost` (`LetterConserved`), for any letters, loops, stops, buffer sizes and
retry limits. The inductive invariant is

- `MonitorInv`: `processPublishReceipts` has a letter exactly while it works on a
  failure, and no more goroutines wait to send a stop than stops were called;
- `LoopInv`: `autoStarted` covers the whole life of a loop, so at most one is
  alive; a letter is in a loop's hand only between its receive and its publish,
  and if `pub.letters` is closed then a loop has reached its end;
- `LetterInv`: a letter whose fate is open is in one place, where the places are
  the queue, a loop's hand, a publishing goroutine, a receipt and the monitor;
  `RetryCount` counts its publishes, and it waits for another one only if
  `RetryCount` permits.

`LetterInv` is what both remaining properties come from: the count bounds the
attempts only because a second copy of the letter cannot count as well.

`ShelfTheorems` has the lemmas about sequences without repetitions that the next
two modules use for queues and caches: what appending, taking the head and
taking the first few do to the set of elements, and that such a
sequence over a finite set is no longer than the set is large.

`ConnectionPoolProofs`: `TypeCorrect`, `LoansAreExclusive` (`ExclusiveLoans`),
`ReturnNeverBlocks` (`PutNeverBlocks`), and the refinements `ChannelsAreLent`
(`Spec => ChannelsLent`) and `ConnectionsAreLent` (`Spec => ConnectionsLent`), for any
numbers of users, hosts, channels and faults. The invariant says of channels and
of hosts alike (`Exclusive`) that shelf and hands are disjoint and hold nothing
twice; `Building`, `HostsMade` and `ChansMade` say which items exist while
`NewConnectionPool` still works, without which an item it makes might already be on
the shelf; `LabelInv` says which step of the code a goroutine with an item in its
hands can be at. That a return never blocks follows by counting: a channel in a
hand is not in the buffer, so the buffer has room for it. The refinement is shown
step by step. Every action is, for the mapping `Place`, one of four moves or leaves
`Place` alone, and one lemma per move (`LendMove`, `GiveBackMove`, `StockMove`,
`RetireMove`) says which action of `Loans` it is.

`ConsumerProofs`: `TypeCorrect`, `StartedIsTrue` (`StartedWhileRunning`),
`ChannelsReturned` (`ChannelsComeBack`) and `NothingAckableLost` (`AckableNeverLost`) of
the consumer alone, for any messages, channels, loops, stoppers and faults. The
inductive invariant is

- `DeliveryInv`: what is buffered or in a hand is a delivery of a message or the
  zero delivery of a closed channel;
- `StartInv`: while starts do not overlap, `started` covers the life of a loop;
- `HoldInv`: a channel is in the cache or held by one loop, and a loop holds one
  exactly at the steps between `GetChannelFromPool` and `ReturnChannel`;
- `BrokerInv`: a message is ready, unanswered on one channel, or settled;
- `CopyInv`: of a delivery there is at most one copy at the client, and only while
  the broker waits for its answer. Without it a second copy could answer after
  the message has gone back to the queue.

`ChannelsReturned` also needs `Covered`, that no channel is anywhere else.
The same invariant holds of the service: each step of its goroutines and of
`Shutdown` keeps it (`ServiceInvariance`), so `ShutdownLosesNothing` and
`ShutdownSeesLoop` state `AckableNeverLost` and `StartedWhileRunning` of `ServiceSpec`,
which the `service` run, without messages, does not check. `Covered` does not carry
over: `Shutdown` takes channels out of the cache and closes them.

Only model-checked: the properties that hold under fairness, that is all liveness
(`RecoveryEnds`, `VerifyReturnsWhenUp`, `ErredChannelComesBack`,
`TransientChannelServed`, both `ShutdownReturns`, `CallReturns`,
`AcceptedLetterSettled`, `StopEndsLoop`, `ErrorsReachHandler`, `ConsumerRecovers`,
`ShutdownEndsLoop`, `GoroutinesEnd`), since the proof system does not reason about
`ENABLED`; and the four counterexamples.

## 5. Abstractions

- Sleeps, error handlers and log messages have no state and are left out; TLS
  and dial options only decide whether a dial succeeds.
- `ConnectionPool` takes `verifyHealthyConnection` as one step. The endless
  flush loop (`host_outage`) is therefore not in it: its liveness properties
  hold of the pool up to that defect.
- The flag of a host, set and cleared by goroutines without the queue, is
  modelled in both modules; the pool's own maps are under a lock in the code.
- The amqp library, the broker and the queue `connections` (a third-party queue)
  are external, modelled from how the code uses them.
- "Stored" in `PublishConfirm` means accepted by the broker with an ack. RabbitMQ
  also acks a letter that no queue is bound for: routing is not modelled.
- A publishing goroutine in `AutoPublisher` is one step; which errors it can
  return is `PublishConfirm`'s business.
- One consumer on one connection stands for all: consumers share only the pool,
  and each is stopped and drained by itself. With an empty `ConsumerName` the
  library makes unique tags and the refused tag cannot happen. `NoWait` of a
  consumer, which hides refusals, is not modelled.
- `shutdown` is read without a lock by the service's goroutines; each read sees
  the old or the new value.
- In `Topologer`, consumers exist only through what they do: an auto-delete queue
  may lose its last one at any time. All messages of a queue with the same state are
  one. An unbinding or deletion takes effect or has no effect.
- In `Payload`, a caller's letter uses the service's settings or none. One that was
  made before a key was replaced and is sent afterwards is, for the properties,
  the letter that was sent when it was made.
- GCM authenticates: only the sealing key opens. No text is itself a gzip stream,
  a zstd frame or a sealed message. zstd writes nothing for no data. A failed
  decompressor is taken to have consumed the head of the buffer, which gzip
  always does and zstd does with large buffers.
- `RabbitService.Publish` and `PublishWithConfirmation` do not use their `headers`
  argument; headers are not modelled.

## 6. Not modelled, and the plan

Every component with state is modelled. Left out: the configuration structs that
are only constants here and the JSON files they are read from (pure I/O; a file
that cannot be read yields an empty configuration without an error), the
timestamps, the setters of `LetterOpts`, and a user-supplied receipt handler.

The planned proofs are complete. Worth adding next: safety theorems about the
service's own goroutines (`RabbitService` is checked for liveness only, apart from
what it inherits from `Consumer`), and lemmas that reduce the liveness properties to
one fairness step each, as far as they can be stated without `ENABLED`.
