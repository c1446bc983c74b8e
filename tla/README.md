# ipV4Proxy: TLA+ models, checks and proofs

The repository is a Go proxy server. It accepts TCP connections on its listeners,
speaks HTTP proxy or SOCKS5, authenticates each client against Redis, limits the
connections per local address and the bytes per user and address, forwards to the
target, reports accesses to RabbitMQ, and takes orders (disconnect a user, delete
or set an account, replace the blacklist) from RabbitMQ and limits from Nacos.

## 1. Inventory

| Component | State | Operations | Talks to |
|---|---|---|---|
| manager (`server/manager.go`) | `ipConnCountMap` (address → count), `userCtxMap` ("user:ip" → shared `connContext` with a reference count, a cancel function and a limiter), `blackMap`, `isRun` | `AddIpConnCount`, `ReduceIpConnCount`, `addUserConnection`, `deleteUserConnection`, `CloseUserConnections`, `SetBlackMap`, `Start`, `Stop` | every handler and consumer, through maps that lock per shard |
| accept loops (`tcp_server.go`, `tcp_conn_handler.go`) | a WaitGroup per loop, two goroutines per connection | accept, close the connection when the context is done, wait | handlers, task manager |
| HTTP and SOCKS5 handlers | program position, `connCtx`, and per session: two copies, a sniffing goroutine, `domainPointer`, `errCh`, `byteChan`, `done` | read, `Valid`, admit, blacklist test, dial, register, relay with its 30s ticker, deferred clean-up | both registries, limiter, send queues |
| `ReadWriterNotice` (`sniffing/conn.go`) | `isStart`, `isNotice`, the kept upload | `Read`, `Write`, `Close` from three goroutines | the sniffing goroutine, through `byteChan` |
| consumers (`rabbitmq_consume.go` and one file per queue) | a connection, a nested task manager, a channel and a loop per queue | dial, restart, handle, Ack/Nack | broker, Redis, `userCtxMap`, `blackMap` |
| kick consumers (`rabbitmq_disconnect_consume.go`, `rabbitmq_delUserData_consume.go`) | a walk over `userCtxMap` in progress | pop and cancel contexts, Redis DEL | `userCtxMap`, Redis |
| remote configuration (`nacos_config.go`) | the configuration pointer | store it, walk `userCtxMap` and update every limiter | Nacos, `userCtxMap`, limiters |
| flow limiter (`flow_limit.go`) | rate, burst, remaining burst, 8 shards of flow | `GetReadSize`, `Read`, `UpdateParameter` | shared by all sessions of one context |
| send queues (`rabbitmq_product.go`) and `MQueue` | linked list, status, count, condition variable, node pool | `Enqueue`, `DequeueFunc`, `Close` | handlers produce, 4 goroutines per queue consume |
| task manager (`taskConsumerManager`) | context, WaitGroups, a token channel per task | `AddTask`, `Stop` | runs the accept loops, the consumers, the configuration loop |
| RabbitMQ pool (`rabbitMQPool.go`) | producing: a ring of connections, cached channels, one lock; consuming: shared connections, tasks, a failure signal | `Push` with reconnection and retries; `RunConsume`, `consumeTask`, `retryClient.Push` | called by the queue handlers; the broker |
| TLS and SOCKS5 parsing, AddUserData, channel queue, atomic/chan tasks, HTTP helpers, gRPC, config, logging | – | – | see section 8 |

What is hard here: contexts shared by sessions that come and go while kicks pop
them; counts that must survive a dozen early returns; walks over a map that is
changing; sessions whose four goroutines end each other through closes, flags and
channels; acknowledgements against crashes and redelivery; a shutdown in which
blocked reads, accept loops, consumers and queues must end in the right order; a
condition variable whose test and wait are apart; budgets read outside their lock.
`PROJECT.json` lists each hazard at its line with the properties that would catch
it going wrong. Two more are true of the code and carry no property: the
consumers' broker URL has its arguments in the wrong places
(`src/server/rabbitmq_consume.go:16`); `setNacosConf` stores a pointer under a read
lock. (The reads of the SOCKS5 negotiation have deadlines of 2s,
`src/utils/socks5/func.go`, the first read of a connection has none; the model assumes
none of either.)

## 2. Modules

| Module | Models | Composition |
|---|---|---|
| `ProxyManager` | manager, accept loops, handlers, kick consumers, accounts and blacklist, Stop | the core; composes these components in one state |
| `RelaySession` | what `ProxyManager` takes for granted of one session after its dial | abstract specification |
| `ProxyRelay` | one session with all its goroutines, `ReadWriterNotice`, the sniffing goroutine | implements `RelaySession` (`INSTANCE ... WITH phase <- Phase, ...`) |
| `RemoteConfig` | the configuration loop and the map it walks, shard by shard, with handlers and a kick | refines the grain of `ProxyManager`'s walks and upserts |
| `Consumers` | broker, supervision, the consumers' loops and acknowledgements | their effect on the registries is `ProxyManager`'s |
| `MQueue` | the send queue and its consumers | implements `FifoQueue` (`INSTANCE ... WITH q <- queued`) |
| `FifoQueue` | what a queue promises | abstract specification |
| `FlowLimit` | limiter and readers | the readers are the copies of `ProxyRelay`; `UpdateParameter` is what `RemoteConfig` calls |
| `TaskManager` | `AddTask` runners, tokens, workers, Stop | `ProxyManager` and `Consumers` use its guarantee (restart until cancelled, Stop waits) |
| `RabbitPool` | the producing pool under the send queue handlers | its `PushReturns` is what `MQueue` assumes of a handler |
| `ConsumePool` | the consuming half of the same pool | instantiated by `MCRabbit` |
| `MC*` | parameter sets, symmetry, bounds | extend the above |
| `*Proof` (8) | inductive invariants, lemmas, theorems | extend their module and TLAPS; `RabbitPoolProof` and `TaskManagerProof` extend the MC module that composes two, and `TaskManagerProof` instantiates `RemoteConfigProof` |

Two MC modules put two specifications side by side, as the two sides of one
choice: a pool belongs to a producer or to a consumer (`clientType`), so a behaviour
of `MCRabbit` is one of `RabbitPool` or one of `ConsumePool`; a behaviour of
`MCTaskManager` is one of `TaskManager` or, with no other task added, one of
`RemoteConfig`, the task it keeps running for Nacos. The side that is not taken stays
in one initial state, so that the state spaces add up and do not multiply.

### ProxyManager

A session is one accepted connection; `pc[s]` follows its handler:
`idle → read → admit → target → dial → relay → report → join → release → ret → done`.
The last four are the deferred calls in the order Go runs them: close both ends
and report the access; wait for the copies and `deleteUserConnection`;
`ReduceIpConnCount`; the outer goroutine's `conn.Close` and `wg.Done`. Each early
return of the code is a jump to the deferred call it has reached: `ret` before
`AddIpConnCount`, `release` before `addUserConnection`.

* Maps. `Upsert`, `RemoveCb` and `Pop` hold the key's shard lock while their
  callback runs, so each is one action. A `connContext` is named by the session
  that created it, so pointer comparison is equality of names.
* Kicks. `Iter()` takes a snapshot of each shard at its own moment; `scan` holds
  the keys still to be read and `todo` the keys read (or named by the message) and
  still to be popped. `named` is the user of the message. `victims` is a history
  variable: the contexts registered for that user when the walk (or the pops) began.
  DeleteUserData first deletes the account (`del`): `DelThenWalk`, or `DelError`,
  after which it returns without a walk, the account gone or not, and the message is
  not delivered again.
* User names. A key is the text "user:ip" and a walk compares what stands before its
  first ':' with the message's user. `FirstField` gives that part of each name, so a
  walk's keys are `MatchingKeys`, not the user's own (`UserKeys`). HTTP credentials
  must split into two fields, so only SOCKS5 sessions have names with a ':'
  (`Clients`). Text and pair name the same keys: what follows the last ':' is the
  address, which is IPv4 here.
* Accounts. `accounts` is the set of user/address pairs Redis would accept. `Valid`
  is one round trip; it may also fail.
* Stop. `run → flag → closed → cancel → stopped`: the statements of `manager.Stop`.
  An accept loop may still take a connection between `flag` and `closed`.
* Blacklist. `blackMap` is the set of domains the current list matches (equality or
  substring), so the match itself is abstracted.
* Each accept loop stands for one `tcpAccept` copy with one listener. With several
  listeners a copy restarts only when all its loops have returned, which the model's
  independent restarts include.

Inputs (who connects to which address with which protocol, and which loop accepts
it) are chosen in the initial state. Targets, sniffed domains, configuration values
and messages are chosen when they occur.

### ProxyRelay and RelaySession

One connection after its dial, `kind` telling the three ways through the two
handlers apart: a plain HTTP request (forwarded by the handler itself, with a
goroutine beside it that closes the target when the context is done), a tunnel to a
name, a tunnel to a bare address. The last one wraps the client connection in
`ReadWriterNotice` and starts the goroutine that looks for a domain. Every atomic
flag, critical section, channel operation and I/O call is a step: `isStart` is tested
at the beginning of a Read and a Write, `isNotice` is tested before the lock that the
append takes (`UpRead`/`UpAppend`), and set before the lock that hands the buffer
over (`DownNotice`/`DownTake`), with `Close` between any two of them
(`CloseDone`/`NoticeForget`/`CloseConn`). The deferred calls keep the order of the
code, `Join` being `wg.Wait` and what follows it.

Uploaded chunks are numbered while they may be kept; `need` is how many of them the
parser must see to find the name, which is all that is kept of the ClientHello and
HTTP parsing. `heard` is a history variable: how much the target had been sent when
it first answered. `Phase` maps the handler's positions to `RelaySession`, whose
phases are `ProxyManager`'s `dial`, `relay`, `report`, `join`, `release`.

### RemoteConfig

`Upsert` takes two steps here, because its callback reads the configuration and
creates the limiter before the entry is written, under the shard's lock. `Iter` is
one copy per shard, each under its lock, in any order (lock, fill and unlock in one
step, as the channel filled is as large as the shard); the loop starts when all
shards are copied and takes the tuples of all channels in any order. A kick's loop
pops from the map it walks. `MayLock` and `MayRLock` are the conditions of the locks.

### Consumers

Two queues, one of each kind: SetUserData, acknowledged after its Redis script, and
Disconnect, acknowledged by the broker when it sends; the other two queues are
consumed like the latter. Messages are numbered in the order they are published,
which is their place in the queue: RabbitMQ puts a requeued message back to it.
`queue` and `unacked` are therefore sets, the broker's; `inbox` is the sequence of what
the client has received and not handled. No `Qos` is set, so the broker sends all it
has, in order (`InOrder`). A channel or connection dies at the broker first (`Drop`)
and the client notices in a later step; what is unacknowledged goes back to the queue. `Crash` ends the process and
starts it again; the broker and the data in Redis stay. A script may fail before or after
it ran. Redis may lose its scripts, not its data (`ScriptsLost`): then every EvalSha of the
SHA that `init` loaded fails, until a restart of the process loads it again (`script`).
`calm` marks the moment after which the surroundings no longer fail; that it comes is
not assumed, it is the premise of the liveness properties.

### MQueue

One step per critical section of `recvLock`: `Enqueue`, `Close`, `dequeue` (found or
empty), the re-check and wait. `DequeueFunc` with `fn` always false is `DequeueWait`.
The pool hands out any free node, so a node may be reused at once. `items` and `out`
are history variables.

### FlowLimit

One step per lock or atomic operation of `Read` and `GetReadSize`. Bytes are counted,
not stored. `GetReadSize` reads `readRate` without `wMutex` at up to four places, each
in a step of its own: the comparisons with the shard (`Grant`) and with the data
(`GrantData`), the subtraction (`ChargeRate`) and the `return` (`ReturnRate`). A compiler
may keep one load for those with no store between them; its executions are among
these. `CallerSize` is the length of the slice a copy passes to `Read`, longer than the
buffer (`io.Copy`'s is 32KB). `granted` counts what was charged to the shards in
the current second; `steady` is a history variable, true until the first
`UpdateParameter`.

### TaskManager

One runner per `AddTask`, a token count for the channel, workers that give back
their WaitGroup share and then their token, in the code's order.

### RabbitPool and ConsumePool

`RabbitPool` has one `rPush` per worker, a step per point where it can be overtaken:
taking `channelLock` (with the choice of the next connection and the test whether it
is closed), each dial, the 2s wait before the next one, the channel, the publish. A
channel dies with its connection, so a cached channel is `none`, `open` or `closed`,
and a worker may hold one that closes in its hands. A message is the name of its
queue. `loss` and `redialer` are history variables. `Publish` returns nil when the
channel took the bytes: without confirms the code cannot know more, and neither does
the model. Different cache keys are assumed to have different CRC-32 values. No channel
dies on a live connection: a publish to the default exchange, without declarations,
gives a healthy broker no cause to close one. (`ConsumePool` and `Consumers`, whose
channels declare queues and acknowledge, have such losses.)

`ConsumePool` has one receiver with its tasks on the shared connections. A task that
ends closes the connection it shares (`CloseShared`), as the code does;
`setConnectError` is its lock, its test of `status` and its send on the unbuffered
`errorChanel`, in steps of their own; the monitor receives, marks, dials and starts
new tasks beside the ones that survived. A nil error from `NotifyClose` is
dereferenced by the code: the model's `panicked` ends the process. One message is
followed through its retries, with the count in its header.

## 3. Runs

| Run | Instance | Checks |
|---|---|---|
| `ProxyManagerKick` | 3 SOCKS5 sessions: of one user on 2 addresses, or on one address under the names "u" and "u:x", Disconnect alone; or under one key, Disconnect and DeleteUserData together, accounts set again | `RefCountExact`, `Reachable`, `KickComplete`, `OnlyKicksInterrupt` |
| `ProxyManagerAdmit` | 3 sessions, CONNECT, plain HTTP and SOCKS5, limit moving between 1 and 2 | `IpCountExact`, `IpLimit` |
| `ProxyManagerLive` | 2 SOCKS5 sessions, Disconnect, moving blacklist, Stop, fairness | `NoRecordLost`, `CleanStop`, `StopCompletes`, `CancelledSessionEnds` |
| `ProxyRelay` | the three kinds, 2 kept chunks, two events around it, fairness | `SniffSeesForwarded`, `NothingLeft`, refinement `ImplementsSession`, `RelayEnds`, `BlacklistReachesTunnel` |
| `MQueue` | 4 values, 4 nodes, 2 handlers, fairness | `ListShape`, `DrainedOnExit`, refinement `ImplementsFifo`, `AcceptedIsHandled`, `CloseEndsConsumers` |
| `FlowLimit` | 2 readers, 2 shards, 2 seconds, a first burst below, at and above the number of shards, one update between the last two, one rate, fairness | `TwoBursts`, `StreamIntact`, `NoOverdraft`, `BufferDrains` |
| `FlowLimitRace` | rate updated under 2 readers | **violated**: `WithinBuffer` |
| `RabbitPool` | 2 workers, 2 queues, 2 connections, 2 tries; or 2 tasks on one connection, 2 faults, 2 retries; fairness | `ReconnectFreshForOwnQueue`, `DropHasCause`, `PushReturns`; `LockReleased`, `RetriesBelowMax` |
| `RabbitPoolStale` | the producing side | **violated**: `ChannelsOfTheirConnection` |
| `Consumers` | 2 SetUserData messages, the first one empty or unparsable, and a kick; all faults, lost scripts while there is no kick; fairness | `NoSetLost`, `KickLossHasCause`, `StaleOnlyAfterReturn`, `Supervised`, `QueuesSettle` |
| `ConsumersScript` | one SetUserData message, all faults, fairness | **violated**: `SetsSettle` |
| `TaskManager` | a group of 2 copies and one of 1; or the configuration loop and a kick over 2 sessions, 2 keys, 2 shards; fairness | `AtMostCount`, `StopWaits`, `KeepsRunning`, `StopReturns`; `ConfigReachesAll`, `WalksEnd` |

The three violations are findings:

* `FlowLimitRace`: `GetReadSize` compares and charges with one value of `readRate`
  and returns a second read of it (line 144). If `UpdateParameter` raised the rate in
  between, `Read` takes more than its buffer holds, against its comment at line 205:
  stale bytes are passed on, and the stream then ends or the slice panics.
* `RabbitPoolStale`: when a closed connection is dialled again, only the channel of
  the queue whose message found it closed is dropped from the cache
  (`src/utils/rabbitMQ/rabbitMQPool.go:808`). The other queue's dead channel stays
  under the new connection, against the comment at line 413, and every publish on it
  fails until that connection is lost again. Once all connections are in that
  state, each message of that queue is tried `pushMaxTime` times, 2s apart, and
  dropped with the broker up. `DropHasCause` says that nothing else, apart from a
  connection lost during the push, makes a push fail.
* `ConsumersScript`: the SHA of the SetUserData script is loaded once, in `init`
  (`src/server/lua/SetUserDataLuaScript.go:31`), which panics if the script did not get
  into Redis. When Redis is restarted, fails over or has its scripts flushed later, every
  EvalSha fails with NOSCRIPT (`src/server/rabbitmq_setUserData_consume.go:108`), the
  message is requeued and redelivered at once, and this goes on until the server is
  restarted. `QueuesSettle` says what still gets through: what cannot be parsed, the other
  queues, and everything when the script is there.

Two more disagreements are in the models and have no run of their own:

* A walk for a user whose name holds a ':' finds no key, and one for the part before
  the ':' ends that user's sessions (`src/server/rabbitmq_disconnect_consume.go:95-98`,
  where the comment says it tests for the username). `KickComplete` therefore claims
  nothing of such a walk, and `OnlyKicksInterrupt` allows it the sessions of those
  names and no others. Disconnect with addresses pops the right keys.
* `retryClient.Push` counts the retry in a map of its own and publishes the headers it
  was given (`src/utils/rabbitMQ/rabbitMQPool.go:131`), so the count never grows and
  `MaxReTry` (line 178) is never reached: with `Callback = {"push"}` TLC finds
  `RetriesBelowMax` violated. The other retry, in `consumeTask`, publishes the count, and
  the run and the theorem are about it. The program uses neither.

`TwoBursts` is the bound the limiter keeps, where the comment on `readBurst`
(`src/server/flow_limit.go:23`) says one burst: shards that are full when a second
begins and the burst they are refilled from may both be granted in it.
`StaleOnlyAfterReturn` says the same kind of thing of SetUserData: the code does
let an older message replace a newer one, and this is the only way it can.

### Bounds

* `ProxyManager`: two sessions show every pairwise interleaving at a registry; the
  third is there for a leaving session of a popped context, a session of its successor
  and one that joins. Two keys in use (`FewClients`), two addresses of one user or two
  names on one address, give a walk one to read before and one after a change.
  `OneWalk` (an action constraint) keeps accounts fixed and the walk single when two
  keys are in use, lets two walks overlap when one is, and has a walk read the keys
  nobody uses first. `WalksOnly`: in the liveness run messages name no addresses. Limits 1 and 2 are the fresh-entry and the at-the-limit
  case.
* `ProxyRelay`: at most two events among a shutdown, a kick, a peer hanging up and
  the domain's being listed (`Events`), so every pair races; two kept chunks, so that
  the parser may need one or both, and the buffer may be short of a chunk.
* `MQueue`: four values and nodes let a queue grow to 2 and more, empty and reuse
  nodes.
* `FlowLimit`: two shards instead of 8, a 3-byte buffer and `MaxClock` 1 give
  carry-over, exhaustion and a new second; bursts 1, 2 and 6 give a share of nothing,
  one and several bytes. `OneUpdate`: the burst is updated once, between the two
  larger ones. One rate: `FlowLimitRace` is what a second one does. `CallerSize` 5 is
  above the buffer, as in the code.
* `RabbitPool`: two connections, two queues and two tries show a retry that moves to
  another connection, one that meets a stale channel and one that gives up. On the
  consuming side (`Bounded`) two failures, the second one after the reconnection from
  the first; tasks start in order.
* `Consumers`: two SetUserData messages are an older and a newer one; the first one
  cannot be parsed, or has no address and is requeued for ever. The number of faults
  is not bounded. `KicksOrNoScript`: scripts are lost only while there is no kick, whose
  consumer does not use them.
* `TaskManager`: a copy that waits for another one's token and one that cannot wait;
  one worker more than may run. `RemoteConfig`: a session that registers in a shard
  already copied and one not yet copied, or both in one key.

Symmetry is used on sessions and readers, in safety runs only. `CHECK_DEADLOCK FALSE`
stands where the system may stop: the two pools' and the task manager's runs, whose
sides end, panic or are stopped.

### Fairness

* Sessions in `ProxyManager`: weak fairness on the steps that wait for nobody or are
  bounded by a deadline (Redis, the 10s dial, the 30s ticker, closing and joining), and
  on a read whose connection was closed; that the join of a session's copies ends is
  what `ProxyRelay` shows from its goroutines. A read from an open connection, a
  copy's end and an arriving target get none: a peer may stay silent.
* `ProxyRelay`: goroutines are scheduled, and every Read and Write of the relay ends
  because `newConn` gives each a deadline of 180s; an error is therefore always one of
  its outcomes. The Write that forwards a plain request has no deadline and no
  fairness (`ForwardOk`): before registration only the shutdown ends a session whose
  target does not read, which is what `RelayEnds` claims of it.
* Accept loops: only a closed listener makes `Accept` return.
* Consumers: goroutines are scheduled and pauses end; strong fairness for leaving a
  loop (`Leave`, the kick consumers' exit), because Go's `select` picks at random among
  ready cases, so `ctx.Done` cannot be passed over for ever.
* Queue handlers: they are scheduled and a push returns. The latter needs a broker
  that can be reached: the producer pool retries for ever while it cannot, and then
  Stop hangs until the forced exit of `main`. `StopCompletes` and
  `CloseEndsConsumers` are stated under that assumption.
* Producer pool: workers run; strong fairness on taking the lock, because Go's mutex
  serves a waiter that starves, and on a successful dial, which is the assumption that
  the broker is not unreachable for ever. Consuming side: a task's signal and the
  monitor, nothing of the broker.
* Limiter: readers are scheduled, and each gives its shard's lock back by a step of
  its own. The clock gets none: a reader that finds nothing left waits 33ms and takes
  a byte (`Forced`).
* Tasks return once their context is done (`StopCompletes` shows it for the accept
  loops, `Supervised` for the consumers, `WalksEnd` for the configuration loop).
* `RemoteConfig`: a callback of `Upsert` returns, each shard's copy, the two loops.

## 4. Proofs

Eight modules prove their theorems for every value of the constants, under the
assumptions named in the model (`ASSUME`, evaluated by the runs) and those named
below.

| Module | Theorems | Properties of the runs |
|---|---|---|
| `ProxyManagerProof` | `ManagerTyped`, `AddressCount`, `AddressLimit`, `RegistryExact`, `SessionsReachable`, `KickCancelsAll`, `OnlyKicks`, `RecordsKept`, `StopIsClean` | `IpCountExact`, `IpLimit`, `RefCountExact`, `Reachable`, `KickComplete`, `OnlyKicksInterrupt`, `NoRecordLost`, `CleanStop` |
| `MQueueProof` | `QueueSafe`, `QueueDrained`, `QueueIsFifo` | `ListShape`, `DrainedOnExit`, `ImplementsFifo` |
| `RabbitPoolProof` | `PoolTyped`, `ReconnectFresh`, `DropsExplained`, `NobodyKeepsTheLock`; of `ConsumePool` `RetriesCounted`, `NoSignalDeadlock` | `ReconnectFreshForOwnQueue`, `DropHasCause`, `RetriesBelowMax` |
| `TaskManagerProof` | `TasksTyped`, `CopiesBounded`, `StopWaitsForAll`, `StoredConfigReachesAll` | `AtMostCount`, `StopWaits`, `ConfigReachesAll` |
| `FlowLimitProof` | `LimiterTyped`, `NeverOverdrawn`, `StreamKept`, `BurstBound` | `NoOverdraft`, `StreamIntact`, `TwoBursts` |
| `RemoteConfigProof` | `ConfigArrives` | (`ConfigReachesAll` of `RemoteConfig` alone) |
| `ProxyRelayProof` | `NothingStays`, `IsASession`, `SnifferSees` | `NothingLeft`, `ImplementsSession`, `SniffSeesForwarded` |
| `ConsumersProof` | `SetDataNotLost`, `OrderKeptBetweenReturns`, `KicksReachTheirHandler`, `NothingForgotten` | `NoSetLost`, `StaleOnlyAfterReturn`, `KickLossHasCause` |

So every invariant and every action property of the runs, and both refinements, are
proved. Temporal properties are not; for three of them the part that is about states
is (`NothingForgotten`, `NobodyKeepsTheLock`, `NoSignalDeadlock`).

**ProxyManager.** The inductive invariant `IInv` is `TypeOK` and one part per piece
of shared state:

* `IpInv` is inductive as it stands; the steps use that adding or removing one
  element changes a finite set's cardinality by one.
* `RegInv` adds `CtxShape` to the two registry properties: sessions share a context
  only under one key, an entry belongs to its own key, and nobody has seen the
  context of a session that has not registered. Without it a new context could
  collide with an old one, or an entry could be reached from two keys.
* `KickInv` generalises `KickComplete` to a walk in progress: a victim is cancelled,
  or still registered under a key the walk has ahead of it (`VictimsAhead`), which a
  name without ':' has among its `MatchingKeys`. Keeping it needs `RegInv` (an entry is
  replaced only after it was popped, which cancels it) and `KickShape`: every
  key a kick has ahead is its user's or has that name before the ':', which is also what
  `OnlyKicks` rests on.
* `StopInv`: a loop that returned has no handler left, and Stop has not closed the
  queues before every loop returned; so a handler that reports finds them open.

Frames (`IpQuiet`, `RegQuiet`, `KickQuiet`) say what a step must leave alone for a
part to survive, so that each action is examined only for the parts it disturbs.

**MQueue.** `QueueSafe` is `TypeOK`, `ListShape` and `NoLostWakeup` together, which no
one of them is inductive without. In the refinement of `FifoQueue` an `Enqueue` is a
`Put`, a `Dequeue` a `Take`, everything else a stutter or `Close`.

**RabbitPool.** Whoever dials holds the lock and has emptied its cache entry
(`LockInv`, `DialInv`), and a Push that has lost no connection and yet failed an
attempt can point to a stale entry that is still there (`CauseInv`): such an entry
goes away only when its connection is lost. `NobodyKeepsTheLock` is the safety half of
`PushReturns`: whoever has `channelLock` stands between Lock and Unlock, whichever error
or new attempt brought it there.

**ConsumePool.** `ConsumeInv`, over the instance `MCRabbit` makes of it, for any number
of tasks, connections and failures. `RetryInv`: one task at a time has the message, and
its header counts its publications and the one under way (`HeaderCounts`) and stays
below `MaxReTry` (`CountBelowMax`). `HeaderCounts` fails as soon as a callback may publish
the message itself, so `RetriesCounted` assumes that none does. `SignalInv`: the task that has `statusLock` is
about to send or has sent, and while the monitor reconnects with nobody in the lock
`status` is set, so that no task takes it: hence `NoSignalDeadlock`, the safety half of
`LockReleased`.

**TaskManager.** `TokensPaid`: every goroutine that has not given its token back, and
the one a runner has paid for and not started, are paid out of the channel, which
bounds the copies by its capacity. `NoneLeft`: a runner returns after its WaitGroup, so
it leaves no copy, and Stop waits for the runners. `WalksBehave`: the composition of
`MCTaskManager` does what `RemoteConfig` alone may do, so that `ConfigArrives` carries
over to it (`StoredConfigReachesAll`).

**FlowLimit.** Four invariants, each on top of one before. `TypeInv` needs that a
reader inside `GetReadSize` has data, and `LockInv`, that no two readers are in one shard,
so that a shard is still as the reader left it when it reads the rate again; it holds
whatever the rate does, and allows a shard to be overdrawn, which a rate that rises
between two of the reads brings about. `RateInv`: under one rate (`OneRate`), or before the
first update, what a comparison has found still holds at the charge, so no shard is overdrawn
(`Undrawn`). `StreamInv`: a size about to be returned is within the buffer; it needs
`OneRate`, and `FlowLimitRace` shows that it does not hold otherwise. For the budget
(`BurstInv`), flow is counted as a set of tokens, one per byte that lies in a shard, so that a
refill and a charge change a cardinality, and what was granted, what lies in the
shards and what is left of the burst together never exceed two bursts.

**RemoteConfig.** `Ahead` says where a limiter with old parameters may still be: in a
shard the walk has not copied, or in a tuple it has not taken. A session in the
callback of `Upsert` holds its shard's lock, so its stale limiter is in an uncopied
shard. `ConfigArrives` assumes `Setting`: every key has a shard and `NoCtx` is no
session.

**ProxyRelay.** `Lifetimes`: the goroutines start after the dial and have ended when
the handler releases; `DomainOpen`: a sniffing goroutine finds its domain unknown.
From them every step is a step of `RelaySession` or leaves `phase`, `dom` and `busy`.
`KeepInv` is about the kept upload: the buffer is the prefix of the upload up to the
chunk in the copying goroutine's hands (`BufferWhole`, a chunk being appended before it
is written), and a buffer handed over is a prefix at least as long as what the target had
been sent when it first answered (`TakenWhole`), because the flag is set before the
buffer is taken (`FlagFirst`).

**Consumers.** `OrderInv`: a message that never went back to the queue is behind
everything that was sent before it, in the queue, in the buffer, in the consumer's
hands and in Redis; whatever is put back is in `returned` from then on. `VerdictInv`:
what is answered with Ack has taken effect, what is dropped could not be parsed; with it
only `Answer` takes a message from the broker. `IdleInv`: a consumer has a delivery in
hand from its receive to its answer and at no other time. `AttendInv`: what is
unacknowledged lies with a consumer whose channel is open. `LinkInv`: channels are open only
while the connection is up, and until it is lost or the shutdown begins the supervision
lets its consumers be; so the kick consumer leaves, and drops its
buffer, only with its channel dead or the shutdown under way (`KicksReachTheirHandler`).

Only model-checked: all liveness, which is outside the prover's reach (`RelayEnds`,
`Supervised`, `PushReturns` and the others under fairness).

## 5. Abstractions to know of

* Redis keeps its data through every failure; what it may lose are its scripts, and answers.
  A DEL that fails may have been executed or not.
* The 30s ticker is an event that comes again and again; that each turn resets it, and how
  long it takes, is left out. What the ticker looks at, and that a listed domain gets
  there, is `BlacklistReachesTunnel`.
* Redis, RabbitMQ and Nacos are environments: in `ProxyManager` their messages and
  values arrive at any moment, in any order and repeatedly, which covers what
  `Consumers` does with them.
* At this commit the consumers' broker URL is built with its arguments in the wrong
  places (`src/server/rabbitmq_consume.go:16`), so they cannot attach. They
  are modelled as written otherwise, with a dial that may succeed.
* The SOCKS5 handler returns for every target that has a domain name
  (`src/server/socks_proxy_handler.go:88`); so does the model.
* `setNacosConf` stores a pointer under a read lock: a race on one word, whose
  outcomes are the old and the new configuration.
* `os.Exit` 5s after the signal (`src/main.go:63`) is not modelled.
* A session accepted by `Valid` just before its account is deleted, and registered
  just after the walk, survives the kick. The code does not exclude it and no
  property claims it.
* `ConsumePool` models code the program does not use at this commit
  (`src/common/rabbitmq.go` keeps its pool in a comment).

## 6. Plan

Done: all modules of section 2, with runs, and proofs of every safety and action
property and of both refinements. Left:

1. That a walk of `RemoteConfig` implements the reads `ProxyManager` assumes of
   `Iter`, as a refinement rather than as the same properties on both.
2. The states behind the liveness properties that have no theorem yet: what a session
   of `ProxyRelay` waits for once `done` is closed, what `Stop` of `ProxyManager` waits
   for.
3. The atomic and channel tasks of `taskRunManager`, should the server come to use
   them.

## 7. Running

    tlc -workers 2 -config ProxyManagerKick.cfg MCProxyManager
    tlapm ProxyManagerProof.tla

`PROJECT.json` names the module of every configuration, maps every definition to the
lines it models, and gives for every checked property a plausible bug that breaks it.

## 8. Not modelled

* The parsing of the TLS ClientHello, of the sniffed HTTP request and `regexpDomain`,
  and the SOCKS5 wire format: sequential code over one buffer. A parse error is
  `ReadError`, a sniffed name is found once enough chunks were seen.
* `AddUserData` consumer: never started. `ChannelQueue`: no user. gRPC server:
  commented out in `Start`.
* `utils/Map/concurrentMap`: a copy of the library the server imports; the
  operations the server calls are in `RemoteConfig`, `Set`, `MSet`, `Keys`, JSON have
  no caller.
* `proto/http`, `proto/socks`, the atomic and channel tasks of `taskRunManager`: not
  used by the server.
* Generated protobuf code, process, configuration, logging, pprof.
