# Formal models of go-lanai

TLA+ specifications kept beside [go-lanai](https://github.com/cisco-open/go-lanai),
TLC configurations that check them on small instances, and proofs checked by
TLAPS that hold for every instance. Paths below are relative to the repository.

go-lanai is a framework of mostly independent modules under `pkg/`. What is
worth a model is where goroutines, external services and failures meet. The
rest (HTTP routing, configuration binding, client wrappers, code generation) is
sequential and well served by unit tests.

## Inventory

| part | state | operations | what makes it hard |
|---|---|---|---|
| `dsync/consul` | session per node, lock object per key, entry on the server | Lock, TryLock, Release, Lost, Stop, lockLoop, sessionLoop | overlapping loops, uncancellable calls, lost sessions, crashes |
| `dsync/redis` | redsync mutex, lock object per key | the same | expiry against extension, one token for overlapping loops |
| `utils/loop` | task channel, context | Run, Do, DoAndWait, Repeat | cancellation while a task runs, senders without a reader |
| `scheduler` | context, error, done channel | Repeat, RunOnce, Cancel | overlapping executions, cancel against trigger |
| `utils/cacheutils` | map of entries, loaders | GetOrLoad, Update, Delete, Reset, Evict | loads in flight, invalidation, lock held while waiting |
| `discovery/sd`, `consulsd`, `dnssd` | service cache, callbacks, wait index | Start, Stop, refresh, Service, Instances | refreshes that overtake each other, waiting for the first one |
| `kafka` | bindings, offsets, watchdog | Start, Shutdown, Dispatch, HandleMessage | one goroutine per message, offsets overtaking each other |
| `tenancy` | hierarchy in Redis, shared by all services | LoadTenantHierarchy, AddTenant, RemoveTenant, the accessor's reads | many commands, no transaction, several writers |
| `migration` | table of versions | Migrate | crash between a step and its record, overlapping runs |
| `vault`, `certs` | token, certificate, renewal times | AutoRenewToken, Close, TLSConfig, renewal | retry loops against Stop, errors kept or forgotten |
| `appconfig` | provider groups, merged properties | Load, resolve | a fixed point over sources that depend on the result; map order |
| `integrate/httpclient` | retry loop, shared counter | Execute | timeout against answer, attempts that outlive their call |
| `profiler/monitor` | viewers' channels, RWMutex | Start, Stop, Subscribe, Unsubscribe, collect | sending under a lock that closing needs |
| `utils/order` | | the comparisons, SortStable | objects with two orders, stability |
| `web` | what is registered, gin's routes, a request | Register, Initialize, Run, Stop, serving | order of registration, map order, routes that clash, errors on any level |
| `bootstrap` | modules, hooks, runners | NewApp, Run, EnableCliRunnerMode | a map changed while it is walked, signals and failures while starting |
| `data`, `security`, others | request or start-up scoped | | little interaction between actors |

`PROJECT.json` lists every component with its status, and every hazard with the
line where it bites and the properties that cover it.

## dsync over Consul

One lock key; any number of service instances (`Node`), each with one
`ConsulSyncManager` and one `ConsulLock` for the key; one Consul server.

| module | models | state |
|---|---|---|
| `ConsulKV` | the server (external): sessions, the entry's owner, lock delay, and the budget of faults | `alive owner lockDelay faults` |
| `ConsulSession` | `manager.go`: sessionLoop, keepSession, updateSession | `shutdown session sessionPC sessionCtx created` |
| `ConsulLock` | `lock.go`: lockLoop step by step, updateState, waitForState, Lock, TryLock, Lost, Release | `state loopContext lockSession refreshFunc releasing`, `pc cancelled refreshed loopSession` per loop, `phase awake lost` per caller |
| `ConsulSync` | the composition: Stop, refresh of the locks, crashes; fairness; all properties | |
| `LeaseLock` | what a lock with leases promises (abstract) | `grantee holders` |
| `ConsulTypeProofs`, `ConsulSyncProofs` | the proofs: types and callers; loops, mutual exclusion and lease | |
| `MCConsulSync`, `MCSync` | instances for TLC, of Consul alone and of both implementations | |

How the code maps to steps. Everything between taking and giving back `l.mtx`
(or `m.mtx`) is one action; every remote call is one action, at the moment the
server executes it. `release()` keeps `l.mtx` over its call to the server, which
`releasing` records: every action that needs the mutex waits for
`LockFree`/`MgrFree`. `lockLoop` is a program counter per loop (`pc`), because
after Release and a new Lock the cancelled loop is still alive next to the new
one; `Slot` bounds how many loops of a lock are alive at a time. A caller is
`lock`/`try` while it is in Lock/TryLock, `awake` when it still has to look at
the state (after the call, or after a Broadcast), `got` between the return of
Lock and its call of Lost, and `hold` while it works under the lock and watches
the channel it got. `lost` is that channel being closed.

Left out: the value stored with the lock, log messages, `lastErr`, the registry
of locks by key, and delays as durations (a delay is a state the loop leaves at
any time). Requests that the server executes after the client has seen an error
are executed at the moment of the error. Session IDs are never reused while
anybody remembers them (`Fresh`).

## dsync over Redis

The same interface on `redsync`. Here the lock is a Redis key with an expiry, and
a loop extends it in time instead of keeping a session.

| module | models | state |
|---|---|---|
| `RedisLock` | `lock.go`: lockLoop and monitorLock step by step, updateState, waitForState, Lock, TryLock, Lost, Release; `redsync.Mutex` and Redis (external) | `key` on the server; `named valid` of the shared mutex; `state loopContext`; `pc cancelled fresh attempts failing` per loop; `phase awake lost` per caller |
| `RedisSync` | all properties, and the mapping to `LeaseLock` | |
| `RedisSyncProofs` | the proofs | |
| `MCSync` | instances for TLC, of Redis and Consul side by side | |

Time is reduced to what the code can tell apart. `valid` holds the nodes whose
`rsMutex.Until()` lies ahead; redsync computes it from the moment before the
call minus a drift, so it ends no later than the key does. `fresh` says the same
of an answer that is still on its way. A pause (scheduling, garbage collection,
network) lets either run out at any moment. The value redsync writes is made
once per lock object, so all loops of a node share it: `key` is a node, and
`Orphan` when its process has died. The retries inside redsync and the pool of
several Redis servers are left out.

`LeaseLock` is shared by both implementations: a grantee on the server side,
the nodes that act as holders, and the rules that a node becomes a holder only
while it is the grantee and that a withdrawn grant and the hold end together.

## Task loop and scheduler

`TaskLoop` models `pkg/utils/loop/loop.go`: the loop's select (`LoopReturns` or
`Take`), the task that runs, senders blocked on the unbuffered channel, the
waiter of DoAndWait, and the goroutine that repeatAfter starts for the next
round. Intervals are durations and left out. `KafkaBinder` and `Instancer`
instantiate this module, so what they compose with is the modelled loop and not a
simplification.

`Scheduler` models `pkg/scheduler/task.go`: newTask with its options, the first
trigger (`FirstDelay`, with Go's signed remainder), the loop in its four modes,
a goroutine per execution, handleError and Cancel. Time matters only for the
first trigger, which is exact; afterwards a timer fires at any moment. Cron times
are those of an external library; hooks are not modelled.

## In-memory cache

`MemCache` models `pkg/utils/cacheutils/cache.go`: the store, the entries with
their loader goroutines, GetOrLoad with its retries, Update, Delete, Reset and
the reaper's evict. A critical section of `c.mtx` is one step, except that
replaceIfPresent keeps the write lock while it waits for a loader (`writer`).
Entries are numbered in order of creation, which is what lets the properties say
"newer". `floor`, `since`, `base` and `dropped` are history: what was out of
date for a key, what was when a call began, the entry an updater's value came from,
and what Delete and Reset took out. Values are their entries; loaders return or fail,
and do not use the cache themselves (one that did would wait for the write lock
that Update holds while it waits for the loader, `cache.go:295`).

## Kafka binder

| module | models | state |
|---|---|---|
| `KafkaBinding` | `producer.go`, `subscriber.go`, `consumer.go`: Start and Close of one binding, as operators on a record | |
| `KafkaBinder` | `binder.go`: Start, Produce, Subscribe, Consume, CloseProducer, tryScheduleStart, the watchdog, Shutdown, the life cycle hook, composed with `TaskLoop` | the bindings, the maps by key, `stage` and `call` of the goroutines in the binder, the watchdog's position, and the variables of the loop |
| `KafkaBinderProofs` | the proofs | |
| `MCKafkaBinder` | instances for TLC | |

The state of the binder's RWMutex is derived from where its callers are. A start
is atomic with its outcome, success or one of the failures of its kind of binding: provisioning
and the Kafka client are external. Abstractions to know of: the application context
does not end while Start runs; a scheduled start that waits for its lock does
not keep new readers out; the clients a subscriber forgets (`subscriber.go:84-99`) are
not counted, in `ClientsKept` neither; the maps, which the code also reads without its
lock, are accessed atomically. What is registered while Shutdown goes through the maps
may be closed by it or missed (`Register`), as its loop over the kind may be over.

## Kafka consumers

`KafkaConsumer` models what a consumer group does with one partition:
`consumer.go` (handleGroup, ConsumeClaim, handleMessage, Close) and `Dispatch` of
`dispatcher.go`. A session starts at the committed offset and hands the messages
out in order, each to a goroutine (`flight`) that outlives the session if it must.
Dispatch touches nothing shared, so it is the set of what it may return, built
from its stages: an interceptor that fails returns before finalizers are
deferred, a handler may report nil, an error or a panic, finalizers may drop or
raise an error and see nil during a panic, and only a panic with an error or a
string becomes an error. Sarama is external: marks raise the offset, resets lower
it, a rebalance commits, a crash loses what is not committed. `ends` is history.

## Discovery cache

`Instancer` models `discovery/sd/instancer.go` with the refresh functions of
`consulsd` and `dnssd`. A refresh is three steps, the query, the store under
`cacheMtx`, and the deferred notification, because the refresh on the loop and
those of DNS readers overlap. `L` is the instance of `TaskLoop` the task runs
on. An answer of the registry is a set of instances, which may be empty, and Consul's
index. A name that DNS does not know is an empty answer without error, and with a
configured fallback the fallback stands in for empty answers and errors alike. A
callback comes and goes at any time after Start, which does not call it: `known` is what
was cached when it was registered, or what it saw when it was called last. One that reads
the cache when it is called stands for all.

## Tenant hierarchy

`Tenancy` models `tenancy`: the load, the modifier and the accessor against the
three Redis keys, one command a step, because go-redis sends the commands of the
function given to Watch one by one and there is no MULTI to abort. `mode` picks
what happens together: `bootstrap` (one load at a time, readers), `serving` (no
load, one modification at a time, readers) and `churn` (everything, with failing
commands). The conditions of the properties name the mode, and so say what the
code needs from its surroundings. An error of ZRangeByLex is an empty answer, as
in the code.

## Migration, configuration, certificates, tokens

`Migration` models `Migrate`: the applied versions read once, the two flags, the
loop over the sorted steps, and a step and its record as separate events with a
crash or error possible at each. `nils` and `unrecorded` are history.

`AppConfig` models `Load` of the bootstrap and the application configuration: a
round asks the groups, which create and order a file per profile
(`provider_group.go`), loads what is new and merges; it ends when a round finds
nothing new. A provider, the merge and the resolution of placeholders may fail. A file
is what it says of the active and the additional profiles.
`Placeholders` models the resolution at the end of Load: resolveValue is a
recursive operator, VisitEach comes to the keys in any order, and the result is
compared with `Meaning`, a definition that knows no order. No value of the instance has
two placeholders for one key with different defaults: of these the code replaces the last
only (`Resolves`, `config.go:441`), and the other one when the value is resolved again for
another key, so that what comes out depends on the order.

`TokenRefresher` models the token of a Vault client and `monitorRenew`; the
watcher (api.Renewer) ends when its token does, or earlier. `CertSource` models
the Vault and the ACM source with real time: LazyInit under sync.Once, renewal,
the interval function, and a service that fails, answers nonsense or, with ACM,
does not renew.

## HTTP client, monitor, ordered lists

`HttpClient` models `Execute`: an attempt is a goroutine that resolves, sends and
answers, the caller's select takes the answer or the timeout, and goroutines
given up may still resolve (`late`, a bag) and so move the shared counter. Resolve is two
steps: it asks for the service (`seen`), then picks by the counter, and the instances may
have changed in between. `hits` counts the picks from the present list and `stale` those
from older ones since it is present, which is how far the balance may be off (`Balanced`);
both are history, as is `processed`. The path of a request is relative, so that there is
something to resolve, and the retry callback is the client's own.

`Monitor` models the data collector and its viewers with the RWMutex spelled out:
a waiting writer holds new readers back, an unlock lets waiting readers in.

`Order` models the comparisons of `utils/order` and the insertion sort that
sort.SliceStable is for short lists; `Category` and `Value` state what the comments
promise.

## Web registrar and bootstrap

`Registrar` models `web/registrar.go`. `Provide` is a call of Register, in any order;
`register` and the actions under it go through what it was given. Then come the
customizers (`applyCustomizer`), the second router group (`Installs`), a route for
each method, group and path in any order (`installRoutedMappings`), and the server. A
request walks the chain of its route: `Handle` is a handler behind its condition, which
may be true, false or fail, `Unwind` what the global middlewares do on the way back.
A path is a sequence of segments, so that NormalizedPath and gin's conflicts between
names of parameters are real; a route matcher is a set of methods and a set of normalized
paths with their group, and may fail: the route of a failing middleware matcher is added
without middlewares before Initialize returns the error, so it is never served. A mapping is
an MvcMapping with its translators or a simple one that may write nothing; the global
middlewares of the framework are taken not to fail themselves. Customizers
register no customizers, as their comment demands (`web/context.go:37`). Calls that
only return an error (Register after initialization, a second Initialize) change
nothing and are left out.

`Bootstrap` models NewApp, with Go's freedom to show or not to show what is added to a
map while it is walked (`Visit`), App.Run, and the runners of EnableCliRunnerMode. fx,
which starts hooks in order and stops those started in reverse, is external.

## Runs

Run from this directory: `tlc -config <cfg> <module>`, with the pairs listed in
`PROJECT.json`. Each property is stated in a comment above its definition.
Components that share no state are checked in one run: `part` says which of them
a behaviour is about, its variables are those of the component and the actions
those of the component's module. Nothing is gained by interleaving them. What a run
checks of such a component is the conjunction of the properties its module defines,
under one name.

| run | instance | shows |
|---|---|---|
| `sync_faults` | `MCSync`, Consul or Redis: 2 nodes contending, 1 loop each; Consul with 2 sessions for one node and one failing call, lost session or crash at any point; Redis with 2 faults (lost answer, pause, crash) and 2 extension retries | `TypesOK`; `Backed` (Consul): a live loop that got the lock owns the entry while its session is valid; `MutualExclusion`; `ImplementsLease` |
| `sync_callers` | `MCSync`, Consul or Redis: 1 node, 2 overlapping loops, every operation; Consul with Stop, Redis with one fault | `SingleLoop`; `CallersTold` (`NoLostWakeup`, `LostIsTold`); `GivenUpIsFreed` (Consul: after Stop; Redis: after the last Release); `FreeLockIsTaken` (Redis) |
| `consul_recovery` | 2 nodes; one of them loses its session or crashes | `LossIsNoticed`, `FreeLockIsTaken` |
| `consul_release_leak` | Release and Lock, 2 loops, no faults | **violated**: `ReleaseFreesLock` |
| `redis_overlap` | `MCSync`, Redis: 2 nodes, 2 overlapping loops on one, no faults | **violated**: `MutualExclusion` |
| `redis_silent_loss` | `MCSync`, Redis: 2 nodes, one loop each, one pause | **violated**: `LossClosesChannel` |
| `services` | `MCServices`: sixteen components, each by itself, see the bounds below | `TypesOK` of all; `WellScheduled` (task loop, scheduler); `Coherent` (cache); `Consistent`, `ReadsAreComplete` (tenants); `ChangesAreSeen` (discovery); `OffsetsHold` (consumers); `StepsInOrder` (migration); `ConfigurationSettles`; `AttemptsAreSound` (HTTP client); `NoSendOnClosed` (monitor); `CertificateKept`; `SortedStably`; `AssembledAsRegistered` (web: `Guarded`, `RunsInOrder`, `Unambiguous`, `FailuresAnswered`; bootstrap: `ModulesComplete`, `RunnersServed`) |
| `workers` | `MCWorkers`: task loop, scheduler, token refresher, monitor | `TasksServed` (`EveryTaskRuns`, `RepeatsForever`, `WaiterAnswered`); `TokenKept` (`TokenReplaced`, `WatchResumes`); `WhatIsStoppedEnds` (`EndsForGood`, `CancelEnds`, `ErrorCancels`, `StopEndsRenewal`, `StopReturns`) |
| `stores` | `MCStores`: cache, tenant hierarchy, discovery cache | `CallsReturn`; `ReadersReturn` (`WalksEnd` and the readers of discovery); `Converges` |
| `kafka_binder` | a subscriber registered before Start, a producer created and closed at any time, but not created between the end of the context and the Shutdown it causes (`LateCalls`); OnStop and end of context otherwise at any time | `TypeOK`; `ClientsKept` (`ClosedStaysClosed`, `OneClient`); `EventuallyStarted`, `ShutdownCompletes` |
| `kafka_late_call` | one producer created while the context ends | **violated**: `ShutdownCompletes` |
| `cli_runners` | `MCBootstrap`: an application that calls EnableCliRunnerMode twice | **violated**: `LastCallOverrides` |

Why these bounds. The locks' hazards involve two parties: a node and a
competitor, or a loop and the cancelled one before it; a second session lets a
node come back after it lost the first. One fault is enough to separate each
pair of steps, and the proofs lift the bounds for every safety property of the
locks. Two loops are what Release followed by Lock leaves alive; a third behaves
towards the second as the second towards the first. The scheduler's times cover
more than two intervals on either side of now. The keys of the cache share only
its lock, so one key carries every property but contention, which a second
caller brings; three calls give a load, an update of it and a reader of either.
The proofs cover any number of keys, callers and calls.

The others in `services`: two members of a group, two messages, two sessions and
two faults, so that a message can fail, be overtaken, be cut short and be read
again; three tenants, which is a chain with a middle, two loaders and two
clients, one fault (`churn`), and a store that has lost its root; two readers, an
answer of the registry with instances and one without, one change and one fault; two processes, two releases,
the second of which adds a step in the middle, three runs and two faults; two
profiles, with files that name them and each other, two loads and one fault;
three properties, the least for a cycle that a third one looks at; two callers,
lists of two and three instances, three attempts; two viewers and two starts of
the collector; lifetimes from 1 to 5 against MinRenewInterval 1 and 2, over 6 units
with 3 failures; lists of three of seven objects, of every kind and with two
values; two mappings for one path, three middlewares from different places and a
customizer that registers, together with two of fourteen sets of other things (clashing
routes, customizers that fail or have a priority, matchers that fail, translators), under two conditions;
six modules that name each other, in a circle too, and up to three runners in two calls.
The clients are interchangeable, and the run uses that symmetry. `workers` and `stores` have smaller instances of the same, as liveness is
costlier: two tasks, one viewer, one mode of the hierarchy.

In the binder, what matters is which kind
of binding meets which life cycle event: a subscriber can fail in every way a
group consumer can and more, so the group consumer is left to the proof.

Deadlock is not checked: in each of these systems everybody may legitimately be
done, for example after Shutdown. That nobody waits for good is what the
liveness properties say.

## Fairness

Faults and the application's decisions are never forced; what may be assumed is
that goroutines are scheduled and calls return.

- Consul: weak fairness of every goroutine and caller step (`Calm`: without
  forcing a fault), of the end of the lock delay, and of the expiry of sessions
  nobody renews, which Consul guarantees. `sync_callers` assumes less: that the
  lock is free after Stop needs no step of a lock loop.
- Redis: the same, with the expiry of the key and the passing of `Until()`.
- Task loop: weak fairness of its steps, and of the tasks, which are assumed to
  return. Strong fairness of `LoopReturns`: after a cancellation Go's select
  chooses at random between `Done` and a pending task, and with probability one
  does not choose the task forever.
- Scheduler: strong fairness of `LoopCancelled` for the same reason, weak of the rest.
- Cache: weak fairness of each caller and loader; loaders return.
- Tenant hierarchy: Redis answers each command, with success or an error.
- Discovery cache: weak fairness of the loop, of queries (a blocking query is
  answered when its wait time is over, at the latest) and of readers.
- Token refresher: outages end, sleeps end, a watcher ends when its token has;
  strong fairness of the cancelled case of the select. `TokenReplaced` and
  `WatchResumes` let go when the server is down or the token expired, and
  `StopEndsRenewal` speaks of a token that can be renewed with a server that stays up.
- Monitor: weak fairness of what holds the lock, strong fairness of taking it:
  sync.Mutex hands itself over to a writer that has waited for long. Viewers are
  not obliged to read: `StopReturns` assumes that none has left its feed.
- Kafka: that of the task loop, weak fairness of calls in progress and of the
  watchdog, and strong fairness of a successful start: brokers come back in the
  end. `EventuallyStarted` says nothing of a broker that stays away.

## Proofs

`tlapm <module>.tla` checks each of the eight proof modules. The theorems hold for
all values of the constants that satisfy the named assumptions: the markers
(`NoSession`, `NoLoop`, `NoNode`, ...) are not elements of the sets they stand
outside of, the maps (`Home`, `At`, `KeyOf`, `KindOf`) are functions of the
right type, and the bounds are natural numbers.

**Consul.** `TypeCorrect` comes first and is used everywhere. `MutualExclusion` is not
inductive: that a loop is in monitoring says nothing of the server. `Backed`
supplies that, a live loop that got the lock owns the entry while its session
lives, and needs in turn that the current loop is the only one on a live
context (`SingleLoop`, with `SlotsClean`), that release() runs only after the
loop is cancelled (`ReleaseStopped`), and that nodes use their own sessions
(`SessionHome`). `IndInv` is the conjunction. From it follow `MutualExclusion`
and, action by action, `LeaseRefinement`. `CallersTold` looks at the matchers of Lock and
TryLock as a whole, loopContext = nil included, which Release and Stop set without a
Broadcast. What makes it inductive is `StateAttended`: as long as the state is not Unknown a
loop is alive, whose last updateState is a change of the state and so notifies everybody
and closes the Lost channel. One exception is part of the property: after Release or Stop
in state Unknown the wakeup is lost.

**Redis.** `SingleLoop` and `CallersTold` are proved like those of Consul; an open Lost
channel has a loop that monitors the lock, has been cancelled, or tries to acquire it again
after a loss that lockLoop passed over (`Silent`), the last being what `redis_silent_loss`
shows. `MutualExclusion` and `LeaseRefinement` have the hypothesis
`OneLoopEach`: a lock object has at most one loop alive at a time. The
hypothesis cannot be dropped, as `redis_overlap` shows. The invariant is
`KeyInv`: an answer not overdue, and an `Until()` that lies ahead, both mean that
the key is still the node's.

**Cache.** The idea behind `CacheInv` is `Newest`: what is stored under a key is the newest
entry ever created for it. Hence what a call finds is newer than all that was
out of date when it began (`SinceInv`, giving `NoStaleRead`), an updater's value
comes from the entry it replaces (`BaseInv`, giving `NoLostUpdate`), and no
second load starts (`SingleFlight`); together they are `Coherent`. `CallInv` says that a caller waiting in
replaceIfPresent has the write lock and that its entry stays in the store.

**Kafka.** `BinderInv` says of every binding that it is `Sound`: only consumers have the flag,
a group consumer's client is open only while the flag is set, nothing is open
once it is closed, and no client was overwritten. A lemma each shows that Start
and Close keep it; `MapInv` says that what the maps and the watchdog refer to
are bindings. No order of calls matters, which is the point of the theorem.

**Consumers.** `ConsumerInv` adds to the two properties what ties the session to
them: what was handed out is in `flight` or has ended, marks stay within what the
session has handed out, and without a success at an offset or later neither marks
nor commits pass it (`OnlySuccess`). Goroutines of earlier sessions are harmless
because their marks are dropped. The only hypothesis is that the bounds are
numbers (`Bounds`).

**Tenancy.** `SymmetricRelations` is inductive, as every command writes both
directions. For `SuccessIsComplete` the argument is about who comes last:
`LoadInv` says that, unless a load has failed, whatever is missing in Redis some
load has yet to write. `BootInv` ties the status to how far the one load has got.
`ForestInv` carries through AddTenant what its reads have established (`AddInv`: the
ancestors of the new parent are among those seen, up to the one asked next); the lemma
behind it is that a new parent outside the descendants closes no cycle. It assumes
that what is loaded has no cycle (`TreeStores`). `ConsistentAlways` is the conjunction,
which `services` checks.

**Order.** `LessIsGoes` shows that each comparison is the lexicographic order its
comment describes, so that with the input's order between equals it is transitive;
`SortInv` is the invariant of insertion sort on top of that.

Only model-checked: all liveness, which is out of the reach of the prover; the
resolution of placeholders, which is recursive; `TaskLoop`, `Scheduler`,
`Instancer`, `TokenRefresher`, `Migration`, `AppConfig`, `HttpClient`, `Monitor` and
`CertSource`; `ReadsAreComplete`; `TypeOK` of the binder.

## Findings

1. `consul_release_leak` (`pkg/dsync/consul/lock.go:299`). kv.Acquire gets no
   context. A loop that Release cancels during that call may have its
   acquisition applied after the release; nothing gives the entry back while the
   session is renewed. The documentation says that Release "stops the attempt to
   acquire the lock and releases the lock if already held".
2. `redis_overlap` (`pkg/dsync/redis/lock.go:210`). A cancelled loop unlocks
   after Release has returned, with the value all loops of the lock object
   share. If a new Lock has acquired the key by then, the key is deleted under
   it, and another node takes the lock.
3. `kafka_late_call` (`pkg/kafka/binder.go:445`). A binding created after the
   context of Start has ended sends its start to a loop that is gone, with the
   read lock held. Shutdown waits for the write lock, so nothing is closed.

4. `redis_silent_loss` (`pkg/dsync/redis/lock.go:241`). monitorLock returns Canceled at
   the expiry of a key whose last extension had not failed, and DeadlineExceeded when it
   timed out. lockLoop takes both for the end of its own context and leaves the state at
   Acquired, so that the Lost channel stays open while another node has the lock; it is
   closed when a later attempt fails, and not at all if the key is acquired again.
5. `cli_runners` (`pkg/bootstrap/cmd_runner.go:128`). The comment at line 92 says that of
   repeated calls of EnableCliRunnerMode only the last takes effect. The code appends, and
   the runners of all calls run. `RunnersServed` asks only for those of the last call.

The models also contain, without a property about them: Release or Stop of a lock in state
Unknown wakes nobody, so that a caller in Wait sleeps on until its own context ends or a
new loop gets somewhere (`consul/lock.go`, `redis/lock.go`: an explicit exception of
`NoLostWakeup`); the last updateState of a cancelled Consul loop may overwrite the state of its successor
(`lock.go:274`); a Consul loop may lose and regain the lock without closing Lost
when its session is refreshed (`lock.go:265`); the watchdog may delete a key that
has been bound again (`binder.go:472`); Close of a producer that has not started does
nothing, so that it may start later (`producer.go:140`); a subscriber whose
start fails late forgets an open client (`subscriber.go:89`).

Behaviours of the other components that the models have, and that bound what their
properties can say:

- Consumers: once a later message is marked, a failed one is not read again (a
  TODO at `consumer.go:214`); otherwise it is read again only in the next session.
  A panic with a value that is neither an error nor a string counts as a success.
- Tenancy: two AddTenant at a time may give a tenant two parents or close a cycle,
  and the loops of the accessor have no bound. A load that begins between IsLoaded
  and a read cuts the path short. A failed ZRangeByLex looks like "no parent". When loads
  overlap and one of them fails, the status may be that of another load than the data
  (`loader.go:119-125`): of such behaviours only `SymmetricRelations` speaks.
- Discovery: a DNS reader's slow refresh may put an older answer back until the
  next refresh.
- Vault: after a login that failed, `monitorRenew` looks the old token up for ever; and
  while no renewer can be created it sleeps and tries again without looking at its context
  (`tokenrefresher.go:79-88`), so that Stop does not end it.
- Certificates: a failed first fetch is remembered by sync.Once as done
  (`vault.go:133`, `acm.go`): one caller is told, and no renewal is started. An
  answer without a certificate ends the renewals by a panic. The ACM source's Close
  does nothing.
- Configuration: a forced load keeps the lookup of the groups and may miss files of
  profiles; files of profiles that name each other as active keep Load going round.
- Placeholders: with a default on a cycle, the outcome depends on the map's order.
- HTTP client: the condition at `resolver_sd.go:157` is the reverse of what the
  comment of InvalidateTimeout says, without effect while a failed refresh stores no
  instances; MaxRetries counts attempts; the backoff does not look at the timeout.
- Monitor: a viewer that has stopped reading waits in Unsubscribe for the write
  lock, the broadcast waits for the viewer under the read lock, and Stop waits too.
- Migration: overlapping runs may execute a step twice.
- Web: after a mapping has answered, gin goes on with the next one of the same path, so
  that two may write. The comment at `gin_error_handling.go:54` speaks of the first error
  that is a StatusCoder, the code takes the first that is not; the model does not tell
  them apart.
- Bootstrap: a signal during the start makes the runners' Shutdown fail, and the start
  with it.

## Not modelled

Values, metadata, log messages and error texts; durations, except the scheduler's
first trigger and the certificates' renewal; the registry of locks by key; hooks;
parsing of registry answers and of properties; the providers of configuration; plain
Kafka subscribers and the sending of messages. Most of what is left of the repository
has no state that two actors share: static assets, templates, decoding and encoding of
requests, PostInit and request preprocessors, request-scoped
security, GORM plumbing, wrappers around the clients of external services, and code
generation, which is by far the largest part of the source. What it computes is text or
calls passed on, and a model would repeat it line by line. The cache in `integrate/security/scope` is an older near-copy of `utils/cacheutils`.
`PROJECT.json` lists each of these parts with the reason.
