# A TLA+ development of ContextKit

ContextKit lets programs read *context properties* (`Screen.TopEdge`,
`Battery.ChargePercentage`) that other programs provide over D-Bus.  The
modules of this directory model the parts of it whose correctness depends on
order: threads that subscribe while the main loop works, plugins that fail and
recover, providers that come and go, clients that exit, files that are replaced
while they are read.  Paths below are relative to `src/`; `sub` stands for
`libcontextsubscriber/src`, `prov` for `libcontextprovider/src`.

## The system

A *subscriber* process and a *provider* process, with D-Bus between them, and a
registry of declaration files that tells the one of the other:

    application threads                                  providing program
       ContextProperty -- ContextPropertyInfo        C API, context-provide
            |  subscribe(), value()    |                Property, listeners
       PropertyHandle  <- commander    |                       |  setValue()
            |  Provider::subscribe()   |             PropertyPrivate -- Group
       Provider + QueuedInvoker     InfoBackend                |  ValueChanged
            |  IProviderPlugin         |             PropertyAdaptor
       ContextKitPlugin --------- D-Bus: Subscribe ---- ServiceBackend, Service
                                       |
              *.context, cache.cdb  <- update-contextkit-providers

| part | state | operations | what makes it hard | correct when |
|---|---|---|---|---|
| `ContextProperty` (`sub/contextproperty.cpp`) | subscribed?, the value notified last | `subscribe`, `unsubscribe`, `waitForSubscription`, posted `onValueChanged` | one object per thread, notifications are posted | every change is signalled, waiting ends |
| `PropertyHandle`, `HandleSignalRouter` (`sub/propertyhandle.cpp`) | subscribe count, pending providers, current providers, value | `subscribe`, `unsubscribe`, `updateProvider`, `onValueChanged`, `setSubscribeFinished`, `blockUntilSubscribed` | called by all threads, partly without the lock; the registry and the commander replace the providers | exactly the current providers are subscribed, the newest value is shown |
| `Provider`, `QueuedInvoker` (`sub/provider.cpp`, `sub/queuedinvoker.cpp`) | keys to (un)subscribe, the intention, state of the plugin, values, posted calls | `subscribe`, `unsubscribe`, `handleSubscribes`, `constructPlugin`, `onPluginReady`, `onPluginFailed`, answers, values | posted calls that are merged, a plugin that fails and recovers at any time | the plugin gets the intention, nobody waits for ever |
| `ContextKitPlugin`, `DBusNameListener`, `SubscriberInterface` | connection, pending keys and calls | calls and replies on D-Bus, name changes | replies out of order, a provider that restarts | a subscription survives a restart of the provider |
| `InfoBackend` and its two kinds, `ContextPropertyInfo`, `ContextRegistryInfo` (`sub/info*backend.cpp`, `sub/context*info.cpp`) | known keys and providers, watches, inode of the database, caches | reload on notices, signals to all threads | files change while they are watched anew; one thread reads what another reloads | no change is missed, caches follow |
| `update-contextkit-providers`, `sub/cdbwriter.cpp`, `sub/cdbreader.cpp` | a temporary file | read, write, sync, rename | fails or is killed anywhere, readers have the old file open | a reader has a whole database |
| types and values (`sub/contexttypeinfo.cpp`, `assoctree.cpp`, `nanoxml.cpp`, `duration.cpp`) | none | pure functions | corner cases, parameters handed down to base types | agree with `spec/core.types` |
| `ServiceBackend`, `Service` (`prov/servicebackend.cpp`, `service.cpp`) | reference count, objects, name | `start`, `stop`, `restart`, `addProperty`, `ref`, `unref` | calls of clients under way meanwhile, starting that fails half way | a subscriber is known after any restart |
| `PropertyAdaptor` (`prov/propertyadaptor.cpp`) | its clients, the watcher of their exits | `Subscribe`, `Unsubscribe`, `Get`, `onClientExited`, `forgetClients` | clients that exit, exits noticed asynchronously | exactly the present clients are subscribed |
| `PropertyPrivate`, `Group` | value, last emission, overheard?; count of subscribed properties | `setValue`, `emitValue`, `updateOverheardValue` | other processes provide the same property | subscribers know the value, the group's signals alternate |
| listeners and C API (`prov/listeners.cpp`, `contextc.cpp`) | the service, listeners, maps and lists on the heap | `init`, `stop`, `install_key`, `install_group`, `set_*`, `map_*`, `list_*` | listeners share keys, callbacks set values, stop and start again; who frees what | callbacks are told the truth, nothing leaks or is freed twice |
| `context-provide` (`libcontextprovider/context-provide`) | properties, types, proxies | `add`, `del`, `set`, `unset`, `settype`, `restart`, `dump`, changes of the registry | proxies are replaced under their clients; late values | overrides hold, the rest is forwarded |
| `context-listen`, `context-ls`, Python bindings, logging, ontology | - | wrappers, data | - | - |

Threads of the subscriber share `Provider`, `PropertyHandle` and the backend of the
registry; everything else, in both processes, runs in the main loop and
interleaves only through events.

## Modules

| module | models | relation |
|---|---|---|
| `Reconciler` | what a `Provider` promises: the plugin keeps what the application wants | abstract |
| `Provider` | `Provider`, `QueuedInvoker`; the plugin is its environment | implements `Reconciler` |
| `PropertyHandle` | `PropertyHandle`, `ContextProperty`, `HandleSignalRouter` | EXTENDS `Provider`, composes with it, implements it with the main thread mapped |
| `ContextKitPlugin` | `ContextKitPlugin` and its `DBusNameListener`, the bus, a service that stops and starts | EXTENDS `Provider`, takes the place of its environment |
| `RegistryReader` | what a reader of the registry may rely on | abstract |
| `Registry` | both backends, the info objects, the update tool, the file system | implements `RegistryReader` |
| `ServiceBackend` | `ServiceBackend`, `Service`, `PropertyAdaptor`, `Group`, the subscription state of `PropertyPrivate`; clients and bus are its environment | |
| `PropertyPrivate` | the value of `PropertyPrivate` in several providers that hear each other, with one client | |
| `ContextC` | the C API and the listeners above one service | |
| `ContextProvide` | the commands and proxies of `context-provide`, as a service and as the commander | |
| `ContextTypes` | association trees, definitions of types, `typeCheck`, XML and back | |
| `ContextValue` | the values that `PropertyPrivate`, `ContextC` and `ContextProvide` share | |
| `ProviderProofs`, `HandleProofs`, `ContextKitPluginProofs`, `RegistryProofs`, `ServiceProofs`, `PropertyPrivateProofs`, `ContextCProofs`, `ContextProvideProofs` | theorems | EXTEND the modules of the names |
| `MC...` | instances for TLC | EXTEND the modules; `MCPrograms` extends `PropertyPrivate`, `ContextC`, `ContextProvide` and `ContextTypes` |

Operators marked *Mutant* are slips a programmer could make in the definition
that follows them; nothing uses them.  Replacing the definition by its mutant
makes TLC find the property violated that is listed with it in `PROJECT.json`,
which shows that the run can tell.

### Provider

The variables have the names of the members.  `subscribe()`, `unsubscribe()`,
`handleSubscribes()` and the slots for answers hold `subscribeLock` from beginning
to end and are one step.  `onQueuedCall` unlocks before it invokes, and
`onPluginReady` and `onPluginFailed` call `handleSubscribes` after unlocking: the
variable `running` says what the main thread does next, and other threads step in
between.  `callQueue` (what `queueOnce` believes to be posted) and `eventQueue`
(what is) are apart, because the code could let them disagree.

The plugin follows the contract of `sub/provider.cpp:55-90`.  `pluginKeys` is what
it was asked to keep since its last ready, `owed` the answers outstanding.  Two
constants are about the contract itself: `ReadyWhenReady` (ready may be signalled
twice in a row) and `FailureAnswersPending` (a failed plugin still answers what it
was asked before).  `unfinished` is a history variable: who was told to wait by
`subscribe()` and has not been signalled.

`onPluginSubscribeFinished` signals the end of the subscription and stores the value
afterwards (`Storing`, `StoreValue`): the lock is free in between, another thread may
unsubscribe, and one that waits may go on without a value.

Abstractions.  A value is a model value, or its time stamp in `PropertyHandle`.  Mutexes are not variables here, so that a deadlock among
them cannot show.

### PropertyHandle

`pc`, `todo` and `mark` are the program counter, the rest of the loop over the
providers and the provider to add to `pendingSubscriptions`, for each property's
thread and for `updateProvider`.  One call of `Provider::subscribe` is one step and
marking its provider is the next: the races of this component are between the two.
`subscribeCountLock` is `lockOwner`; `updateProvider` does not take it, nor do the
slots.  `inbox` is the set of properties with a posted `onValueChanged`; several
posted events are one, because each reads the present value.  The registry and the
presence of the commander are variables of the environment.  There is one handle.
`setTypeCheck` decides before the program runs whether values are checked: `IllTyped` are
the values that the check refuses, none if it is off.  A refused value leaves the handle
with what it had (`ShowValue`), also if an older value of another provider would pass.

A plugin below a handle may do whatever one below `Provider` may, which includes
saying ready while it is ready (`ReadyWhenReady`), as `ContextKitPlugin` does.

### ContextKitPlugin

The module has the variables and actions of `Provider` and replaces its generic
plugin: every answer, ready and failed is now caused by the code of the plugin.
`posted` is the main thread's event queue, with the Provider's calls, the posted
`onProviderAppeared` and `newSubscribe`; a set of keys posted together is one
element, taken apart one key at a time.  `arrived` is what comes from the bus, replies
and notices of the name in one order; it is not ordered against `posted`.
`pendingKeys` and `pendingWatchers` are the members of these names (a watcher is
represented by its key, since only the latest one of a key is reachable),
`servicePresent` that of the listener.  `blocking` says how far the main thread is in
`Provider::blockUntilSubscribed`; while it is there it dispatches nothing, and other
threads go on.  `calls` is what is on its way to the service, which may stop and
start in between; without an owner of the name the bus answers with an error
(services that D-Bus activates are left out).  `reset()` only disconnects signals
in the new protocol.  Values, `ValueChanged` and the old protocol
(`SubscriberInterface`) are left out; the factory of the plugin does not fail here,
which `Provider` covers.

### Registry

A declaration file is the set of keys it declares, and the provider it names is the
file itself, so that a reader that mixes two files, or keeps an old one, gives another
answer.  Files are replaced one at a time.  A database is an *inode*: a replaced one
stays readable for who has it open, and a freed one may be used for the next (three
inodes: linked, open, being written).  `disk` says of each whether its index has been
written, its version, and its records.

The update tool lists the directory, reads file by file, makes a temporary file,
writes and closes it, renames it; between any two steps files change, clients start,
and the tool may fail or be killed, leaving its file (`litter`).  `dirty` is a history
variable: did anything change since the last successful run began?

The client's main thread has a program counter `at`.  Creating either backend and
reloading it are cut where the file system or another thread can step in: list and
read each file, put up its watch (`ReadDeclarations`, `AddWatch`); open the database,
watch the directory, remember the inode (`CreateCdbBackend`, `WatchDatabase`,
`RememberInode`); close and open it again.  Notices of files and of the directory
are separate, are dropped with their watch, and are handled in the event loop.  A
replacement of a file in place is no notice of the directory.  Whether files may change
*while* the client reads them is the constant `ChangesDuringReads`; the comment
`sub/infoxmlbackend.cpp:51` assumes that they do not ("asuming the changes in the
dir are atomic"), and `FALSE` is that assumption.  The hazards say what happens
without it.

`info` are the caches of `ContextPropertyInfo` objects; in the main thread construction
is one step, in another thread connecting and the two reads are apart, and what such a
thread reads from the backend while the main thread reloads it is the answer or
nothing (the hash and the reader change without a lock).  `Emit` is the whole cascade
of `keysAdded`, `keysRemoved`, `keysChanged` and `keyChanged`: direct calls in the main
thread, posted ones to the others.  `tracked` is what a client of
`ContextRegistryInfo` knows that applies `keysAdded` and `keysRemoved`.

### ServiceBackend

One step per call of the program, dispatched message or event of the bus; nothing
runs concurrently inside the process.  `wire` has each client's messages in order,
the notice of its exit last.  The notice is sent if the match rule of the
service watcher has reached the bus (`matched`), which happens some time after
`addWatchedService`; rules that come and go between two updates are not seen by the
bus.  Clients subscribe to what they want, and again when the name appears
(`resubscribe`), as `sub/contextkitplugin.cpp` does on `onProviderAppeared`.  A
private connection is modelled.  All properties and groups are complete when the
main loop is entered: `prov/service.cpp:158-166` asks for it.

### PropertyPrivate

`emitValue` with its early return, `setValue`, `updateOverheardValue`, and a client
with one ordered wire per provider.  Signals between providers are ordered per
pair.  The clock ticks at every `setValue`.  A process also hears its own signals:
they are never newer than its last emission, and the code's comparison drops them.

### ContextC

One step per call of the program, except that a signal of a property goes to the
listeners one after the other (`emission`), each of which may clear the values and call
back; the callback may set a value.  Of the clients of a key only whether there are
any is kept (`attached`): `ServiceBackend` has the rest.  `listeners[i].told` is what the
callback was told last.  `made` outlives the service, as `PropertyPrivate` objects do.  For
maps and lists, `trees` is the heap and `owned` what the documentation lets the program
use: the two are changed by different clauses, one for what the code frees or copies,
one for what the documentation says.

The program is legal: it installs before it enters its main loop, sets maps only
while the service exists, and does not use what it has given away.

### ContextProvide

One step per command, posted `valueChanged` or change of the registry; `onRegistryChanged`
with its deletion and construction of all proxies is one step.  The user's `Property` and the proxy's share
one `PropertyPrivate`, whose value is `held`.  A proxy is `[enabled, value, subscribed, posted]`;
`learned` is the value of the `PropertyHandle` below, which lives as long as the program.
`real` is what the real provider says; an ill-typed value arrives and is dropped.
`replaced` is a history variable: keys whose proxy was replaced while they had clients,
for which forwarding is known to break (see *Findings*).

### ContextTypes

Pure functions, so the state is one question and its answer.  `TypeCheck` and the
definitions of types are translated from the code, `Documented` from the text of
`spec/core.types`; `ChecksAsDocumented` compares them, and `Departs` names the exceptions.
`DumpedTypeIsRead` sends a tree through `dumpXML` and the stack of `NanoXml`.

## Runs

| run | question | instance | distinct states |
|---|---|---|---|
| `ProviderMain` | Does the plugin end up with the intention? Is a wakeup lost? Is everybody woken who was told to wait? Does `Provider` implement `Reconciler`? | 1 provider, 2 keys, 2 answers owed per key | 14 k |
| `HandleMain` | Do two properties that share a handle keep it subscribed to exactly the current providers while the registry and the commander change? Does it keep the contract of `Provider`? | 2 providers, 2 properties of the main thread | 270 k |
| `HandleThreads` | Is the newest value shown at every interleaving of another thread with the main thread? | 2 fixed providers, 2 time stamps, the older of the wrong type, 1 property | 1.76 M |
| `HandleWait` | Does `waitForSubscription()` return? | 2 providers, one the commander's | 23 k |
| `Service` | Do properties, watchers, groups and clients agree after restarts, failures and exits? | 2 keys, 2 clients, 2 `Service` objects, 1 message under way per client | 370 k |
| `Wire` | Is what the application wants subscribed at the service after stops, restarts and blocking calls? Does every blocking call and every wait end? | 2 keys, 2 calls of `subscribe`, 1 restart of a service that was there first | 520 k |
| `Registry` | Is a change of files or database missed? Is anything torn ever read? Do caches in all threads follow? | 1 key, 2 files, 3 inodes, 2 infos (one in another thread), 2 changes, 2 runs of the tool | 2.35 M |
| `Programs` | What stands on `libcontextprovider`: several providers of a property; a program on the C API; `context-provide`; type checks | 2 providers, 2 values, 4 calls of `setValue`; 2 keys, 2 listeners, 2 addresses; 1 key, 4 types, 2 changes of the registry; some 100 types with 40 values | 1.2 M |
| `WireLateProvider`, `HandlePendingRace`, `RegistryUnnoticed`, `ProxyRecreated` | see *Findings* | the smallest that show the case | |

`Programs` checks four models that share no state: the variable
`program` picks one at the start, and each of them only takes its own steps, so that
their states add up instead of multiplying.

Why these bounds are enough.  The providers are independent of each other inside
`Provider`; keys interact only through the shared queue and the shared
`handleSubscribes`, for which two are enough.  Two owed answers let the answer to
an earlier subscription come after a later subscription.  In `PropertyHandle` two
providers make all the differences (old and new, commander and registry, older
and newer value), two properties make the first and the last of several
subscribers; calls that hold `subscribeCountLock` exclude each other, so that one
property in another thread is enough to have all its steps interleaved with the
main thread, while `HandleMain` has the sharing.  All runs of the handle have
`ReadyWhenReady = TRUE`: what they check is the handle's own bookkeeping, which such a
plugin must not upset; in `ProviderMain`, which asks what the plugin keeps, it is `FALSE`,
because of the first finding.  In `Wire` one restart leaves
calls of one life of the service to the next, and two calls of `subscribe` make two
calls of one key under way, or two keys pending; every renewal adds one more.
`MaxOwed` is so large there that it stops nothing (`PluginAssumption`).  In `Registry` two
files make a parse that is half done and a directory that has the same number of
other files; two runs of the tool make a database that is replaced, and one that fails
before one that succeeds; keys do not interact.  In `ServiceBackend` two
clients make the last one to leave, two keys a group that is partly subscribed;
one message per client under way is enough for the stale `Subscribe` after a
restart, and the notice of exit may follow it.  Four ticks of the clock let each of
two providers set, hear, and set again.  Two listeners share a key or not, one may
be a group.  The theorems below need no bounds.

Symmetry is used only where safety alone is checked (`HandleMain`, `HandleThreads`,
`Service`, `Registry`, `Programs`), over sets whose members the module does not
distinguish.  Deadlock is not checked where the bounds stop the system.

### Fairness

`Provider!Fairness`: posted calls are dispatched however busy the loop is (strong:
the queue of the main thread is first in, first out, and other events come in
between); a call that began goes on (weak); a plugin signals ready or failed after
its construction and answers each call, as the contract demands
(`sub/provider.cpp:61-77`).  `HandleFairness` adds that a thread inside a library
call is scheduled again and that the bus answers whether the commander is there.
`WholeFairness`, of `ContextKitPlugin`, is that of the event loop, of a main thread that
blocks, and of a bus or service that answers each call; that the plugin answers
follows.  Nothing is assumed of the application, of the registry, of clients, or of a
plugin that has been constructed beyond its answers.  The other modules have no
fairness: their properties are safety, stated of the moments at which nothing is
under way.

### Properties

* `IntentReachesPlugin`, `NoLostWakeup`, `EventuallyReconciled`,
  `ImplementsReconciler`: the chain from the intention to the plugin, including the
  check in `queueOnce` that could drop the one call that was needed.
* `UnfinishedIsOwed`, `SubscriptionFinishes`, `WaitEnds`: nobody waits for nothing.
* `WantedAreSubscribed`: the intention reaches the service over D-Bus.
  `WatchersAwaitReplies`: a blocking call cannot wait for an answer that has gone.
* `HandleIntent`, `PendingIsUnfinished`, `ShowsLatest`: handle and providers agree.
  `KeepsProviderContract`: the handle uses its providers as `Provider` assumes, in
  particular that calls on a key alternate; the mapping `mainThread` takes code of the
  handle for application code.
* `AnswersAreCurrent`, `CompiledIsSeen`: no change is missed by watches that are taken
  down and put up again, by counting files, by comparing inodes that are used again.
  `ImplementsReader`: what is read is whole, and was current then.
  `XmlInfosFollow`, `XmlTrackedFollow`: caches filled during a reload, in any thread, and
  clients that only apply differences, end up with the truth.
* `SubscribedWhileClients`, `GroupCounts`, `SubscribersAreKnown`, `DeadAreForgotten`:
  three separate records of who is subscribed (the adaptor's list, the property's
  flag, the group's count) and the clients' own view.
* `BookkeepingFollows`, `ClientIsInformed`, `TimesAdvance`: emissions against values.
* `CallbacksToldTruth`, `FirstAnswerIsFresh`, `HeapIsOwned`: what the C API documents.
* `DemandFollows`, `ProxiedFollow`, `OverridesHold`: the commander between its user, its
  clients and the real providers.
* `ChecksAsDocumented`, `DumpedTypeIsRead`: the code of types against their definition.

## Findings

Each is a run that TLC finds violated.

* `WireLateProvider`: the plugin says ready at once, without knowing whether the service
  runs; the first `Subscribe` fails.  When the service appears the plugin says ready
  again, but `onPluginReady` returns if the plugin is ready already
  (`sub/provider.cpp:218`), so that a subscriber that was started before its provider
  stays without the property.  A service that is there first, `Wire`, is followed
  through every restart, because its stop is noticed and makes the plugin fail.
* `HandlePendingRace`: in `PropertyHandle::subscribe`, the main thread may finish the
  subscription between the return of `Provider::subscribe` and the insertion into
  `pendingSubscriptions`; the entry then stays and `waitForSubscription()` loops.
* `RegistryUnnoticed`: `connectNotify` of `InfoBackend` takes a pointer and overrides
  nothing, so that connections are never counted; the database backend reloads and
  signals nobody, and info objects keep their old providers.
* `ProxyRecreated`: a change of the registry replaces the proxy of a key that has clients;
  the clients get null and the new proxy never subscribes to the real provider.

The hazards in `PROJECT.json` name further places where a model has a behaviour
that no property forbids, with a note for each.  Among them: after a change of provider
the value of the former one stays if the new one has none; with a ready plugin
`blockUntilSubscribed` returns before the key has been subscribed; answering an
overheard value with an older one clears `overheard`, and the next `setValue` of the
same value is silent; the end of a subscription is signalled before its value is stored;
`updateProvider` works without the lock of `subscribe()`; a declaration file that changes between being read and being
watched is missed; a posted change arrives after `unsubscribe()`; a key stays subscribed
at the service because `newSubscribe` was posted; a client exits before it is watched.

## Proofs

All theorems hold for every value of the constants that satisfies the module's
assumption.  Each proof has one inductive invariant, shown by one step per action.

`ProviderProofs`, under `ProviderAssumption`:

* `InvHolds`: the inductive invariant.  Its parts: `QueueInv`, that `callQueue` is
  exactly the set of posted calls and each is posted once, which `NoLostWakeup` needs
  because `queueOnce` only looks at `callQueue`; `ScheduleInv`, that a key is never
  scheduled both ways and that the schedule agrees with the intention.
* `TypeCorrect`, `WakeupHolds`: from it.
* `IntentHolds`, `RefinesReconciler`: with `ReadyWhenReady = FALSE`, by `DifferenceInv`:
  the plugin's keys and the intention differ by exactly the schedule.  That is the
  strengthening that makes `IntentReachesPlugin` inductive; a ready that is
  ignored breaks it, which is what the first finding comes from.
* `UnwantedDropped`: the half of it that holds of every plugin.  A ready that is ignored
  makes the plugin keep too little, never too much (`KeptByNow` bounds its keys).
* `OwedHolds`: with `FailureAnswersPending = TRUE`, by `OwedInv`; `WaitsExplained` is what
  remains of it without: who waits for nothing scheduled or owed waits for a plugin
  that failed, and `onPluginReady` renews the key.

`ContextKitPluginProofs`, under `PluginAssumption`:

* `WholeInvariant` says that calls and replies on the wire match the watchers;
  `WatchersAwait` follows.
* `PluginKeepsContract`, `WholeSpec => Spec`: the plugin, with listener, bus and service,
  never makes the `Provider` take a step its contract does not allow, so that every
  theorem about `Provider` with these constants holds of the whole.
  `WholeOwesAnswers` and `WholeDropsUnwanted` are carried over; this plugin signals ready
  while it is ready, so that `IntentReachesPlugin` is not.
* `PluginInvariant` adds what is posted (`PostInv`: the Provider's calls in their order,
  a `newSubscribe` for every pending key), how far the plugin is (`StateInv`), that the
  latest notice of the name says what is true (`NoticeInv`), and where each key is that
  the plugin was asked for (`AskedInv`: pending, or the last call on the wire about it
  subscribes it, or the service has it and no call takes it away).  `PluginTypes` follows.
* `WantedSubscribed`, with `ServiceFirst`: from this invariant and from `NoLostWakeup`,
  which `PluginKeepsContract` brings down from `Provider`.  Without `ServiceFirst` it is
  false: `WireLateProvider`.

`HandleProofs`, under `HandleAssumption`.  `Serial` says that all properties live in the
main thread or that the providers never change; otherwise `updateProvider` runs in the
middle of another thread's `subscribe()`, without its lock.  TLC refutes `HandleIntent` and
`IntentReachesPlugin` there, so the assumption is not for the proofs' sake.  What the race
leaves intact is proved without it, by `BaseInv` (the types, the owner of the lock, `CountInv`):

* `LockedCount`: one property at a time is inside `subscribe()` or `unsubscribe()`, and
  `subscribeCount` counts the connected ones.  `HandleTypes` adds the values (`ValueTypes`).
* `HandleLosesNoWakeup` (`WakeupInv`, over `CallsPosted`).
* `HandleWaitsExplained` and, with `FailureAnswersPending`, `HandleWaitsOwed` (`WaitsInv`): only
  the handle's key is waited for, and it is scheduled, owed, or forgotten by a failed plugin.

With `Serial`:

* `HandleInvariant` and `IntentAgrees`.  The invariant relates, for each provider, what it
  wants to how far each loop over the providers has come (`WantedFrom`).
* `WaitsLongEnough`, by `WaitingInv`: at rest, an unfinished subscription is in
  `pendingSubscriptions`, so that `waitForSubscription()` does not return too early.  For
  properties of the main thread `PendingAgrees` adds the converse (`PendingInv`), which other
  threads violate: `HandlePendingRace`.
* `LatestShown`, for providers that never change: values alone disturb `ShowsLatest`, and
  `LatestOf` computes a maximum (`LatestIsNewest`).  That finite sets of numbers have one
  (`NewestExists`) is shown with a smallest subset that has none, since inclusion is well
  founded on finite sets; this is why the sets of providers are assumed finite.
* `HandleKeepsContract`, the refinement: each step of the handle is one of `Provider` or a
  stutter.  It needs that who is about to subscribe has not subscribed (`CallsAlternate`)
  and that the bound `MaxOwed` is respected by whole loops (`OwedInv`).
* The prover cannot take a temporal theorem through an INSTANCE, so that what the contract
  implies is proved again over `HandleSpec`, such as `HandleUnwantedDropped`, of any plugin,
  and `HandleIntentReachesPlugin`, of plugins that are `~ReadyWhenReady` (`DifferenceInv`).
* Three theorems join the levels.  `PendingOwed`, of the main thread: a provider in
  `pendingSubscriptions` has the key scheduled or owes an answer, so that
  `waitForSubscription()` never waits for nothing.  `PropertiesReachPlugins`, with
  `~ReadyWhenReady`: at rest, a ready plugin with nothing scheduled keeps the key exactly if a
  property is subscribed and the provider is a current one.  `PluginsServeProperties` is the
  half of it that holds of every plugin: none serves the key in vain.  The other half is
  false of a plugin that says ready while it is ready, such as the repository's, for the
  reason of the finding `WireLateProvider`; for that plugin, with a service that is there
  first, `WantedSubscribed` (in `ContextKitPluginProofs`) takes its place.

`RegistryProofs`, under `RegistryAssumption`:

* `ReadInvariant`: what is linked or open is whole, and the tool writes elsewhere
  (`DatabaseInv`); a client in the middle of a reload knows the former keys (`TrackedInv`).
* `ReadersSeeWhole`, the refinement: a change of a file and the rename are `Publish`,
  opening the database and parsing a file are `Read`, the beginning of a reload is `Forget`.
* `TrackedFollows` and `InfosFollowFiles` hold without any assumption on when files
  change.  `InfoInv` says why: while files are read, an info that will not be told is right
  to say that its key is undeclared, because a parse only adds.
* `AnswersCurrent` and `CompiledSeen` assume `~ChangesDuringReads`, with `XmlInv` (what
  is parsed is watched; files that appeared show in the number of files) and `CdbInv`
  (the reader has the remembered inode, or a notice is there).  That equal numbers of
  files mean equal sets needs the finiteness of `Files`.
* `RegistryTypes` needs `ReloadInv`: a listing that is being read never counts more files
  than it held, and a notice implies its watch.

`ServiceProofs`, under `ServiceAssumption`:

* `ServiceInvHolds`: `BusTypes`, `AdaptorInv` and `QuietBeforeLoop`.  `stop()` makes only
  the adaptors of `properties` forget their clients, so that `OnlyProperties` is needed;
  properties join the group before anybody can be subscribed, so that
  `QuietBeforeLoop` is; the counts are compared with cardinalities of finite sets
  (`FirstAppearedCounts`, `LastDisappearedCounts`).
* `ServiceTypeCorrect`, `SubscribedHolds`, `GroupCountsHolds` follow; `DeadForgotten` is an
  action property, from the invariant and the lemma that only a dispatch shortens
  what a client has sent.
* `SubscribersKnown`: by `KnownInv`, that a client that wants a key is known, or the last of
  its messages about the key is a `Subscribe`, or it will resubscribe (`EndsKnown`).

`PropertyPrivateProofs`: `PropertyInvariant` orders time stamps along each wire, up to the last
emission; `PropertyTypes`, `BookkeepingHolds`, `ClientInformed` and `StampsAdvance` follow.

`ContextCProofs`: `ContextCInvariant` consists of the life of keys (`LifeInv`), the counts of
groups during a signal that some listeners have seen and others have not (`CountInv`,
`SeenBy`), what was said during the signal (`SaidInv`) and the heap (`HeapInv`).

`ContextProvideProofs`: `ProvideInvariant` says which proxies are enabled (`EnabledUnlessAdded`)
and what each has been told (`ProxyIsTold`).

Only model-checked: liveness (`EventuallyReconciled`, `SubscriptionFinishes`, `WaitEnds`),
which depends on fairness and on which actions are enabled; `ChecksAsDocumented` and
`DumpedTypeIsRead`, about definitions that are recursive, with operators that the provers
cannot unfold; and `ProgramsTypeOK`, which joins three type invariants that are theorems of
their modules (`PropertyTypes`, `ContextCTypes`, `ProvideTypesCorrect`) and belongs to the
instance.  Every other property of a passing run is the statement of a theorem.

## Not modelled

* The old protocol (`SubscriberInterface`, `GetSubscriber`): tried for the commander on the
  session bus only, before the new one.
* The initial `NameHasOwner` query of `DBusNameListener`, which only the commander's listener
  makes; `PropertyHandle` lets the commander come and go at any time.
* `ValueChanged` between plugin and service, and the conversion of values.
* Reading the files of the type registry, `duration.cpp`, documentation of keys, the
  backend "temporary", the hash table of the database, and power loss.
* Shared D-Bus connections and the deprecated `setConnection`.
* Logging, the Python bindings, `context-listen`, `context-ls`, build files, the ontology
  and its documentation: wrappers, printing and data, without state that a property is about.

The map covers the code that has state or decides something; tests, headers,
printing and bindings are a large share of the repository's lines.

## Plan

Done: `Reconciler`, `Provider`; `PropertyHandle`; `ServiceBackend`; `PropertyPrivate`;
`ContextKitPlugin` for the new protocol; `Registry` with its abstract reader; `ContextC`;
`ContextProvide`; `ContextTypes`; and the proofs above.

Left, in this order:

1. Values in `ContextKitPlugin`: `ValueChanged` with its connection after the call of
   `Subscribe`, and replies that a blocked thread handles before older messages.
2. The old protocol with the two interfaces that `reset()` deletes, and the commander's
   listener with its query, below `PropertyHandle`.
3. Theorems: the intention of a handle over `ContextKitPlugin` in the place of the generic
   plugin; the registry without the assumption on when files change, as far as it holds.
