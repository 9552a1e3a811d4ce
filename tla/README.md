# Verification of eventbridge

TLA+ models of eventbridge, the TLC configurations that check them on small
instances, and proofs, checked by TLAPS, for every instance. Every definition
is translated from the Go code under `src/app`; `PROJECT.json` gives for each
one the lines it stands for ("map"), for each property a plausible bug of the
code that breaks it ("mutants"), and the places of the code where things can go
wrong that a test would hardly reach ("hazards").

## 1. The system

eventbridge has two programs and a database, a Redis and a RocketMQ between
them. The *service* takes requests: it keeps buses, rules, targets and schemas
in the database, and sends every posted event to a source topic of its bus. The
*job* receives the events of all buses, matches them against the rules, and
dispatches them to the targets; what fails goes to a retry topic.

```
 request -> service -> rows + version  ==poll==> reflector -> informer -> handler
              |            (database)                                       |
              | event                         consumers, producers, executors
              v                                                             |
        source topics ==> job: consumer -> HandleEvent -> executor -> target
              retry topics <== failed target events <------------------'
```

### 1.1 Inventory

| part | code (under `src/app`) | state it keeps | operations | what is hard | what makes it correct |
|---|---|---|---|---|---|
| informer | `internal/informer` | deltaQueue, retryQueue, heap, map of items, timer, errgroup | Watch and enqueue, handle, retry, Close | five kinds of goroutine, blocking sends, closing order | no report lost; map, heap and timer agree; shutdown ends |
| reflectors | `job/internal/data/bus.go`, `rules.go`, `service/internal/data/reflector.go` | cursor, map of the last read, map Get reads | Watch (version, pages, comparison), Get, Close | reads outside a transaction while writers go on | a Watch that caught up has the whole table |
| configuration writes | `service/internal/data/bus.go`, `rule.go`, `entext/tx.go` | rows, version table | create, update, delete of buses, rules, targets | row and version bump in one transaction or in two | every committed change is announced |
| rules | `internal/rule/rule.go` 525-683 | per bus a map of executors, replaced as a whole | GetExecutors, updateRule, deleteRule | copy-on-write without a lock | what runs is what the reflector has; no closed executor is handed out |
| executor | `internal/rule/rule.go` 136-523 | matcher, transformers, dispatchers, targets | Pattern, Transform, Dispatch, Update, Close | one step of Update failing | after Update every target is dispatched as configured |
| patterns | `internal/rule/pattern` | none; tests of fields with their paths | NewMatcher, Pattern, GetFieldByPath | a tree of closures built by recursion over maps, slices that share arrays | an event passes the rules whose pattern means it, and no others |
| transforms | `internal/rule/transform` | none | parse, render | - | - |
| dispatchers | `internal/rule/target` | connections | NewDispatcher, Dispatch, Close | errors that are replaced | a refused event is an error |
| consumer | `job/internal/data/rocketmq.go` 75-353 | semaphore, closeC | Receive, messageHandle, Close | durations that must cover each other | a message is handled by one goroutine, and not forgotten |
| event repository | `job/internal/data/event.go` | none; goroutines per event | HandleEvent for source and retry messages | partial failure, crash between dispatch and ack | at least once for every target |
| job buses | `job/internal/data/bus.go` 255-664 | per bus 4 consumers and 2 producers | updateBus, deleteBus, Send, Close | partial failure, use of what is being closed | every consumer that runs belongs to a bus and ends with it |
| sender | `service/internal/data/sender.go` | per bus 2 producers | updateBus, deleteBus, Send | the same | the same |
| event ids, primary keys | `internal/rule/event.go`, `service/internal/data/entext/hook.go` | one generator per source or table | NewEventExt, hook | Load and Store in two steps | ids are unique under a source |
| schemas | `service/internal/data/event.go`, `cas.lua`, `local_cache.go` | rows, Redis entries with versions, local cache, flights | read-through, compare-and-set, deletion | late fills, null entries, expiry of the version | staleness is bounded; what a writer answered is seen |
| event server | `internal/event`, `job/internal/server/event.go` | handler | Start, Stop, middleware | - | - |
| use cases, gRPC and HTTP servers, configuration, logging, metrics, tracing, wiring | `*/internal/biz`, `service`, `server`, `cmd`, `data/*.go` | none of their own | conversion and set-up | - | - |

They interact through the database (service to reflectors, by polling a version
number), through callbacks (informer to the handlers of rules, buses and
sender), through shared maps (`sync.Map` of executors, buses) that events read
while handlers replace their entries, and through RocketMQ topics (service to
job, and job to itself for retries).

## 2. What is modelled

| module | models | state and actions |
|---|---|---|
| `Informer` | `WatchAndHandle` | `loop`, `consumer`, `worker`, `retrier` are the places of the goroutines; `deltaQueue` and `retryQueue` the channels; `pq`, `items`, `due`, `tries`, `timer`, `expiredTime` the heap, its map, the time left to each priority, the back-off's count, the timer and the variable that remembers what it was set for. After a Handle the timer is set to the head (`ArmTimer`); when a key arrives, only if the head is not due at `expiredTime` (`RearmTimer`). One action per channel operation, call of Handle, result and timer event. `noted`, `applied`, `gaveUp` count reports, for the properties only. |
| `KeyDispatch` | what the informer promises a handler | `waiting`, `working`, `retrying`: a key waits, is handled by a worker or by the retrier, is applied, waits again or is given up. |
| `Reflector` | the three `Watch` functions and what the repositories write | `rows`, `version`, `pending` are the database; `pc`, `cursor`, `next`, `fetched`, `inter`, `view`, `todo` the reflector. A row and its bump commit in one step or in two (`CommitTogether`, `CommitRow`/`CommitBump`/`BumpFails`), or rows go without one (`DropRows`), as each repository function does it. `ahead` remembers that rows have changed since the version was raised. |
| `Rules` | `rules.GetExecutors`, `updateRule`, `deleteRule`, `handler.Handle` | `executors` is the value of the `sync.Map`, `proc` the goroutines in Handle with the map they loaded; Load and Store are two actions. `reported`, `given` and the failing Handle are `KeyDispatch`'s `waiting`, what it gave up and what it retries. |
| `PatternMatcher` | `NewMatcher`, `parsePattern`, the match functions, `GetFieldByPath` | no state: operators from a decoded pattern and an event to the outcomes the code may have. `Means` reads the same off the pattern's tree and is the reference. |
| `RuleMatching` | `Rules` with patterns for contents | `pattern` gives each content of a rule its pattern; `Says` is what the matcher of a running executor may answer. |
| `Executor` | `NewExecutor`, `Update`, `Close` of one executor | `pattern`, `targets`, `transformers`, `dispatchers` are its fields, `content` what each dispatcher was built from, `proc` the goroutines in Handle with what their deferred function has to close. What happens under the write lock is one action, each deferred Close another. |
| `Buses` | `updateBus`, `deleteBus`, `Handle`, `Close` of the job's buses and of the service's sender | `stored` is the entry of the `sync.Map`, `client` every consumer and producer ever built, `proc` the goroutines in Handle. Load, each build, Store and each close are actions. `plan` says which program it is. `BusReported` is what the reflector does to it: it stores, deletes, or reports again. |
| `BusControl` | a program's reflector and the clients of one of its buses | the variables of `Reflector` and `Buses`: the step of Watch that stores or deletes the bus (`ApplyBus`) and the one that returns its key (`WatchReturnsBus`) are steps of both, all others of one. |
| `RuleControl` | the job's rule reflector and the executors of one of its buses | the variables of `Reflector` and `Rules`, put together as in `BusControl`; one Watch may report several rules of the bus (`Found`), and rules of other buses. |
| `Configuration` | what the repositories promise | `bus`, `rule`, `schema`; every request is one atomic action. |
| `ConfigStore` | the repositories with transactions | the same rows, and `busLock`, `ruleLock`, `req`, `at`, `seen`: the row locks and the request each goroutine serves; lock, read, second connection and commit are actions of their own, and a request may fail before each. |
| `ConfigTable` | the table of the rules, or of the buses, between the repositories and a reflector | the variables of `Reflector` and `ConfigStore`: each write of a request is its INSERT, UPDATE or DELETE on the reflector's rows and what it does to the version (`CreatesRule` to `DropsRules`, `CreatesBus`, `RemovesBus`, `RaisesVersion`, `NeverRaises`); `Reads` is a step of the reflector. |
| `SchemaCache` | `FetchSchema`, `PostEvent`, `CreateSchema`, `UpdateSchema`, `DeleteSchema`, the end of `DeleteBus`, `cas.lua` | `row` is the database's, `cache` Redis' two keys, `local` go-cache's entry; `at`, `op`, `got`, `left` the requests and their time. One action per call of Redis or the database. |
| `Consumer` | `Receive`, `messageHandle`, `Close` and as much of RocketMQ as they rely on | `where`, `hidden`, `attempt` are the broker's; `pc`, `want`, `batch`, `slot`, `closed` the consumer's. Every duration is a constant, `Tick` lets time pass. |
| `Delivery` | `HandleEvent` and what it calls, the dispatchers' errors | `rule` and `target` are the goroutines of the two errgroups, `source` and `retry` the messages; crashes and lost acknowledgements give them back. `loaded` are the rules the job has an executor for: none when it starts, at first and after a `Crash`; `LoadRule` is the informer's updateRule, some time later or never. `limit` are the limits of the two errgroups, at which eg.Go waits (`RuleStarts`, `TargetStarts`). `missed` remembers, for the properties, the rules that were not loaded when the last HandleEvent of an event began. A source message is "held" from its delivery until HandleEvent starts: `Deliver` brings several, and `Drop` gives back those that never get there. |
| `EventPath` | the consumer of a source topic with `HandleEvent` for its handler | the variables of `Consumer` and `Delivery`; what the consumer does to a message moves it in `Delivery` (`Follow`), `HandleOk` and `HandleFails` are the answers HandleEvent gives, and `Restart` is a crash of both, after which the executors are loaded again beside the consumer. |

`MC...` modules give the constants values TLC can check; `...Proofs` modules
hold the theorems: `BusControlProofs` those of `Buses` and `BusControl`,
`RuleControlProofs` those of `Rules` and `RuleControl`, `ConfigStoreProofs`
those of `ConfigStore` and `ConfigTable`, all three on top of
`ReflectorProofs`, and `EventPathProofs` those of `Consumer`, `Delivery` and
`EventPath`.

What one module assumes of another: `Rules`, `Executor` and `Buses` take the
informer as module `KeyDispatch` has it (a reported key is handled, again after
a failure, and several at a time), and `Informer` implements `KeyDispatch`
(property `ImplementsDispatch`); a key whose Handle fails is reported again or
given up, which `given` in `Rules` and `abandoned` in the two others remember.
`RuleMatching` puts the matcher of `PatternMatcher` into the executors of
`Rules`. `Delivery` takes it of the consumer that a message whose handler fails
comes again, up to the group's limit, and is handled by one goroutine at a time;
in `EventPath` the consumer is `Consumer`'s, and none of this is taken. Retry
topics have consumers of the same code and stay as `Delivery` has them.
`Reflector` takes any writers whose
rows and versions commit together or apart or whose versions are not raised; in
`ConfigTable` its writers are the repositories of `ConfigStore`. `Buses` and `Rules` let the reflector say anything at any time; in
`BusControl` and `RuleControl` it says what `Reflector` does. `Informer` takes
any answers of Watch and Handle. `ConfigStore` implements `Configuration`
(property `Atomic`).

### Abstractions

Names, contents of rows and events are model values. Time is the time left
until a timer fires, in units. A failure of the database, the broker or an
endpoint is a choice at the step where the code calls it; where the call may
have had its effect all the same (an ack, a send, a dispatch) both outcomes are
there. A context that ends is a failure of the call it was passed to.

* `Executor`: a rule keeps its executor while it lives; one that is created
  again gets another (`Rules`). Contents no transformer or dispatcher can be
  built from reach the job only when the service that accepted them is of
  another version; the code provides for them, and so does the module.
* `PatternMatcher`: the JSON of patterns and events is decoded. A string is a
  name: that one begins or ends with another, or is an address of a network, is
  a relation over the instance's few strings; numbers are integers. A Go map is
  iterated in any order, so a parse has several results and a loop over a map
  several answers. Slices are kept with the capacity of their array: `append`
  to the path of a parent writes into the array that a sibling's path shares.
* `Buses`: one bus, for entries of two buses never meet. Send reads the stored
  bus and changes nothing. Close looks at its context before each bus: it closes
  the clients of this one (`CloseStored`) or returns at once (`CloseLeaves`).
* `Rules`: a content is built or it is not. Contents that fail after Update has
  recorded them are in `Executor`.
* `Delivery`: the executors of a rule whose targets are all deleted go with its
  last target. What keeps a rule from being loaded (`Reflector`, `Rules`) is
  that `LoadRule` never happens.
* `ConfigStore`: what a transaction writes is invisible until it commits and
  its rows are locked by then, so its writes, of which raising the version is
  the last, are one step with the commit. A statement takes effect only while
  its request runs: one that a cancelled request leaves running in the database
  would escape the lock its transaction held. The connection pool, which the
  second connections can exhaust, is not modelled.
* `SchemaCache`: one schema; the requests of one program, as those of another
  share neither flight nor local cache with them and are covered by what they
  do to Redis. A call of Redis takes effect before its request is over. Redis
  is one server or one shard: a reader of a replica that lags behind would be
  outside the model. `ReqTime < MinTTL` is the configuration's one second
  against the code's five to nine.

## 3. Runs

| run | what it asks | bounds and why they are enough |
|---|---|---|
| `informer` | nothing lost; heap, map and timer agree; a worker panics only after an orderly drain; every report is settled; Close ends; to the handler it is `KeyDispatch` | two keys (one can be handled while the other waits), queues of one (every send blocks), one retry before Stop, delays 1 and 2 (two orders in the heap), k1 reported twice (a newer report meets every state of the older) |
| `reflector` | a Watch that caught up has the whole table; what Get reads is what the next Watch compares with; the view settles | two names, pages of one row, three ids, four writes: create both, delete and create one again between two pages |
| `rules` | handled one at a time, the executors end as the reflector's rules; none handed out is closed; an event passes the rules whose pattern means it | two rules, three changes: create, change or break, delete; 18 patterns: every kind of condition, of a subject too, two fields side by side at each depth up to the fifth, and three that are rejected; events that have the fields, lack them, or hold lists and maps in them |
| `rules_concurrent` | *violated*: Handle is thread-safe | one change of two rules |
| `rules_siblings` | *violated*: all fields of a pattern must match | one change; a pattern with two fields beside each other at the fourth level |
| `executor` | what is recorded and can be built is served; every open dispatcher has one owner; nil is closed only after a failed build; a settled key is served as the rule says | two targets (one replaced while the other is removed), contents of every kind, two goroutines, two changes of the rule, four dispatchers |
| `buses` | what is stored was made for what it is stored with; a settled bus is stored as the reflector has it; what is forgotten, and how | the job's and the service's plan, two topics, both modes, two goroutines, six clients, three changes: create, change, delete |
| `configstore` | requests are atomic; no row names a bus that is gone; what is not announced, and why | two requests at a time, without end, of every operation on two buses, a rule, two targets and a schema that moves; deadlock is checked |
| `schemacache` | no answer is older than the times add up to; what a writer answered is seen | two requests, one of which is the late fill and the other the writer and then the reader; two creations, two versions; a request of one unit against times to live of two and one |
| `consumer` | a request fits the free goroutines; no message is handled twice at a time; every message is acknowledged or dead; Close ends | three messages, two goroutines (one busy, two asked for), two attempts, every duration at its shortest, one message with earlier deliveries |
| `delivery` | at least once, for the rules that were loaded; no goroutine of an event outlives its answer; no handler waits for itself at the limits of its errgroups | one event, two targets of one rule or of two, two deliveries, one crash; one rule at a time or one target of a rule at a time, the smallest limits that make a goroutine wait (`config.go` raises 1 to its default of 20; with two rules and two targets a higher limit is none); `MCSpec` lets the job crash where it runs one rule at a time, with some of its two rules done and others not, some loaded and others not |
| `delivery_refused` | *violated*: what an HTTP target refuses is retried | as `delivery` |

Deadlock is checked in `informer`, where only a returned or panicked
WatchAndHandle may stop, and in `configstore`, whose requests never run out.
The other systems stop when the bounds are reached or everything is settled, so
their configurations switch the check off; where something must not stay
undone a liveness property, or `NeverStuck` of `Delivery`, says so.

Symmetry is used for values that are never compared other than by equality, and
in no run with a liveness property.

### Fairness

Three runs have liveness properties.

* `Informer`: goroutines are scheduled and Handle returns (weak fairness per
  goroutine); the retrier's `select` chooses among ready cases at random, so
  each of its cases is strongly fair. Watch may fail for ever: nothing is
  assumed of its results, only that it looks at the closed channel, as the
  reflectors' polling loops do.
* `Reflector`: the informer calls Watch again; a transaction that began ends.
* `Consumer`: goroutines are scheduled, time passes, and the broker does not
  withhold a deliverable message for ever from a consumer that keeps asking
  (strong fairness, per message).

## 4. What the models show of the code

Three runs end in a violation, each of a sentence of the repository that
`PROJECT.json` quotes: two keys of one bus handled together lose an executor,
though handlers are asked to be thread-safe (`rules_concurrent`,
`handler.go:5`); the keys of a map below three others share the array of their
path, so that every test but one looks at the wrong field and an event passes
that lacks a field of the pattern (`rules_siblings`, `pattern.go:169` against
`docs/en/rule.md:13-16`); an HTTP answer other than 200 counts as delivered
(`delivery_refused`, `concepts.md:31`).

Other properties hold with an exception that the code makes, and say so:

* `CaughtUp`, `EventuallyLatest`: the reflectors move their cursor before they
  read the rows; when a page cannot be read, the change is not applied before
  the next one is made (`missed`). A bump that fails after its row has
  committed has the same effect (`ahead`; `failed` in `ConfigStore`).
* `Announced`: deleting a bus deletes its rules and does not raise their
  version, though `erd.md:31` has a change of a rule raise it (`removed`).
* `SerialHandlesApply`: a rule whose pattern cannot be parsed is given up by the
  informer after some retries; the executor of its last good content stays, and
  the rule is handled again when it changes (`given`).
* `MatchedAsWritten`: where two keys of one map share the array of their path
  (`SharesPath`: maps with several keys at the depths at which append finds
  room) the matcher says nothing reliable. Of an event without a subject
  GetFieldByPath returns a nil `*string` (`event.go:169-172`), which is not null
  and exists: a pattern that asks for `null` or for `exists: false` does not
  match it and one that asks for `exists: true` does, against
  `docs/en/rule.md:523` and `:286` (`NilSubject`). A field that holds a map or a
  list where the condition is looked up in a Go map, and a negative index into
  a list, panic (`Unhashable`).
* `NoEventLost`: a job that starts has no executors until its informer has
  loaded the rules, and nothing keeps the consumers from receiving before
  (`rule.go:557-562`, `:584-589`). HandleEvent then answers nil
  (`job/internal/data/event.go:55-60`), and the event is acknowledged without
  having reached anybody. So it is lost to the rules that were not loaded when
  the HandleEvent that answered for it began (`missed`), at the first start and
  after every crash; to no other. Retry messages are not: without an executor
  HandleEvent answers with an error, and they come again.
* `PanicOnlyAtShutdown`: a worker that fails while the informer shuts down may
  send on the closed retryQueue.
* `CrashNeedsFailedBuild`, `SettledServes` of `Executor`: a target whose
  dispatcher could not be built stays recorded without one; its removal closes
  nil, and the Close of a replaced dispatcher overwrites an error of Update.
* `SettledServes`, `SettledStored`: nothing is promised of a key whose last
  Handle failed and was given up (`abandoned`), until it is handled again.
* `ForgottenOnlyByDelete`: `deleteBus` closes two of the job's four consumers,
  and an update that fails half-way leaves running what it has built; Close
  waits for their goroutines. A Close whose context has ended leaves the clients
  of the buses it has not come to (`bus.go:357-359`).
* `NoOrphans`: DeleteBus clears the bus name of the bus' schemas. The schemas
  stay, and PostEvent answers DataBusRemoved for their events, though
  `concepts.md:55` says that they are deleted, too.
* `AnsweredIsSeen`: deleting a schema and creating it again starts the version
  anew, so a late fill with the old row is taken and the new row refused until
  the entry expires; `BoundedStaleness` says for how long at most.

## 5. Theorems

Each holds for all values of the constants that satisfy the module's `ASSUME`,
which state no more than that the constants have the types the code gives them
(and, for `SchemaCache`, that a request is over before an entry expires).

* `InformerProofs`: `TypeCorrect`, `NothingLost`, `MapAndHeapAgree`,
  `TimerIsArmed`, `NoEarlyPanic`. One inductive invariant, `IInv`: `NoKeyLost`
  is not inductive alone, because an item that is in the map but not in the
  heap would not carry its key, the popped key must be known to be out of the
  heap (`Popped`), and a Handle must not have seen more reports than were made
  (`Bounded`). `TimerArmed` is not inductive either: the reset that is left out
  when a key arrives is right only because `expiredTime` is what the timer is
  set for (`TimerInv`). `PanicOnlyAtShutdown` needs the order in which the three
  channels are closed (`ClosedInOrder`).
* `InformerProofs`: `ImplementsKeyDispatch`. The places a key can wait in
  (delta queue, batch, retry queue, heap, a blocked send) are `waiting`, the
  goroutines in Handle `working` and `retrying`. Under `IInv` each action of
  the informer is one of `KeyDispatch` or leaves these alone.
* `RuleControlProofs`, the executors: `RulesTypeCorrect`, `SerialApply`,
  `OnlyOpenPublished`. As long as
  no two Handles have overlapped, the one that runs is alone (`Alone`), so the
  map it copied is still the one that is stored (`Steady`); every open executor
  is in the map or in its hands (`Owned`), under one name only (`Distinct`);
  and a rule that neither waits nor is handled is served as the reflector has
  it, or was given up with a content that cannot be built (`Served`).
* `RuleControlProofs`, with the reflector: `ImplementsReflector`,
  `ImplementsRules`, `TableRun`. As for the buses below: each step is one of
  `Reflector` or leaves its variables alone, one of `Rules` or leaves its
  variables alone, and Handle gets the map of the reflector (`Linked`). So after
  a Watch that caught up a bus whose keys were handled one at a time runs the
  rules of its rows and nothing else (`RunsTable`). The hypothesis,
  `RowsAreRules`, is that the keys of the bus are among those of the table and
  its rows hold rules.
* `EventPathProofs`, HandleEvent: `DeliveryTypeCorrect`, `AtLeastOnce`,
  `AllJoined`. Wherever a
  success is recorded, of a target, a rule or the source message, the event has
  reached the target or a retry message, or the rule was not loaded when
  HandleEvent began (`Answered`). That the success of a
  rule speaks for all its targets needs that none was left out (`Started`), and
  that a retry message has a delivery to be kept under needs the count of
  deliveries (`Counted`). `RuleMoves`, `TargetMoves`, `SourceMoves` and
  `RetryMoves` say what the step of one goroutine or message disturbs; each
  action is one of these.
* `EventPathProofs`, the consumer: `ConsumerTypeCorrect`, `RequestsFit`,
  `NeverHandledTwice`.
  `Semaphore`: only the loop that asked takes goroutines, so those it counted
  stay free. `OnTime`: how much of the invisible duration is left in each phase
  of messageHandle. The margin of ten seconds is needed only to be positive.
* `EventPathProofs`, the two together: `ImplementsDelivery`,
  `HandledOnceAcrossCrashes`, `AloneInHandleEvent`, `AckMeansReached`,
  `AtLeastOnceThroughConsumer`. The batch and the goroutines say where
  `Delivery` has a source message (`Agree`). `Delivery` lets a message be
  delivered only if it is in no HandleEvent; in `EventPath` this is no guard
  but follows from `OnTime`: the broker shows a message again only when its
  invisible duration is over, and until then the goroutine that has it has let
  go of it. The executors are `Delivery`'s: gone at each restart, loaded at any
  time, so that `AckMeansReached` and `AtLeastOnceThroughConsumer` have the
  exception of `NoEventLost`. `OnTime` outlives a crash, which frees all
  goroutines while the broker keeps its messages hidden. The hypothesis, `MessagesAreEvents`, is that
  the topic's messages are the events, none with earlier deliveries, and the
  group's limit that of `Delivery`.
* `ReflectorProofs`: `ReflectorTypeCorrect`, `WatchCatchesUp`,
  `NothingComparedAway`. While the cursor equals the version and no row has
  changed since the version was raised, the table is what it was when the
  version was read (`NothingUnread`); then the pages read so far are the table
  below `next` (`PagesSoFar`), and the keys applied so far agree with it
  (`AppliedSoFar`).
  The proof needs neither a bound on the rows per page nor an order of commits.
  That the maps are well typed needs that of several rows of one name one has
  the largest id (`LastRow`), which is taken from the well-foundedness of the
  inclusion of finite sets.
* `BusControlProofs`, the clients: `BusesTypeCorrect`, `StoredClientsServe`,
  `SettledKeyStored`, `OnlyDeleteForgets`, `CloseWaitsForDeleted`. However
  Handles overlap, what is stored and what a goroutine has in hand was made for
  its topics and mode (`StoredMade`, `Hand`, together `Shape`), because a new
  client gets a number that nothing refers to and a client never changes its
  use. While no Handles have overlapped (`Serial`), one goroutine is at work;
  what it loaded is still stored, what it closes is not, and it works for the
  bus that is wanted or the key is reported again (`AtWork`); the stored clients
  are open (`StoredOpen`). That what `Store` keeps is not what it closes rests
  on the roles: two roles never share a client. A step forgets a client only if
  it lets go of one that was stored or in hand (`KeepsHold`), which `Delete`
  does, and a failing Handle that has built something. `CloseWaitsForDeleted`
  is what this means for Close: the consumers `eg.Wait` waits for are those of
  deleted buses that deleteBus did not close.
* `BusControlProofs`, the two together: `ImplementsReflector`,
  `ImplementsBuses`, `TableServed`. Each step of `BusControl` is a step of
  `Reflector` or leaves its variables alone, and one of `Buses` or leaves its
  variables alone; what Handle gets is the map of the reflector (`Linked`). So
  every theorem about either holds in the program, and they meet in
  `ServesTable`: after a Watch that caught up, a settled key means open clients
  for every role made for the row in the table, or no bus where there is no
  row. The hypothesis, `RowsAreBuses`, is that the bus is a name of the table
  and its rows hold buses.
* `ExecutorProofs`: `TypeCorrect`, `RecordedIsServed`, `OneOwner`,
  `NoCrashUnlessBuildFailed`, `SettledAsWanted`. The first four hold together
  with what the goroutines know: nothing is built before the rule is first
  handled (`NotYet`), a target without a dispatcher had a failed build
  (`FailedBuilds`), and what a goroutine is about to remove is not in its rule
  (`GoneFromRule`), so that removals computed under the read lock do no harm
  under the write lock. `SettledAsWanted` adds what holds while Handles do not
  overlap (`Settling`): the one that runs works for the rule that is wanted or
  the key is reported again, what it compared is still so when it applies it,
  and after it has applied it the executor is as the rule.
* `ConfigStoreProofs`: `TypeCorrect`, `ImplementsPromise`, `NothingOrphaned`,
  `NothingSilent`.
  What a goroutine has read is still true when it commits, because of the lock
  it holds: the bus is there (`BusHeld`), the targets it read are those of the
  rule (`RuleHeld`), and DeleteBus has seen every schema of the bus
  (`AllSeen`). Every step is then a step of `Configuration` or a stutter.
  `Announced` is inductive with the types: a step of one goroutine leaves what
  another owes (`OthersOwe`), and its own debt ends in `Raise` or in `Fail`.
* `ConfigStoreProofs`, with a reflector: `TablesKeepPromise`,
  `RulesImplementReflector`, `BusesImplementReflector`, `StoredRulesServed`,
  `StoredBusesServed`, `RulesBehindOnlyWhenFailed`,
  `BusesBehindOnlyWhenFailed`. The table has one row for each stored rule or bus
  (`RulesLinked`, `BusesLinked`, `NoTwins`), `pending` counts the goroutines
  that owe a version (`Counted`), and the table is ahead of its version while
  the rules or the buses are unannounced. So each request is one of the writers
  `Reflector` allows or leaves its variables alone: what that module takes of
  its writers is not assumed, and its theorems hold with the repositories for
  writers. With `WatchCatchesUp` a reflector that is up to date serves exactly
  what is stored, whenever its version speaks for every change, and with
  `Announced` it is behind only after the failures that section 4 names. The
  hypotheses, `TableOfRules` and `TableOfBuses`, say what the rows of the table
  hold; one of them at a time, for there is one table and one version to each.
* `SchemaCacheProofs`: `TypeCorrect`, `StalenessBounded`, `WritersAreSeen`.
  `Aged`: the age of a copy and what is left of its time to live, or of its
  request's time, never add up to more than at its beginning; every hit, fill
  and flight hands on that sum. `SetterSeen`: a request that holds a version
  older than Redis' has less time left than Redis' entry, because that was set
  after the request began and lasts longer than a request; so once the version
  has expired nobody holds an older one than was answered, and a flight that is
  joined after a miss has read at least that (`FlightSeen`).

Only model-checked: liveness and `NeverStuck` of `Delivery`, which speaks of
ENABLED (both out of TLAPS' reach here); `MatchedAsWritten`, because parse and
match are recursive over the pattern, and what a recursive definition computes
cannot be proved here.

Only proved: what `BusControl`, `RuleControl`, `ConfigTable` and `EventPath`
add. They have no run of their own: their actions are those of the modules they
compose, which the runs check where each meets its whole environment, and what
they say of the parts together is proved for every instance. TLC agrees where
it gets through: `BusControl` with one name, three writes, two goroutines and a
program with one producer and one consumer (9.7 million states), `RuleControl`
with two rules, three writes and one goroutine (5.2 million), `ConfigTable` with
one bus, two rules, two requests at a time and two writes of rules (615
thousand, `ReflectorSpec` and `Spec` among its properties) and with one bus and
three writes of it (749 thousand), `EventPath` with two events, two goroutines,
one delivery and a crash (8 million) and with one event and two deliveries
(170 thousand, `DeliverySpec` among its properties).

## 6. Not modelled

* Event ids and primary keys (`internal/rule/event.go`, `entext/hook.go`): a
  Load and a Store of a generator in two steps. That two first events may build
  two generators is plain from the code; whether the two ever give one id
  depends on the clock of Sonyflake, a library outside the repository, and
  nothing that is modelled depends on an id.
* The connection pool of the service: its size is a setting of the driver, and
  the wait of transactions for second connections ends with the requests'
  deadlines, which `ConfigStore` has as failures.
* Transforms: templates and JSON paths, conversion of data with little control
  and no state.
* The use cases, the servers and services, the event server with its
  middleware, configuration, logging, metrics, tracing, registration, start and
  stop: conversion, set-up and I/O. Generated code (`ent`, protobuf, wire).
* Of the partly modelled parts: the routing of messages to groups on an ordered
  bus, the construction of HTTP and gRPC requests, and the ent client.

## 7. Plan

Done, in the order of importance: the way of a configuration change from the
request to the job (`ConfigStore`, `Reflector`, `Informer`, `Rules`,
`Executor`, `Buses`, and from the request to the table
`ConfigTable`, from the table to the clients and the executors `BusControl` and
`RuleControl`), the way of an event (`Consumer`, `RuleMatching`, `Delivery`,
`EventPath`), what a posted event is checked against (`SchemaCache`), the
refinements `Informer` => `KeyDispatch` and `ConfigStore` => `Configuration`,
and the proofs above. What would come next:

1. `Executor` in the place of the executors of `RuleControl`.
2. The consumers of the retry topics in `EventPath`.
3. The table of the rules and that of the buses in one program, with both
   reflectors of the job.
