# A verification of cachalot

TLA+ models of [cachalot](../src/README.md), a Go library of typed caches: what
its decorators, its merged loaders, its multi-level cache, its builders, its
byte path and its stores do when requests interleave, contexts end, clocks
differ, options come in any order and stores or loaders fail. TLC checks the
models on small instances; TLAPS proves properties of the merged loader, of the
single-level chain and what is observed of it, of the multi-level cache, of the
builder, of the stores and of logical expiry for every value of their constants.

## The system

A *cache* is a chain of decorators around a *store*, assembled by a builder. A
*multi-level cache* puts several caches in front of one loader. Everything runs
in the goroutines of the callers, except the loaders behind a singleflight
wrapper, the parallel writes of a multi-level cache, and asynchronous
write-backs. Nothing is persisted by the library.

| Component | State | Operations | Hard behaviour | What makes it correct |
|---|---|---|---|---|
| Merged loader (`core/decorator/loaderfn.go`) | the keys with a flight; each flight's result; each caller's channel | call, loader returns, deliver, give up | callers come and go while a flight runs; the flight uses the context of the request that began it and outlives it | one load of a key at a time, no caller forgotten, no result reused, errors of contexts only with a cause |
| Single-level chain (`core/decorator`: `singleflight.go`, `nil_cache.go`, `missed_loader.go`, `logic_expire.go`; `core/cache/base.go`) | the store, the group of merged reads, two merged loaders | `Get`, `GetWithTTL`, `Set`, `Delete`, `Clear` | a read is up to six steps (read, load, write back, protect, reload, rewrite) between which others write, and is merged at two places | answers that were true, invalidation that is final when nothing overlaps it, data in hand never lost to a failed write-back, everybody returns |
| Multi-level cache (`core/multicache`, `multi_cache.go`) | the levels, a merged loader | `Get`, `Set`, `Delete`, `Clear` | sequential fetch, parallel writes, asynchronous write-back that outlives its request, levels that fail one by one | as above, at every level; strict and tolerant mode; levels that differ only for a reason |
| Builder (`cache.go`, `cache_features.go`, `compile.go`, `core/cache/option.go`) | features, decorators, errors so far | `With...`, `Build` | options in any order, sticky errors, `Build` called again | the chain has the documented order, each decorator once, no nil loader |
| Stores (`stores/*`) | the client's data and expiry times | the `cache.Store` interface | TTL arithmetic, reads in two commands, buffered or client-side cached data | the contract in `core/cache/store.go`: 0 is for ever, negative is refused |
| Multi-level builders (`multi_cache.go`, `core/multicache/write_back`) | a configuration | `With...`, `Build` | a loader that may be missing is wrapped nevertheless | a cache is built without a loader only if that was asked for |
| Logical expiry and its wire format (`core/decorator/logic_expire.go`, `internal/adapter`) | the expiry time stored with a value | write, read, reload | times that do not fit, other processes' clocks, restarts with another configuration | an entry expires when it should, up to the clocks |
| Codec, compression (`core/codec`, `core/compress`, their decorators) | none | marshal, compress | order of the byte path, defaults that are not in the bytes | reads undo writes in reverse order |
| Telemetry (`core/telemetry`, `observable.go` twice) | the event in the context of a call | fields added, event recorded | a loader outlives the call whose event it adds fields to; who shared a read | a call is recorded once and truly, a load is counted once |

How they interact: a decorator calls the one below it and reads the error it
returns (`errors.Is(err, ErrNotFound)` is a miss); the miss loader and the
logic-expiry loader call the user's function through a merged loader of their
own; a multi-level cache calls its levels as plain caches and its loader
through a third. Contexts are shared: the context of one request reaches the
loads and reads that others have joined.

## The modules

    Source          the versioned source behind a cache; answers          (external)
    LoaderFlight    SingleflightWrapper                                   core/decorator/loaderfn.go
    SingleCache     Source + two LoaderFlights + store + decorators       core/decorator, core/cache, cache.go
    Telemetry       the event of a call, and what is recorded of it       core/telemetry, core/decorator/observable.go
    ObservedCache   SingleCache + Telemetry, step by step                 core/decorator/singleflight.go (addTags)
    MultiCache      Source + one LoaderFlight + levels                    core/multicache
    MultiBuilder    the configurations of a MultiCache                    multi_cache.go, core/multicache/write_back
    Clocks          the parameters of logical expiry                      (external)
    Expiry          what logical expiry promises: deadlines and clocks    core/decorator/logic_expire.go
    LogicTTL        expiry times in bytes, conversions, restarts          internal/adapter, codec.go, compression.go, core/compress
    Builder         the options of a builder, Build, the chain it yields  cache*.go, compile.go, builder_stage_features.go
    Stores          ristretto, freecache, redis, valkey, with a clock     stores/*
    MC...           the definitions that give the constants of a run their values
    LoaderFlight_proofs   theorems about LoaderFlight
    SingleCache_proofs    theorems about SingleCache, from those about LoaderFlight
    MultiCache_proofs     theorems about MultiCache, from those about LoaderFlight
    Expiry_proofs         theorems about Expiry
    LogicTTL_proofs       theorems about LogicTTL, from those about Expiry
    Builder_proofs        theorems about Builder
    ObservedCache_proofs  theorems about ObservedCache, from those about SingleCache
    Stores_proofs         theorems about Stores

`LoaderFlight` plays two parts. It is the detailed model of the wrapper, and it
is the specification of how `SingleCache` and `MultiCache` use it: they
*instantiate* its actions for their steps (`Miss!Join`, `Loader!Receive`, ...)
and are then checked to implement it, `Miss!Spec /\ Refresh!Spec` and
`Loader!Spec`. `Expiry` is abstract only: entries with a deadline, read by
clocks. `LogicTTL` has what the code has instead, integers of limited width in
bytes with formats, and implements it under a refinement mapping (`Promise`).
`MultiBuilder` has no variables: a builder is a record and `Build` returns the
configurations that `MultiCache` starts with.

**Requests.** A request is one call by one goroutine, and `pc[r]` is what that
goroutine does next. A step is what happens between two points at which another
goroutine could make a difference: one operation of the store or of a level,
one entry into or exit from a singleflight group. What a decorator makes of the
answer of the one below is a function of that answer (`LogicTTLGet`,
`MissedLoaderGet`, `NilCacheGet`, nested as the decorators are), so the chain
is one definition for all the subsets of features, not a model per build.

**Singleflight.** `golang.org/x/sync/singleflight` is not in the repository. The
group's lock makes look-up-or-create one step and the removal of a finished
call another. For a merged loader (`DoChan`) a flight is a goroutine of its
own: `Join`, `Create`, `Load`, `Deliver`, `Receive`, `GiveUp`. For merged reads
(`Do`) the leader runs the chain itself: `Lead`, `Follow`, `Leave`, `Share`.

**Data.** A value is abstracted to the version of the source it was read from.
`source[k]` is the present version and `absent[k]` the versions at which the
key did not exist, so a model can tell a stale value from one that was never
true, and a placeholder from a mistake. `store[k]` holds a value, a placeholder
or nothing, with a flag for logical expiry; `level[l][k]` a version or nothing.

**Time.** `SingleCache` and `MultiCache` have no clocks. An entry may become
logically stale or leave its store at any step (`Age`, `Evict`), which is what
TTLs and eviction amount to for a reader. `Stores` has a clock (`Tick`), because
there the lengths of TTLs and the unit they are counted in make the difference.
`LogicTTL` has a true time that nobody sees and a wall clock per process, which is
off by `Skew` at most and may be adjusted at any moment. A Go value that is kept
in a store of the process carries the monotonic clock, which is never off; bytes
do not.

**Bytes.** An entry in `LogicTTL` is the sequence of formats that its bytes are in
and the expiry time in them. A conversion pushes its format or takes it off; one
that meets another format fails. The header of `LogicTTLBytesAdapter` holds a
signed integer of `2 * Half` values for the code's 64 bits of nanoseconds, and
what is too late for it wraps. Three deployments are told apart: Go values, a
codec, and the header. A codec is assumed to notice bytes that are not its own;
the header notices nothing, so its processes must agree on the conversions, and
all of a store's processes on whether there is logical expiry
(`DeploymentAssumption`).

**Events.** `ObservedCache` takes every step of `SingleCache` together with what it
adds to the event of a call. The user's loaders are assumed to add a field with
the context they were given, which is what `AddCustomFields` is there for, and
the user's `Metrics` to copy the fields (`FrozenCustomFields`). That makes
visible whose event a load goes to, and when.

**Chains.** `Builder` abstracts the cache that `Build` returns to the sequence of
its layers, innermost first, each with the durations it has captured. The
functions that make them (`Innermost`, `Over`, `Behaviours`, `New`) are the
code's, with the empty chain for an error. Options that take a function are
called with one or with nil, options that take a duration with one below zero,
zero or above. Functions of the user that make a layer may refuse.

**Clients and servers.** `Stores` has one action per operation of each adapter,
and below them what the adapters rely on: entries that expire and are evicted,
commands that are carried out although the call fails, the buffer through which
ristretto inserts new entries and which it may drop (`Drain`), and the copies
that valkey's client keeps until the server's notice arrives (`Invalidate`). What
an adapter asks in two commands is two steps. A value is the request that set
it, so `life[v]` can say when a value should have expired and when it was removed.

**Failures.** A context may end at any moment (`Cancel`), also after its request
has returned. With `StoreFaults`, `LevelFaults` and `LoaderFaults` every
operation of a store, a level or a loader may fail; a write that fails may or
may not have taken place. When it does take place is left open, so that a call
whose caller has given up may arrive late. A store may notice that its caller's context is done.

**History variables.** `floor[k]` is the version of the source at the last
moment when every copy of `k` was known to be gone: in `SingleCache` the entry
was empty and no request or flight was at work on the key, in `MultiCache` a
`Delete` or `Clear` that nothing overlapped had succeeded at every level.
`floorAt[r]` is that value when `r` began. `alone[r]` says that nothing has
overlapped `r` so far. `apart[k]` says that something has happened after which the
levels may hold different versions of `k`. `at` and `by` of an entry say when
and with which configuration it was written. No action reads them to decide
anything.

## The runs

| Run | Instance | Question |
|---|---|---|
| `flight` | 3 requests, 2 keys | Does the merged loader merge, serve, and let go? |
| `single_builds` | 2 requests, 1 key, 2 versions, all 32 builds, all operations, all faults | Are answers true, is invalidation final, is data in hand kept? |
| `single_merging` | `ObservedCache`: 3 requests, 1 key, 2 versions, 3 builds with loaders, events | Are reads and loads merged, where do context errors come from, and is what is recorded true? |
| `single_liveness` | 2 requests, 1 key, full build with and without merged reads | Does everybody return, and a cancelled request even if loaders hang? |
| `single_panic` | 3 requests, the default build | *violated*: `Get` and `GetWithTTL` of one key at a time panic |
| `single_stale` | 2 requests, logical expiry with a loader | *violated*: a stale value is not answered at once |
| `multi_safety` | 2 requests, 2 levels, 2 versions; strict, unmerged, asynchronous and loaderless builds, and builders that refuse | All safety of the multi-level cache |
| `multi_liveness` | 2 requests, 2 levels, merged loads, with and without asynchronous write-back | Do calls and write-backs end? |
| `builder` | up to 4 options and 2 calls of `Build`, values of bytes or not | Does every order of options give a chain that works, in order and complete, or an error? |
| `stores` | 4 requests, 1 key, 4 adapters, TTLs below zero, none, half a second, a second | Is what expires or is removed gone, and is what is told of a TTL true? |
| `logic_ttl` | 2 processes, 3 deployments, 8 configurations, clocks off by 1, instants 2 to 6, 4-bit expiry times | Does an entry expire when it should, and can who wrote it read it? |
| `multi_errors` | 2 requests, 2 levels that fail | *violated*: `Set` does not return all errors |

**Bounds.** `Requests` bounds the number of calls in a behaviour. Two suffice
for every pair of operations to overlap, and since a request that has returned
leaves only the store and the flight it created behind, a second request also
sees every state that a first can leave. Three are needed where merging happens
at two places at once: one that created a load, one that leads a read which
joined that load, one that follows the read (`single_merging`), and for a flight
that is joined, left by its creator, and joined again (`flight`). `MaxVersion`
1 gives old and new data. One key is enough for the caches because keys share
nothing but `Clear`; `flight` has two. Two levels are enough for a write-back
from a lower level to an upper one and for one level to fail while another does
not. `Builder` has `MaxCalls` 4: features that conflict do so in pairs, one more
call sets a duration that one of them uses, and one more takes one of them
back; `MaxBuilds` 2 gives what a first `Build` leaves behind to a second. In
`Stores` a second is two ticks (`TicksPerSecond`), so there is a TTL that is not a
whole second, and `MaxTime` 2 lets each expire; `NearTTL` 1 is shorter than the
longest TTL and `BufferSize` 2 holds a write and the mark of its synchronous
`Set`. In `logic_ttl` expiry times reach from -8 to 7 (`Half` 8) and time from 2 to
6: a TTL of 1 expires within the run, by every pair of clocks, one of 7 always
wraps, and 0 is none. `Skew` 1 gives clocks that are behind, right and ahead, and
two processes are a writer and a reader whose clocks differ by 2. One key is
enough there, since nothing but `Clear` concerns two. The configurations with a
codec differ in a level and in a spelled-out default, which must not matter, in
the width of LZW and in the chain, which must, and one refuses to write. Four requests are enough for a value to be set, kept at valkey's client,
replaced, and read. Requests are interchangeable and used as a symmetry set where only safety
is checked.

**Fairness.** `CallerFairness`: a goroutine that can proceed eventually does,
which the Go scheduler provides. `LoaderFairness`: the user's loader returns,
which is an assumption about user code and therefore stated in the property
(`LoaderFairness => ...`) wherever the run also asks what happens when it does
not (`HangingSpec`). Nothing makes a request begin, a context end, an entry
expire or the source change. There is no strong fairness: a `select` with
both arms ready may take either, and the properties hold for both.

**Deadlock** is checked in every run. A behaviour ends only in `Finished`: all
requests have returned and no loader or write-back is left running, or (in
`Builder`) the bounds are reached.

## Properties worth knowing

* `CtxErrorHasCause` is the strongest statement that is true, and weaker than
  one would like: a caller whose own context is live can fail because the
  context of the request that began the flight ended. In `SingleCache` this
  happens along two hops, a read joined and the load that read had joined.
* `CancelledReturns` holds for the merged loader, which watches `ctx.Done()`,
  but not for a request that has joined another *read*: `Group.Do` waits. The
  property says so.
* `FreshAfterInvalidation` and `FreshAfterDelete` say what invalidation is worth.
  A read that overlaps a `Delete` does bring the deleted data back: TLC shows
  it at once if the condition that nothing overlaps is dropped from `floor`.
* `AnswersTrue` keeps the placeholder of the nil cache honest: it stands for
  a version at which the source said "not found", never for an error.
* `AnswerKept` is a property of steps: once a read has data, no later failure
  of a reload or a write-back changes its answer, except in strict mode.
* `LevelsAgree` is as much agreement as the code gives. Levels do end up with
  different values, and stay so, when two writes of a key overlap, when a `Set`
  fails at a level, and when a `Get` passes over a level that failed (it is not
  written back to, `write_back_filter.go:17`, while a level above it is). It says
  that nothing else does this, and that the next `Set` or `Delete` that succeeds
  alone repairs it. Asynchronous write-backs are no exception of their own,
  because a request counts as overlapping until its write-back has ended.
* `LoaderWaived` holds because `MultiBuilder.Build` looks at the loader before it
  wraps it. What it leaves possible is the code's: with
  `WithRequiredLoader(false)` and the default policy a miss panics, with
  singleflight in a goroutine of its own (`down`), where nobody can recover it.
* `SharedTrue`, `LoadsCounted` and `RecordsKept` are about what operators see. A load is
  in the record of the request that began it, also when others shared its result;
  if that request gave up first it is in none, because the record was made before
  the field was added.
* `ExpiryHonoured` allows `2 * Skew`: the clock of who wrote and that of who read.
  A TTL that reaches beyond what the header can hold becomes "for ever", never a
  time that has passed, because what wraps is negative and negative is none
  (`logicttl_bytes_adapter.go:90`). That depends on no TTL being long enough to wrap
  twice, which `TimeAssumption` and the type of `ttl` say: durations have 63 bits.
* `UnreadableHasCause` names the only reasons for which a process cannot read an
  entry: another chain, another kind, another order or width of LZW. Such an entry
  is an error to `Get`, not a miss, so nothing repairs it until it goes.
* `NothingDropped` says that what is built does what was asked for. It has two
  exceptions, which the code has too: with logical expiry a type adapter is
  ignored without a word (`adaptBytesToLogicWire` asks for a codec or for bytes
  only), and a factory among the options of `WithOptions` replaces every stage,
  where `WithFactory` of the builder refuses to be combined with stages.
* `StagesInOrder` is exact for a first `Build` and says what is left for later
  ones: `Build` appends the layers of behaviour to the builder, so a second cache
  has those of the first inside its own, also if the first `Build` failed and
  also if `WithSingleflight(false)` was called in between.
* `RemovedIsGone` has one exception, valkey's client-side copies, and puts a bound
  to it: not longer than `clientSideCacheExpiration` after the removal, however
  late the server's notice is. For ristretto it depends on `Set` of a new key
  being promised only with `WithSynchronousSet`.
* `TTLTrue` and `NoValueOutlivesItsTTL` except one thing, `SubSecond`: freecache
  keeps for ever what was to be kept for less than a second
  (`freecache.go:112`, against `core/cache/store.go:11`).

## What the code does not do as it says

1. `single_panic`: `SingleflightDecorator` uses one group for `Get` and
   `GetWithTTL`, which put different types into it. Two overlapping reads of one
   key, one of each kind, and the one that joins panics
   (`singleflight.go:31`, `:67`). The feature is on by default.
2. `single_stale`: `docs/FAQ.md:33` and `docs/features/LOGIC_EXPIRE.md:3` promise
   that stale data is returned at once and refreshed in the background.
   `logic_expire.go:61` refreshes first and returns then.
3. `multi_errors`: the comment of `multiCache.Set` (`multi_cache.go:83`) says that
   all errors are returned; `WithFirstError` keeps one.

Also seen, not run: the comment in ristretto's `GetWithTTL` (`ristretto.go:68`) says
that an entry which `Get` has found cannot have expired; it can before `GetTTL`
is called, whose second result is dropped, and the caller is then told 0, which is
for ever (`TTLTrue` makes the exception). A call that panics is recorded as a hit
without an error (`core/decorator/observable.go:45-48`), because the deferred
function sees the error that was not returned. An asynchronous write-back calls `ErrCallback` with a nil
error when nothing failed (`write_back/builder.go:85`, described as "called back
when execution fails" at `:32`); `valkey.go:55` formats `ErrTypeMismatch` with
`%s`, so `errors.Is` does not find it. The comment of `WithOptions`
(`cache_features.go:128`) puts its decorators inside the layer of observation,
the code outside it (`cache.go:129-130`). The comment of
`WithLogicExpireBytesAdapter` (`cache_features.go:55`) says that values are then
encoded as bytes; without a byte stage nothing encodes them
(`compile.go:124-135`), and a store that takes bytes only refuses every `Set`.
Redis answers a TTL of 0, and valkey one of -2 ms, for an entry that has gone
since it was read (`redis.go:78`, `valkey.go:94`, both with a TODO). A `NewBuilder`
that is given a slice of options with spare capacity shares it with other
builders (`cache.go:77`, `cache_features.go:130`).

## The proofs

`LoaderFlight_proofs` proves, for any sets of requests, keys and results,

    Invariance               Spec => []IInv
    TypeCorrect              Spec => []TypeOK
    LoadsMerged              Spec => []LoadsExclusive
    WaitersAreServed         Spec => []WaitersServed
    ContextErrorsHaveCauses  Spec => []CtxErrorHasCause
    NoLateJoin               Spec => NoJoinAfterDelivery

from two assumptions: the context error is a result, and `None` is none of the
other constants. None of the properties is inductive. That two flights for a
key never run together depends on the group: `IInv` says that a flight is in
progress exactly when it is registered, under its own key (`Registered`), so
two flights in progress for a key are both the one registered for it. `Create`
keeps this only because it makes a flight that did not exist, which needs that
a request that has not called has no flight (`CreatedByCall`); `Receive` keeps
the types only because a call depends on a flight that exists
(`CallsHaveFlights`) and a flight that has ended has a result
(`FlightErrorHasCause`). The last also carries the cause of a context error
from the load to the caller, and uses that a context never comes back to life.
`StepIInv` has a step for each action and one below it for each conjunct.

`SingleCache_proofs` proves, for every build and any requests, keys, versions
and results,

    Invariance               Spec => []IInv
    TypeCorrect              Spec => []TypeOK
    ReadsAreMerged           Spec => []ReadsMerged
    AnswersAreKept           Spec => AnswerKept
    LoadersImplementFlights  Spec => LoadersAreFlights
    LoadsAreMerged           Spec => [](Miss!LoadsExclusive /\ Refresh!LoadsExclusive)

from the context error being a loader's result and `None` being none of the
requests, keys and results. It instantiates `LoaderFlight_proofs` twice, once
per loader. `MissSteps` and `RefreshSteps` show that every step of the chain is a
step of each loader or a stutter; `StepFlights` then gets the flights' invariant
in the next state from `LoaderFlight`'s own `StepIInv`, and nothing about
flights is proved again. The rest of `IInv` is about the chain: `LeadersLead`
says that a request in the chain is the one its group has registered for the key,
which is what makes two readers in the chain the same request;
`RewritesHaveResults` says that an entry is rewritten only after a reload that
returned, and `HitsAreAnswers` that a read which has data is past the steps that
could replace it by an error. `AnswerKept` follows
from `HitsAreAnswers` before a step and after it.

Its second part is about what the answers of that chain are worth:

    ContextErrorsHaveCauses  Spec => []CtxErrorHasCause
    DataInvariance           Spec => []DataIInv
    AnswersAreTrue           Spec => []AnswersTrue
    InvalidationIsEffective  Spec => []FreshAfterInvalidation

A context error needs links: a request that joined a read joined one that joins
nobody and is for the same key (`GroupsLinked`), and a call of a loader is the one
that its request waits for (`CallsLinked`). So there are never more than the two
hops that `Causes` allows, and `ContextErrors` can say for every request, not only
for those that have returned, whose context it was. `DataSound` follows data from the
source to whoever may see it: through each flight until nobody waits for it any
more, the calls, what a request has in hand, what it is about to store, and what
it shares with those that joined it. Everywhere it says two things, that the data was true at a
version not later than the present one (`True`) and that it is not older than the
key's `floor` (`Fresh`). The floor moves only when nothing on the key is
in progress, and then there is neither a flight nor a request whose data it could
make old; that is the whole argument for invalidation, and why a Delete that
overlaps a read is exempt. `StagesHaveData` keeps a "not found" of the store, which is not
what the source says, from being taken for an answer: a request that has it is on its
way to the loader.

`MultiCache_proofs` proves, for any number of levels, any requests, keys and versions
and any set of builds,

    WorkInvariance           Spec => []WorkIInv
    TypeCorrect              Spec => []TypeOK
    LoaderImplementsFlight   Spec => LoaderIsFlight
    AnswersAreKept           Spec => AnswerKept
    WriteBacksEndFirst       Spec => []WriteBackBeforeReturn
    MissingLoadersAreWaived  Spec => []LoaderWaived
    LevelsInvariance         Spec => []LevelsIInv
    QuietLevelsAgree         Spec => []LevelsAgree
    DataInvariance           Spec => []IInv
    AnswersAreTrue           Spec => []AnswersTrue
    DeletionIsEffective      Spec => []FreshAfterDelete

from `None` being none of the other constants, versions being counted from 0, at least one level and
builds that are configurations. `MissingLoadersAreWaived` assumes moreover that
each configuration is one that `MultiBuilder`'s `Build` can return; it is false of others, and the
lemma `BuildsHaveLoaders` is what is proved about that builder.

The invariant has three layers, each of which needs the one before. `WorkIInv`: the loader's own
invariant, again from `LoaderFlight_proofs`, and what a request has and has not
done at each of its steps (`StepsInOrder`). The lemma `StepMoves` then reduces the
actions to eight things that can happen to a request (it began, passed a level
over, wrote one, ...), and the proofs after it are about those. `LevelsIInv`:
that whoever is marked as alone has its key for itself (`AloneIsAlone`),
and what the levels hold in the meantime (`LevelsFor`): those that a Get
has passed hold nothing of the key, those that a write-back has in hand hold
its version or nothing, those that a Set has done hold what it sets. It is needed
because `LevelsAgree` only speaks of a key at which nothing is at work, and
says nothing of a Get that has seen a miss and will write. `IInv` adds `DataSound`, as in
the single-level chain, but with answers that outlive their request: whoever is
`AtWork`, which includes a Get that has returned and still writes in the background,
has data that is fresh now; who has finished has what was fresh when it began. A
`Delete` moves the floor only if it was alone from first to last and no level
failed, and then `LevelsFor` says that no level holds the key.

`Expiry_proofs` proves, for any processes, places, width of expiry times and skew,

    Invariance               Spec => []IInv
    ExpiryTheorem            Spec => []ExpiryHonoured

from `TimeAssumption`: time begins after `Skew` and ends more than `Skew` before
`Half`, so that no clock shows 0 or a time that a deadline cannot have. `ExpiryHonoured` is about the
last answer only, and not inductive. `IInv` is: with the types it says that every
deadline is the time of writing plus the TTL, up to the skew, or none because that
does not fit (`DeadlinesTrue`, which `WrittenTrue` keeps), and that the
last answer is what its entry and the clock of who read it say (`ToldTrue`). That
clock is off by at most as much again, which is the other `Skew`.

`LogicTTL_proofs` proves, for any processes, any deployments of the three kinds
and any chains of conversions, any width of expiry times and any skew,

    TypeCorrect              Spec => []TypeOK
    PromiseKept              Spec => KeepsPromise
    ExpiryIsHonoured         Spec => []ExpiryHonoured
    UnreadableHasACause      Spec => []UnreadableHasCause

from `TimeAssumption` and `DeploymentAssumption`. `KeepsPromise` is the refinement of `Expiry`. There is
a lemma for each action that shows which step of `Expiry` it is, or that it is
none. The work is in `SignedValue`, what a signed integer of limited width makes
of a time that is less than twice too late, and in `WrittenSeen`, `ExpiredSeen` and `MappedSeen`,
which follow an expiry time through `Encodes` and `Decodes` in each deployment:
what wraps decodes as none, as the abstract deadline that does not fit is.
`ExpiryIsHonoured` is then `Expiry`'s own theorem, instantiated with the refinement
mapping; nothing about clocks is proved twice. `UnreadableHasACause` rests on formats
being a function of the configuration that wrote them (`BytesKnown`): what
`Decodes` takes off is what `Encodes` has put on, in reverse, wherever the two
configurations are the `SameBytes`.

`Builder_proofs` proves, for any number of calls of the options and of `Build`,

    Invariance               Spec => []IInv
    TypeCorrect              Spec => []TypeOK
    DurationsAreAccepted     Spec => []DurationsAccepted

from `BoundsAssumption`. `DurationsAccepted` only speaks of the cache, and what makes it
true is elsewhere: a duration below zero may well be in the features, and is captured by
the layer that `Build` makes of it. `IInv` says that the layers which the builder has
collected, as well as those of its cache, are `SoundLayers`; the lemmas follow each
feature through the order of `Build` and show that it either yields sound layers or an
error that ends it. That a custom factory brings none of the features' durations needs
that only `WithFactory` and `Build` replace the factory.

`ObservedCache_proofs` proves, for every build and any requests, keys and versions,

    ObservationChangesNothing  ObservedSpec => Spec
    ObservedInvariance         ObservedSpec => []ObservedIInv
    SharingIsTold              ObservedSpec => []SharedTrue
    LoadsAreCounted            ObservedSpec => []LoadsCounted
    RecordsAreKept             ObservedSpec => RecordsKept

The first holds by the way `ObservedCache` is composed. It is there for its use: every
theorem about `SingleCache` holds of the observed cache, among them the properties that
the run `single_merging` checks of both. The invariant starts from the links between
requests and calls that context errors need (`LinkIInv`). `LoadsCounted` needs that who
begins a flight waits for it unless its context ends (`CreatorsWait`), so that the field
is in its event before the record is made; `SharedTrue` that nobody joins a read that is
over, so that who shared it is settled when it is recorded; `RecordsKept` that a record
is a copy, while events go on growing (`EventsTrue`).

`Stores_proofs` proves, for any requests, keys and times to live, any length of a second
and of `clientSideCacheExpiration`, any size of ristretto's buffer and all four
adapters,

    Invariance               Spec => []IInv
    TypeCorrect              Spec => []TypeOK
    ValuesExpire             Spec => NoValueOutlivesItsTTL
    RemovalsHold             Spec => RemovedIsGone
    TTLsAreTrue              Spec => TTLTrue

from `TimesAssumption` and `NoneAssumption`. The properties are about steps; `IInv` is
about what is kept at three places, since a read finds only what is. What a store holds
has not been removed and expires when its `Set` said (`DataHeld`, `EntryTimely` for what
freecache rounds). Valkey's client may hold what has been removed, but its copy ends at
most `NearTTL` after that, because it was made before (`NearHeld`). What is in
ristretto's buffer will be held later, so it has not been removed either (`BufferHeld`);
that is the delicate part, since a `Delete` or another `Set` may come while a write
waits there. A write that was not promised counts as not done yet. One that was
promised, by a synchronous `Set` that has returned, is not in the buffer any more: the
`Set` waits for its mark, and `MarksLast` says that the mark is behind the write, and
that each request has one at most. `TTLTrue` also needs that the answer of the second
command is the only step that ends the request (`OnlyTheStoreAnswers`), and that
freecache has seen the right expiry time in the first (`Asking`).

What is only model-checked: all liveness, which the prover cannot handle; and
`StagesInOrder` and `NothingDropped` of `Builder`, which compare sequences by what
`SelectSeq` leaves of them, a recursion over data. Every other invariant and action
property that a run checks is a theorem.

## Plan

Done: the models above, and the theorems about all of them. Left, most important first:

1. `Builder`: what of `StagesInOrder` and `NothingDropped` can be said without
   selecting from sequences, and proved.
2. An abstract store, with the contract that freecache and redis implement and the
   others but for the exceptions named, and the four adapters as refinements of it.
3. A multi-level cache with events, as `ObservedCache` is one for a single level.

## Not modelled

Logging, metrics and error texts; user-supplied strategies, adapters and
decorators; the formats of codec and compression libraries, and what they make of
damaged bytes; user code that panics, except for a loader that is not there. The
decorator that observes a multi-level cache (`core/multicache/observable.go`) does
with its event what the one in `ObservedCache` does. In `LogicTTL`, values, and
configurations that would silently misread each other's bytes; in `Builder`, who is
told of calls (`WithLogger`, `WithMetrics`, `WithObserveDecorator`,
`WithObservable`), and two builders that share one slice of options
(`cache.go:77`); in `Stores`, costs and sizes, and the options of clients.
The test suite, the mocks and the examples were read as documentation.
