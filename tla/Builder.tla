------------------------------- MODULE Builder -------------------------------
(***************************************************************************)
(* The builder of single-level caches: options that a program may set in   *)
(* any order, some of them refused, and Build, which it may call again.    *)
(* What Build yields is abstracted to the chain of its layers, from the    *)
(* one that holds the store to the one that the program calls.             *)
(***************************************************************************)
EXTENDS Integers, Sequences, SequencesExt

CONSTANTS MaxCalls,     \* bound: calls of options
          MaxBuilds     \* bound: calls of Build

ASSUME BoundsAssumption == MaxCalls \in Nat /\ MaxBuilds \in Nat

\* Durations: below zero, zero, and above.
Durations == {-1, 0, 1}

(***************************************************************************)
(* A layer, with the durations it has captured. Transforms are conversions *)
(* of bytes, and options are what WithOptions takes. A user's function     *)
(* that has a say in the chain may refuse to be built.                     *)
(***************************************************************************)
Layer(name) == [is |-> name, ttls |-> {}]
Timed(name, ttls) == [is |-> name, ttls |-> ttls]

Transforms == {"compression", "transform"}
Options == {"factory", "decorator", "failing"}
Adapters == {"typeAdapter", "codec", "passThrough", "codecOfLogicTTL",
             "logicTTLBytes"}
UserLayers == {"transform", "typeAdapter", "custom", "decorator", "option"}
LayerNames ==
    UserLayers \cup Transforms \cup Adapters \cup
    {"typed", "wire", "bytes", "logicExpire", "logicLoader", "missLoader",
     "nilCache", "nilCacheWithoutFn", "singleflight", "observer"}
Layers == [is : LayerNames, ttls : SUBSET Durations]

VARIABLES
    isBytes,            \* is the type of the values []byte?
    features,           \* the features asked for
    factory,            \* what makes the innermost layers
    factoryCustomized,  \* WithFactory has been called
    decorators,         \* the layers that Build puts around them
    options,            \* of NewBuilder and WithOptions
    err,                \* has something been refused?
    cache,              \* the chain that the last Build made; empty: none
    calls, builds       \* so far

vars == <<isBytes, features, factory, factoryCustomized, decorators, options,
          err, cache, calls, builds>>

NoCache == <<>>

Feature ==
    [singleFlight : BOOLEAN, codec : BOOLEAN, typeAdapter : BOOLEAN,
     byteTransforms : Seq(Transforms),
     logicExpire : [enabled : BOOLEAN, logicTTL : Durations,
                    writeBackTTL : Durations, loader : BOOLEAN,
                    bytesAdapter : BOOLEAN],
     missLoader : [loader : BOOLEAN, writeBackTTL : Durations],
     nilCache : [protection : BOOLEAN, writeBackTTL : Durations]]

Init ==
    /\ isBytes \in BOOLEAN
    /\ features = [singleFlight |-> TRUE, codec |-> FALSE, typeAdapter |-> FALSE,
                   byteTransforms |-> <<>>,
                   logicExpire |-> [enabled |-> FALSE, logicTTL |-> 1,
                                    writeBackTTL |-> 1, loader |-> FALSE,
                                    bytesAdapter |-> FALSE],
                   missLoader |-> [loader |-> FALSE, writeBackTTL |-> 1],
                   nilCache |-> [protection |-> FALSE, writeBackTTL |-> 1]]
    /\ factory = "simple" /\ factoryCustomized = FALSE
    /\ decorators = <<>> /\ options = <<>>
    /\ err = FALSE
    /\ cache = NoCache
    /\ calls = 0 /\ builds = 0

-----------------------------------------------------------------------------
(***************************************************************************)
(* The options.                                                            *)
(***************************************************************************)
Calls == calls < MaxCalls /\ calls' = calls + 1
                          /\ UNCHANGED <<isBytes, cache, builds>>

Asks(f) ==
    /\ Calls
    /\ features' = f
    /\ UNCHANGED <<factory, factoryCustomized, decorators, options>>

WithSingleflight ==
    \E on \in BOOLEAN : Asks([features EXCEPT !.singleFlight = on]) /\ UNCHANGED err

\* A nil codec or type adapter takes the feature back.
WithCodec ==
    \E on \in BOOLEAN : Asks([features EXCEPT !.codec = on]) /\ UNCHANGED err

WithTypeAdapter ==
    \E on \in BOOLEAN : Asks([features EXCEPT !.typeAdapter = on]) /\ UNCHANGED err

\* Also WithCompression.
WithByteTransforms ==
    \E t \in Transforms :
        /\ Asks([features EXCEPT !.byteTransforms = Append(@, t)])
        /\ UNCHANGED err

WithLogicExpireEnabled ==
    \E on \in BOOLEAN :
        Asks([features EXCEPT !.logicExpire.enabled = on]) /\ UNCHANGED err

\* The durations of logical expiry are checked here, and again in Build. Both
\* setters switch the feature on, whatever they are given.
WithLogicExpireTTL ==
    \E d \in Durations :
        /\ \/ Asks([features EXCEPT !.logicExpire.enabled = TRUE,
                                    !.logicExpire.logicTTL = d])
           \/ Asks([features EXCEPT !.logicExpire.enabled = TRUE,
                                    !.logicExpire.writeBackTTL = d])
        /\ err' = (err \/ d < 0)

WithLogicExpireBytesAdapter ==
    \E on \in BOOLEAN :
        /\ Asks([features EXCEPT !.logicExpire.bytesAdapter = on,
                                 !.logicExpire.enabled = @ \/ on])
        /\ UNCHANGED err

WithLogicExpireLoader ==
    \E on \in BOOLEAN :
        /\ Asks([features EXCEPT !.logicExpire.enabled = TRUE,
                                 !.logicExpire.loader = on])
        /\ UNCHANGED err

WithCacheMissLoader ==
    \E on \in BOOLEAN :
        Asks([features EXCEPT !.missLoader.loader = on]) /\ UNCHANGED err

\* The other durations are checked in Build, if they are used.
WithCacheMissDefaultWriteBackTTL ==
    \E d \in Durations :
        Asks([features EXCEPT !.missLoader.writeBackTTL = d]) /\ UNCHANGED err

WithNilCacheFn ==
    \E on \in BOOLEAN :
        Asks([features EXCEPT !.nilCache.protection = on]) /\ UNCHANGED err

WithNilCacheWriteBackTTL ==
    \E d \in Durations :
        Asks([features EXCEPT !.nilCache.writeBackTTL = d]) /\ UNCHANGED err

WithFactory ==
    /\ Calls
    /\ factoryCustomized' = TRUE /\ factory' = "custom"
    /\ UNCHANGED <<features, decorators, options, err>>

WithDecorators ==
    /\ Calls
    /\ decorators' = Append(decorators, Layer("decorator"))
    /\ UNCHANGED <<features, factory, factoryCustomized, options, err>>

WithOptions ==
    \E o \in Options :
        /\ Calls
        /\ options' = Append(options, o)
        /\ UNCHANGED <<features, factory, factoryCustomized, decorators, err>>

-----------------------------------------------------------------------------
(***************************************************************************)
(* The innermost layers: the store, as it holds values of the cache's own  *)
(* type, with their times of expiry, or bytes; then the conversions.       *)
(***************************************************************************)
\* What can go wrong in them: there is no way from bytes to values.
NoAdapter == <<>>

RequiresBytePath(f) == f.byteTransforms # <<>> \/ f.codec \/ f.typeAdapter

\* The first transform is next to the store.
ByteCache(f) ==
    <<Layer("bytes")>> \o
        [i \in DOMAIN f.byteTransforms |-> Layer(f.byteTransforms[i])]

\* Plausible bug: that there is no adapter goes unnoticed.
OverAnything(chain, adapter) == Append(chain, Layer(adapter))

Over(chain, adapter) ==
    IF adapter = "none" THEN NoAdapter ELSE Append(chain, Layer(adapter))

AdaptBytesToType(f) ==
    Over(ByteCache(f),
         CASE f.typeAdapter -> "typeAdapter"
           [] ~f.typeAdapter /\ f.codec -> "codec"
           [] ~f.typeAdapter /\ ~f.codec /\ isBytes -> "passThrough"
           [] OTHER -> "none")

AdaptBytesToLogicWire(f) ==
    Over(ByteCache(f),
         CASE f.codec -> "codecOfLogicTTL"
           [] ~f.codec /\ isBytes /\ f.logicExpire.bytesAdapter -> "logicTTLBytes"
           [] OTHER -> "none")

PlainTypedCache(f) ==
    IF RequiresBytePath(f) THEN AdaptBytesToType(f) ELSE <<Layer("typed")>>

LogicWireCache(f) ==
    IF RequiresBytePath(f) THEN AdaptBytesToLogicWire(f) ELSE <<Layer("wire")>>

LogicTTL(f) ==
    Timed(IF f.logicExpire.loader THEN "logicLoader" ELSE "logicExpire",
          {f.logicExpire.logicTTL, f.logicExpire.writeBackTTL})

Innermost(made, f) ==
    CASE made = "simple" -> <<Layer("typed")>>
      [] made = "custom" -> <<Layer("custom")>>
      [] made = "plain" -> PlainTypedCache(f)
      [] made = "logic" ->
           IF LogicWireCache(f) = NoAdapter THEN NoAdapter
           ELSE Append(LogicWireCache(f), LogicTTL(f))

(***************************************************************************)
(* compileStages chooses what makes them, unless WithFactory has.          *)
(***************************************************************************)
\* Plausible bug: transforms have been forgotten.
HasMostStagedFeaturesEnabled(f) ==
    f.logicExpire.enabled \/ f.codec \/ f.typeAdapter

HasStagedFeaturesEnabled(f) ==
    f.logicExpire.enabled \/ f.codec \/ f.typeAdapter \/ f.byteTransforms # <<>>

CheckTTLConfigValid(f) ==
    f.logicExpire.logicTTL >= 0 /\ f.logicExpire.writeBackTTL >= 0

Compiles(f) ==
    IF factoryCustomized THEN ~HasStagedFeaturesEnabled(f)
    ELSE f.logicExpire.enabled => CheckTTLConfigValid(f)

Compiled(f) ==
    IF factoryCustomized \/ ~Compiles(f) THEN factory
    ELSE IF f.logicExpire.enabled THEN "logic" ELSE "plain"

(***************************************************************************)
(* The behaviour decorators, each asked for and with a duration it accepts.*)
(***************************************************************************)
\* Plausible bug: only "not at all" is refused.
TTLGiven(d) == d \in Durations

TTLValid(d) == d >= 0

MissedLoader(f) ==
    IF f.missLoader.loader /\ TTLValid(f.missLoader.writeBackTTL)
    THEN <<Timed("missLoader", {f.missLoader.writeBackTTL})>> ELSE <<>>

PenetrationProtection(f) ==
    IF f.nilCache.protection /\ TTLValid(f.nilCache.writeBackTTL)
    THEN <<Timed("nilCache", {f.nilCache.writeBackTTL})>> ELSE <<>>

Singleflight(f) == IF f.singleFlight THEN <<Layer("singleflight")>> ELSE <<>>

\* Plausible bug: the nil cache gets between the store and the miss loader.
BehavioursSwapped(f) ==
    PenetrationProtection(f) \o MissedLoader(f) \o Singleflight(f)

Behaviours(f) == MissedLoader(f) \o PenetrationProtection(f) \o Singleflight(f)

Accepted(f) ==
    /\ Compiles(f)
    /\ f.missLoader.loader => TTLValid(f.missLoader.writeBackTTL)
    /\ f.nilCache.protection => TTLValid(f.nilCache.writeBackTTL)

(***************************************************************************)
(* cache.New: options apply in order, so that a factory among the options  *)
(* replaces the builder's, and their decorators come last.                 *)
(***************************************************************************)
OptionLayers ==
    [i \in 1..Cardinality({j \in DOMAIN options : options[j] = "decorator"})
         |-> Layer("option")]

Factory(made) == IF Contains(options, "factory") THEN "custom" ELSE made

\* The layer of the nil cache takes the builder's protection as it is now,
\* which may be none by the time of a later Build: then it only passes on.
Instance(l) ==
    IF l.is = "nilCache" /\ ~features.nilCache.protection
    THEN [l EXCEPT !.is = "nilCacheWithoutFn"] ELSE l

New(made, layers) ==
    IF Contains(options, "failing") \/ Innermost(Factory(made), features) = NoAdapter
    THEN NoCache
    ELSE Innermost(Factory(made), features)
            \o [i \in DOMAIN layers |-> Instance(layers[i])]
            \o <<Layer("observer")>> \o OptionLayers

\* The layers of decorators that Build adds stay in the builder, also when it
\* fails.
Build ==
    /\ builds < MaxBuilds /\ builds' = builds + 1
    /\ err' = (err \/ ~Accepted(features))
    /\ factory' = Compiled(features)
    /\ decorators' = decorators \o Behaviours(features)
    /\ LET made == IF err' THEN NoCache ELSE New(factory', decorators')
       IN  \/ cache' = made
           \/ /\ \E i \in DOMAIN made : made[i].is \in UserLayers
              /\ cache' = NoCache
    /\ UNCHANGED <<isBytes, features, factoryCustomized, options, calls>>

Finished ==
    calls = MaxCalls /\ builds = MaxBuilds /\ UNCHANGED vars

Next ==
    \/ WithSingleflight \/ WithCodec \/ WithTypeAdapter \/ WithByteTransforms
    \/ WithLogicExpireEnabled \/ WithLogicExpireTTL
    \/ WithLogicExpireBytesAdapter \/ WithLogicExpireLoader
    \/ WithCacheMissLoader \/ WithCacheMissDefaultWriteBackTTL
    \/ WithNilCacheFn \/ WithNilCacheWriteBackTTL
    \/ WithFactory \/ WithDecorators \/ WithOptions
    \/ Build
    \/ Finished

Spec == Init /\ [][Next]_vars

-----------------------------------------------------------------------------
(***************************************************************************)
(* Properties.                                                             *)
(***************************************************************************)
\* Types. In particular every layer of a cache is one that exists: bytes are
\* never left without a way to become values.
TypeOK ==
    /\ isBytes \in BOOLEAN /\ err \in BOOLEAN /\ factoryCustomized \in BOOLEAN
    /\ features \in Feature
    /\ factory \in {"simple", "custom", "plain", "logic"}
    /\ decorators \in Seq(Layers) /\ cache \in Seq(Layers)
    /\ options \in Seq(Options)
    /\ calls \in 0..MaxCalls /\ builds \in 0..MaxBuilds

\* No cache works with a duration below zero, in whatever order durations,
\* loaders and switches were set, refused and corrected: the stores refuse such
\* durations (ErrInvalidTTL), and every write-back of that cache would fail.
DurationsAccepted ==
    \A i \in DOMAIN cache : \A d \in cache[i].ttls : d >= 0

Built == builds' # builds /\ cache' # NoCache
Names(chain) == [i \in DOMAIN chain |-> chain[i].is]
Has(chain, name) == Contains(Names(chain), name)
OwnFactory == factoryCustomized \/ Contains(options, "factory")

BehavioursOf(f) ==
    SelectSeq(<<"missLoader", "nilCache", "singleflight">>,
              LAMBDA n : CASE n = "missLoader" -> f.missLoader.loader
                           [] n = "nilCache" -> f.nilCache.protection
                           [] n = "singleflight" -> f.singleFlight)

LogicOf(f) ==
    CASE ~f.logicExpire.enabled \/ OwnFactory -> <<>>
      [] f.logicExpire.loader -> <<"logicLoader">>
      [] OTHER -> <<"logicExpire">>

\* The first Build yields the chain that SingleCache models: logical expiry
\* next to the store, then misses are loaded, what is not found is protected,
\* and reads are merged, each of them once if it was asked for. Later calls
\* repeat layers of the earlier ones, and have these outside them.
StagesInOrder ==
    [][Built =>
        LET stages == SelectSeq(Names(cache'), LAMBDA n :
                          n \in {"logicExpire", "logicLoader", "missLoader",
                                 "nilCache", "nilCacheWithoutFn", "singleflight"})
        IN  /\ builds = 0 => stages = LogicOf(features) \o BehavioursOf(features)
            /\ IsSuffix(BehavioursOf(features), stages)]_vars

\* A cache that is built does what was asked of the builder: what conflicts is
\* refused. Two things are dropped without a word, and are excepted here: a
\* type adapter where there is logical expiry, and every stage of the factory if
\* the options bring another.
NothingDropped ==
    [][Built /\ ~Contains(options, "factory") =>
        /\ SelectSeq(Names(cache'), LAMBDA n : n \in Transforms)
             = features.byteTransforms
        /\ features.byteTransforms # <<>> =>
             \E i \in DOMAIN cache' : cache'[i].is \in Adapters
        /\ features.logicExpire.enabled =>
             Has(cache', "logicExpire") \/ Has(cache', "logicLoader")
        /\ features.typeAdapter /\ ~features.logicExpire.enabled =>
             Has(cache', "typeAdapter")
        /\ features.codec =>
             \/ Has(cache', "codec") \/ Has(cache', "codecOfLogicTTL")
             \/ Has(cache', "typeAdapter")]_vars
=============================================================================
