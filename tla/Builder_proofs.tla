---------------------------- MODULE Builder_proofs ----------------------------
(***************************************************************************)
(* Theorems about Builder, for any number of calls of options and of       *)
(* Build. A chain is sound if none of its layers has captured a duration   *)
(* below zero. The builder keeps what it has collected sound, and Build    *)
(* yields nothing unless what it adds, and what the factory makes of the   *)
(* features, is sound too.                                                 *)
(***************************************************************************)
EXTENDS Builder, SequenceTheorems, FiniteSetTheorems, TLAPS

\* The layers that work: no duration below zero.
SoundLayers == {l \in Layers : \A d \in l.ttls : d >= 0}

\* Every layer of the builder and of its cache works, and only WithFactory
\* and Build replace the factory.
IInv ==
    /\ TypeOK
    /\ decorators \in Seq(SoundLayers) /\ cache \in Seq(SoundLayers)
    /\ factoryCustomized => factory = "custom"

-----------------------------------------------------------------------------
(***************************************************************************)
(* Chains                                                                  *)
(***************************************************************************)

\* A function on the first numbers is a sequence.
LEMMA FunctionIsSeq ==
    ASSUME NEW S, NEW n \in Nat, NEW f \in [1..n -> S]
    PROVE  f \in Seq(S) /\ Len(f) = n
  OBVIOUS

\* A layer without durations works, as does one whose durations are valid.
LEMMA LayersWork ==
    /\ \A n \in LayerNames : Layer(n) \in SoundLayers
    /\ \A n \in LayerNames, ds \in SUBSET Durations :
         (\A d \in ds : d >= 0) => Timed(n, ds) \in SoundLayers
  BY DEF Layer, Timed, SoundLayers, Layers

\* A chain that works still does with a layer or a chain that works.
LEMMA ChainsWork ==
    /\ \A l \in SoundLayers : <<l>> \in Seq(SoundLayers)
    /\ \A s \in Seq(SoundLayers), l \in SoundLayers : Append(s, l) \in Seq(SoundLayers)
    /\ \A s \in Seq(SoundLayers), t \in Seq(SoundLayers) : s \o t \in Seq(SoundLayers)
  BY ConcatProperties

\* The types of what is asked for.
LEMMA FeatureTypes ==
    ASSUME NEW f \in Feature
    PROVE  /\ f.byteTransforms \in Seq(Transforms)
           /\ f.logicExpire.logicTTL \in Durations
           /\ f.logicExpire.writeBackTTL \in Durations
           /\ f.missLoader.writeBackTTL \in Durations
           /\ f.nilCache.writeBackTTL \in Durations
  BY DEF Feature

\* The names that the builder gives to layers.
LEMMA KnownNames ==
    {"typed", "wire", "bytes", "logicExpire", "logicLoader", "missLoader",
     "nilCache", "nilCacheWithoutFn", "singleflight", "observer", "custom",
     "decorator", "option"} \cup Transforms \cup Adapters \subseteq LayerNames
  BY DEF LayerNames, UserLayers

\* The byte path, and the store without one, have no durations at all.
LEMMA StagesWork ==
    ASSUME NEW f \in Feature
    PROVE  /\ PlainTypedCache(f) \in Seq(SoundLayers)
           /\ LogicWireCache(f) \in Seq(SoundLayers)
<1>1. ByteCache(f) \in Seq(SoundLayers)
  <2> DEFINE n == Len(f.byteTransforms)
             layers == [i \in DOMAIN f.byteTransforms |-> Layer(f.byteTransforms[i])]
  <2>1. n \in Nat /\ DOMAIN f.byteTransforms = 1..n
        /\ \A i \in 1..n : f.byteTransforms[i] \in Transforms
    BY FeatureTypes
  <2>2. \A i \in 1..n : Layer(f.byteTransforms[i]) \in SoundLayers
    BY <2>1, LayersWork, KnownNames
  <2>3. layers \in [1..n -> SoundLayers]
    BY <2>1, <2>2
  <2>4. layers \in Seq(SoundLayers)
    BY <2>1, <2>3, FunctionIsSeq
  <2>5. <<Layer("bytes")>> \in Seq(SoundLayers)
    BY LayersWork, KnownNames, ChainsWork
  <2> QED BY <2>4, <2>5, ChainsWork DEF ByteCache
<1>2. \A a \in Adapters \cup {"none"} : Over(ByteCache(f), a) \in Seq(SoundLayers)
  BY <1>1, LayersWork, KnownNames, ChainsWork DEF Over, NoAdapter
<1>3. AdaptBytesToType(f) \in Seq(SoundLayers)
  BY <1>2 DEF AdaptBytesToType, Adapters
<1>4. AdaptBytesToLogicWire(f) \in Seq(SoundLayers)
  BY <1>2 DEF AdaptBytesToLogicWire, Adapters
<1>5. <<Layer("typed")>> \in Seq(SoundLayers) /\ <<Layer("wire")>> \in Seq(SoundLayers)
  BY LayersWork, KnownNames, ChainsWork
<1> QED BY <1>3, <1>4, <1>5 DEF PlainTypedCache, LogicWireCache

\* What the factory makes works, if the durations of logical expiry were
\* checked before there was any.
LEMMA InnermostWorks ==
    ASSUME NEW f \in Feature, NEW made \in {"simple", "custom", "plain", "logic"},
           made = "logic" => CheckTTLConfigValid(f)
    PROVE  Innermost(made, f) \in Seq(SoundLayers)
<1>1. CASE made \in {"simple", "custom"}
  BY <1>1, LayersWork, KnownNames, ChainsWork DEF Innermost
<1>2. CASE made = "plain"
  BY <1>2, StagesWork DEF Innermost
<1>3. CASE made = "logic"
  <2>1. LogicTTL(f) \in SoundLayers
    BY <1>3, FeatureTypes, LayersWork, KnownNames DEF LogicTTL, CheckTTLConfigValid
  <2> QED BY <1>3, <2>1, StagesWork, ChainsWork DEF Innermost, NoAdapter
<1> QED BY <1>1, <1>2, <1>3

\* Only behaviours with a valid duration are added.
LEMMA BehavioursWork ==
    ASSUME NEW f \in Feature
    PROVE  Behaviours(f) \in Seq(SoundLayers)
<1>1. MissedLoader(f) \in Seq(SoundLayers)
  <2>1. TTLValid(f.missLoader.writeBackTTL) =>
            Timed("missLoader", {f.missLoader.writeBackTTL}) \in SoundLayers
    BY FeatureTypes, KnownNames, LayersWork DEF TTLValid
  <2> QED BY <2>1, ChainsWork DEF MissedLoader
<1>2. PenetrationProtection(f) \in Seq(SoundLayers)
  <2>1. TTLValid(f.nilCache.writeBackTTL) =>
            Timed("nilCache", {f.nilCache.writeBackTTL}) \in SoundLayers
    BY FeatureTypes, KnownNames, LayersWork DEF TTLValid
  <2> QED BY <2>1, ChainsWork DEF PenetrationProtection
<1>3. Singleflight(f) \in Seq(SoundLayers)
  BY LayersWork, KnownNames, ChainsWork DEF Singleflight
<1> QED BY <1>1, <1>2, <1>3, ChainsWork DEF Behaviours

\* cache.New adds layers that work, and changes none of the builder's but the
\* name of one.
LEMMA NewWorks ==
    ASSUME TypeOK, NEW made \in {"simple", "custom", "plain", "logic"},
           made = "logic" => CheckTTLConfigValid(features),
           NEW layers \in Seq(SoundLayers)
    PROVE  New(made, layers) \in Seq(SoundLayers)
<1> DEFINE instances == [i \in DOMAIN layers |-> Instance(layers[i])]
           others == {j \in DOMAIN options : options[j] = "decorator"}
<1>1. Innermost(Factory(made), features) \in Seq(SoundLayers)
  <2>1. /\ Factory(made) \in {"simple", "custom", "plain", "logic"}
        /\ Factory(made) = "logic" => CheckTTLConfigValid(features)
    BY DEF Factory
  <2>2. features \in Feature
    BY DEF TypeOK
  <2> QED BY <2>1, <2>2, InnermostWorks
<1>2. instances \in Seq(SoundLayers)
  <2>1. \A l \in SoundLayers : Instance(l) \in SoundLayers
    BY KnownNames DEF Instance, SoundLayers, Layers
  <2>2. Len(layers) \in Nat /\ DOMAIN layers = 1..Len(layers)
        /\ \A i \in 1..Len(layers) : layers[i] \in SoundLayers
    OBVIOUS
  <2>3. instances \in [1..Len(layers) -> SoundLayers]
    BY <2>1, <2>2
  <2> QED BY <2>2, <2>3, FunctionIsSeq
<1>3. OptionLayers \in Seq(SoundLayers)
  <2>1. DOMAIN options = 1..Len(options) /\ Len(options) \in Nat
    BY DEF TypeOK
  <2>2. IsFiniteSet(others)
    <3>1. IsFiniteSet(1..Len(options))
      BY <2>1, FS_Interval
    <3>2. others \in SUBSET (1..Len(options))
      BY <2>1
    <3> QED BY <3>1, <3>2, FS_Subset
  <2>3. Cardinality(others) \in Nat
    BY <2>2, FS_CardinalityType
  <2>4. Layer("option") \in SoundLayers
    BY LayersWork, KnownNames
  <2>5. OptionLayers \in [1..Cardinality(others) -> SoundLayers]
    BY <2>4 DEF OptionLayers
  <2> QED BY <2>3, <2>5, FunctionIsSeq
<1>4. <<Layer("observer")>> \in Seq(SoundLayers)
  BY LayersWork, KnownNames, ChainsWork
<1>5. NoCache \in Seq(SoundLayers)
  BY DEF NoCache
<1> HIDE DEF instances
<1>6. Innermost(Factory(made), features) \o instances \o <<Layer("observer")>>
        \o OptionLayers \in Seq(SoundLayers)
  BY <1>1, <1>2, <1>3, <1>4, ChainsWork
<1> QED BY <1>5, <1>6 DEF New, instances

-----------------------------------------------------------------------------
(***************************************************************************)
(* Steps                                                                   *)
(***************************************************************************)

\* What a step may leave as it is, and what it keeps otherwise.
Collected == <<factory, factoryCustomized, decorators, options>>

\* Options ask for features of the right types; one of them records that a
\* duration was refused.
LEMMA FeaturesAsked ==
    ASSUME TypeOK,
           \/ WithSingleflight \/ WithCodec \/ WithTypeAdapter \/ WithByteTransforms
           \/ WithLogicExpireEnabled \/ WithLogicExpireTTL
           \/ WithLogicExpireBytesAdapter \/ WithLogicExpireLoader
           \/ WithCacheMissLoader \/ WithCacheMissDefaultWriteBackTTL
           \/ WithNilCacheFn \/ WithNilCacheWriteBackTTL
    PROVE  Calls /\ features' \in Feature /\ err' \in BOOLEAN /\ UNCHANGED Collected
<1>a. features \in Feature /\ err \in BOOLEAN
  BY DEF TypeOK
<1>1. CASE WithSingleflight
  <2>1. \A on \in BOOLEAN : [features EXCEPT !.singleFlight = on] \in Feature
    BY <1>a DEF Feature
  <2> QED BY <1>1, <1>a, <2>1 DEF WithSingleflight, Asks, Collected
<1>2. CASE WithCodec
  <2>1. \A on \in BOOLEAN : [features EXCEPT !.codec = on] \in Feature
    BY <1>a DEF Feature
  <2> QED BY <1>2, <1>a, <2>1 DEF WithCodec, Asks, Collected
<1>3. CASE WithTypeAdapter
  <2>1. \A on \in BOOLEAN : [features EXCEPT !.typeAdapter = on] \in Feature
    BY <1>a DEF Feature
  <2> QED BY <1>3, <1>a, <2>1 DEF WithTypeAdapter, Asks, Collected
<1>4. CASE WithByteTransforms
  <2>1. ASSUME NEW t \in Transforms
        PROVE  [features EXCEPT !.byteTransforms = Append(@, t)] \in Feature
    <3>1. Append(features.byteTransforms, t) \in Seq(Transforms)
      BY <1>a DEF Feature
    <3> QED BY <1>a, <3>1 DEF Feature
  <2> QED BY <1>4, <1>a, <2>1 DEF WithByteTransforms, Asks, Collected
<1>5. CASE WithLogicExpireEnabled
  <2>1. \A on \in BOOLEAN : [features EXCEPT !.logicExpire.enabled = on] \in Feature
    BY <1>a DEF Feature
  <2> QED BY <1>5, <1>a, <2>1 DEF WithLogicExpireEnabled, Asks, Collected
<1>6. CASE WithLogicExpireTTL
  <2>1. ASSUME NEW d \in Durations
        PROVE  /\ [features EXCEPT !.logicExpire.enabled = TRUE,
                                   !.logicExpire.logicTTL = d] \in Feature
               /\ [features EXCEPT !.logicExpire.enabled = TRUE,
                                   !.logicExpire.writeBackTTL = d] \in Feature
    BY <1>a DEF Feature
  <2>2. PICK d \in Durations :
          /\ \/ Asks([features EXCEPT !.logicExpire.enabled = TRUE,
                                      !.logicExpire.logicTTL = d])
             \/ Asks([features EXCEPT !.logicExpire.enabled = TRUE,
                                      !.logicExpire.writeBackTTL = d])
          /\ err' = (err \/ d < 0)
    BY <1>6 DEF WithLogicExpireTTL
  <2>3. err' \in BOOLEAN
    BY <2>2, <1>a
  <2> QED BY <2>1, <2>2, <2>3 DEF Asks, Collected
<1>7. CASE WithLogicExpireBytesAdapter
  <2>1. ASSUME NEW on \in BOOLEAN
        PROVE  [features EXCEPT !.logicExpire.bytesAdapter = on,
                                !.logicExpire.enabled = @ \/ on] \in Feature
    BY <1>a DEF Feature
  <2> QED BY <1>7, <1>a, <2>1 DEF WithLogicExpireBytesAdapter, Asks, Collected
<1>8. CASE WithLogicExpireLoader
  <2>1. ASSUME NEW on \in BOOLEAN
        PROVE  [features EXCEPT !.logicExpire.enabled = TRUE,
                                !.logicExpire.loader = on] \in Feature
    BY <1>a DEF Feature
  <2> QED BY <1>8, <1>a, <2>1 DEF WithLogicExpireLoader, Asks, Collected
<1>9. CASE WithCacheMissLoader
  <2>1. \A on \in BOOLEAN : [features EXCEPT !.missLoader.loader = on] \in Feature
    BY <1>a DEF Feature
  <2> QED BY <1>9, <1>a, <2>1 DEF WithCacheMissLoader, Asks, Collected
<1>10. CASE WithCacheMissDefaultWriteBackTTL
  <2>1. \A d \in Durations : [features EXCEPT !.missLoader.writeBackTTL = d] \in Feature
    BY <1>a DEF Feature
  <2> QED BY <1>10, <1>a, <2>1 DEF WithCacheMissDefaultWriteBackTTL, Asks, Collected
<1>11. CASE WithNilCacheFn
  <2>1. \A on \in BOOLEAN : [features EXCEPT !.nilCache.protection = on] \in Feature
    BY <1>a DEF Feature
  <2> QED BY <1>11, <1>a, <2>1 DEF WithNilCacheFn, Asks, Collected
<1>12. CASE WithNilCacheWriteBackTTL
  <2>1. \A d \in Durations : [features EXCEPT !.nilCache.writeBackTTL = d] \in Feature
    BY <1>a DEF Feature
  <2> QED BY <1>12, <1>a, <2>1 DEF WithNilCacheWriteBackTTL, Asks, Collected
<1> QED BY <1>1, <1>2, <1>3, <1>4, <1>5, <1>6, <1>7, <1>8, <1>9, <1>10, <1>11, <1>12

\* What Build compiles is made of valid durations if it is accepted.
LEMMA BuildKeeps == IInv /\ Build => IInv'
<1> SUFFICES ASSUME IInv, Build PROVE IInv'
  OBVIOUS
<1>a. /\ TypeOK /\ features \in Feature /\ builds \in 0..MaxBuilds
      /\ factory \in {"simple", "custom", "plain", "logic"}
      /\ factoryCustomized \in BOOLEAN /\ err \in BOOLEAN
      /\ decorators \in Seq(SoundLayers)
      /\ factoryCustomized => factory = "custom"
  BY DEF IInv, TypeOK
<1>b. /\ builds < MaxBuilds /\ builds' = builds + 1
      /\ err' = (err \/ ~Accepted(features))
      /\ factory' = Compiled(features)
      /\ decorators' = decorators \o Behaviours(features)
      /\ UNCHANGED <<isBytes, features, factoryCustomized, options, calls>>
  BY DEF Build
<1>1. /\ factory' \in {"simple", "custom", "plain", "logic"}
      /\ factoryCustomized => factory' = "custom"
      /\ ~err' /\ factory' = "logic" => CheckTTLConfigValid(features)
  BY <1>a, <1>b DEF Compiled, Compiles, Accepted
<1>2. decorators' \in Seq(SoundLayers)
  BY <1>a, <1>b, BehavioursWork, ChainsWork
<1>3. cache' \in Seq(SoundLayers)
  <2>1. NoCache \in Seq(SoundLayers)
    BY DEF NoCache
  <2>2. ~err' => New(factory', decorators') \in Seq(SoundLayers)
    BY <1>a, <1>1, <1>2, NewWorks
  <2> DEFINE made == IF err' THEN NoCache ELSE New(factory', decorators')
  <2>3. cache' = made \/ cache' = NoCache
    BY DEF Build
  <2> QED BY <2>1, <2>2, <2>3
<1>4. decorators' \in Seq(Layers) /\ cache' \in Seq(Layers)
  BY <1>2, <1>3, SeqMonotonic DEF SoundLayers
<1>5. builds' \in 0..MaxBuilds /\ err' \in BOOLEAN
  BY <1>a, <1>b, BoundsAssumption
<1> QED BY <1>b, <1>1, <1>2, <1>3, <1>4, <1>5 DEF IInv, TypeOK

\* Every step keeps the builder sound.
LEMMA StepIInv == IInv /\ [Next]_vars => IInv'
<1> SUFFICES ASSUME IInv, [Next]_vars PROVE IInv'
  OBVIOUS
<1>a. calls \in 0..MaxCalls /\ features \in Feature /\ decorators \in Seq(SoundLayers)
      /\ decorators \in Seq(Layers) /\ options \in Seq(Options)
  BY DEF IInv, TypeOK
<1>b. Calls => calls' \in 0..MaxCalls /\ UNCHANGED <<isBytes, cache, builds>>
  BY <1>a, BoundsAssumption DEF Calls
<1>1. CASE \/ WithSingleflight \/ WithCodec \/ WithTypeAdapter \/ WithByteTransforms
           \/ WithLogicExpireEnabled \/ WithLogicExpireTTL
           \/ WithLogicExpireBytesAdapter \/ WithLogicExpireLoader
           \/ WithCacheMissLoader \/ WithCacheMissDefaultWriteBackTTL
           \/ WithNilCacheFn \/ WithNilCacheWriteBackTTL
  <2>1. Calls /\ features' \in Feature /\ err' \in BOOLEAN /\ UNCHANGED Collected
    BY <1>1, FeaturesAsked DEF IInv
  <2> QED BY <1>b, <2>1 DEF IInv, TypeOK, Collected
<1>2. CASE WithFactory
  BY <1>2, <1>b DEF WithFactory, IInv, TypeOK
<1>3. CASE WithDecorators
  <2>1. Layer("decorator") \in SoundLayers
    BY LayersWork, KnownNames
  <2>2. decorators' \in Seq(SoundLayers) /\ decorators' \in Seq(Layers)
    BY <1>3, <1>a, <2>1, ChainsWork, SeqMonotonic DEF WithDecorators, SoundLayers
  <2> QED BY <1>3, <1>b, <2>2 DEF WithDecorators, IInv, TypeOK
<1>4. CASE WithOptions
  <2>1. options' \in Seq(Options)
    BY <1>4, <1>a DEF WithOptions
  <2> QED BY <1>4, <1>b, <2>1 DEF WithOptions, IInv, TypeOK
<1>5. CASE Build
  BY <1>5, BuildKeeps
<1>6. CASE Finished \/ UNCHANGED vars
  BY <1>6 DEF Finished, vars, IInv, TypeOK
<1> QED BY <1>1, <1>2, <1>3, <1>4, <1>5, <1>6 DEF Next

LEMMA InitIInv == Init => IInv
<1> SUFFICES ASSUME Init PROVE IInv
  OBVIOUS
<1>1. features \in Feature
  BY DEF Init, Feature, Durations
<1>2. /\ decorators \in Seq(SoundLayers) /\ decorators \in Seq(Layers)
      /\ cache \in Seq(SoundLayers) /\ cache \in Seq(Layers)
      /\ options \in Seq(Options)
  BY DEF Init, NoCache
<1>3. calls \in 0..MaxCalls /\ builds \in 0..MaxBuilds
  BY BoundsAssumption DEF Init
<1> QED BY <1>1, <1>2, <1>3 DEF Init, IInv, TypeOK

-----------------------------------------------------------------------------
(***************************************************************************)
(* Theorems                                                                *)
(***************************************************************************)

\* The builder and its cache are sound, whatever was called and in whatever
\* order.
THEOREM Invariance == Spec => []IInv
  BY InitIInv, StepIInv, PTL DEF Spec

\* Every variable keeps its type: whatever Build yields is a chain of layers
\* that exist, and never one for which compile.go knows no adapter.
THEOREM TypeCorrect == Spec => []TypeOK
<1>1. IInv => TypeOK
  BY DEF IInv
<1> QED BY <1>1, Invariance, PTL

\* No cache works with a duration below zero, in whatever order durations,
\* loaders and switches were set, refused and corrected (checkTTLConfigValid,
\* decorateCacheMissedLoader, decoratePenetrationProtection).
THEOREM DurationsAreAccepted == Spec => []DurationsAccepted
<1>1. IInv => DurationsAccepted
  BY DEF IInv, DurationsAccepted, SoundLayers
<1> QED BY <1>1, Invariance, PTL

=============================================================================
