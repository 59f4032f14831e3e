----------------------------- MODULE SingleCache -----------------------------
(***************************************************************************)
(* A single-level cache as Builder.Build assembles it (cache.go), from the *)
(* outside in:                                                             *)
(*                                                                         *)
(*   SingleflightDecorator   merges concurrent reads of a key              *)
(*   NilCacheDecorator       caches a placeholder for a missing key        *)
(*   MissedLoaderDecorator   loads a missing key and writes it back        *)
(*   LogicTTLDecorator       reloads an entry that has logically expired   *)
(*   Store                                                                 *)
(*                                                                         *)
(* `features` says which decorators are there.  A request is one call of   *)
(* the cache by one goroutine; pc[r] is what the goroutine is about to do. *)
(* What a decorator makes of the answer of the one below it is a function  *)
(* of that answer (LogicTTLGet, MissedLoaderGet, NilCacheGet); what it     *)
(* then does to the store or asks of a loader is a step.                   *)
(*                                                                         *)
(* Both loaders are wrapped by SingleflightWrapper: Miss and Refresh are   *)
(* two instances of LoaderFlight, which share nothing but the contexts.    *)
(*                                                                         *)
(* Data is abstracted to the version of the source it was read from        *)
(* (Source).                                                               *)
(***************************************************************************)
EXTENDS Source

CONSTANTS
    Requests,       \* calls of the cache, one goroutine each
    Ops,            \* the operations that requests may be
    FeatureSets,    \* the builds considered: a set of subsets of Features
    StoreFaults,    \* BOOLEAN: store operations may fail
    None            \* no request, no key

Features == {"singleflight", "nilCache", "missLoader",
             "logicExpire", "logicLoader"}

Reads == {"Get", "GetWithTTL"}
Writes == {"Set", "Delete", "Clear"}

ASSUME FeatureAssumption == FeatureSets \subseteq SUBSET Features
ASSUME OpAssumption == Ops \subseteq Reads \cup Writes
ASSUME StoreFaultAssumption == StoreFaults \in BOOLEAN
ASSUME NoneAssumption == None \notin (Requests \cup Keys \cup LoaderResults)

VARIABLES
    features,   \* what the builder was given; never changes
    pc,         \* pc[r]: what request r does next
    req,        \* req[r]: the operation, its key and the version a Set writes
    res,        \* res[r]: the answer of request r, or of its chain so far
    store,      \* store[k]: the entry of key k
    leader,     \* leader[k]: the read of k that others join (singleflight)
    joined,     \* joined[r]: the read that answers request r, if not itself
    cancelled,  \* cancelled[r]: the context of request r is done
    missGroup, missFlight, missCall,            \* the miss loader
    refreshGroup, refreshFlight, refreshCall,   \* the logic-expire loader
    floor,      \* history: no data of k older than floor[k] is left anywhere
    floorAt     \* history: floorAt[r] is floor[k] when request r began

chainVars == <<pc, res>>
missVars == <<missGroup, missFlight, missCall>>
refreshVars == <<refreshGroup, refreshFlight, refreshCall>>
mergeVars == <<leader, joined>>
historyVars == <<floor, floorAt>>

\* What a request that has begun never changes.
context == <<features, req, cancelled, sourceVars, historyVars>>
vars == <<features, pc, req, res, store, leader, joined, cancelled,
          missVars, refreshVars, sourceVars, floor, floorAt>>

-----------------------------------------------------------------------------
(***************************************************************************)
(* The store, the loaders and the initial state                            *)
(***************************************************************************)

Entry(t, v) == [tag |-> t, ver |-> v, stale |-> FALSE]
Empty == Entry("notfound", 0)

Has(feature) == feature \in features
KeyOf(r) == req[r].key

Miss == INSTANCE LoaderFlight
            WITH Results <- LoaderResults, group <- missGroup,
                 flight <- missFlight, call <- missCall
Refresh == INSTANCE LoaderFlight
            WITH Results <- LoaderResults, group <- refreshGroup,
                 flight <- refreshFlight, call <- refreshCall

Init ==
    /\ features \in FeatureSets
    /\ pc = [r \in Requests |-> "idle"]
    /\ req = [r \in Requests |-> [op |-> None, key |-> None, ver |-> 0]]
    /\ res = [r \in Requests |-> NoAnswer]
    /\ store = [k \in Keys |-> Empty]
    /\ leader = [k \in Keys |-> None]
    /\ joined = [r \in Requests |-> None]
    /\ Miss!Init
    /\ Refresh!Init
    /\ SourceInit
    /\ floor = [k \in Keys |-> 0]
    /\ floorAt = [r \in Requests |-> 0]

-----------------------------------------------------------------------------
(***************************************************************************)
(* Steps of a request                                                      *)
(***************************************************************************)

\* Request r goes on at p with the answer x.
Goes(r, p, x) ==
    /\ pc' = [pc EXCEPT ![r] = p]
    /\ res' = [res EXCEPT ![r] = x]

Continues(r, next) == Goes(r, next.pc, next.res)

Then(p, x) == [pc |-> p, res |-> x]

\* Plausible bug: any error of the inner cache is taken for a miss.
NilCacheGetAny(x) ==
    IF IsError(x) /\ Has("nilCache") THEN Then("protect", x)
                                     ELSE Then("leave", x)

\* NilCacheDecorator: a miss is answered by a placeholder.
NilCacheGet(x) ==
    IF x.tag = "notfound" /\ Has("nilCache") THEN Then("protect", x)
                                             ELSE Then("leave", x)

\* Plausible bug: the loader is called whether or not there is one.
MissedLoaderGetAlways(x) ==
    IF x.tag = "notfound" THEN Then("load", x) ELSE NilCacheGet(x)

\* MissedLoaderDecorator: a miss is answered by the loader.
MissedLoaderGet(x) ==
    IF x.tag = "notfound" /\ Has("missLoader") THEN Then("load", x)
                                               ELSE NilCacheGet(x)

\* LogicTTLDecorator: Get reloads an entry that has logically expired, and
\* answers with the entry it found.  GetWithTTL does not look.
LogicTTLGet(r, e) ==
    LET x == Answer(e.tag, e.ver)
    IN  IF /\ IsHit(x) /\ e.stale /\ req[r].op = "Get"
           /\ Has("logicExpire") /\ Has("logicLoader")
        THEN Then("refresh", x)
        ELSE MissedLoaderGet(x)

\* What the store may return to a read: the entry, or an error.  A store that
\* watches the context fails once it is done.
StoreReturns(r) ==
    {store[KeyOf(r)]}
        \cup (IF StoreFaults THEN {Entry("err", 0)} ELSE {})
        \cup (IF cancelled[r] THEN {Entry("ctx", 0)} ELSE {})

\* The errors a write may return.
WriteErrors(r) ==
    (IF StoreFaults THEN {Err} ELSE {})
        \cup (IF cancelled[r] THEN {CtxErr} ELSE {})

\* Request r writes e for its key.  A write that fails may have taken place.
Stores(r, e) ==
    \/ store' = [store EXCEPT ![KeyOf(r)] = e]
    \/ WriteErrors(r) # {} /\ UNCHANGED store

-----------------------------------------------------------------------------
(***************************************************************************)
(* Reads                                                                   *)
(***************************************************************************)

\* No request is at work on k and no loader runs for it.
Quiet(k) ==
    /\ \A r \in Requests : KeyOf(r) = k => pc[r] = "done"
    /\ \A f \in Requests :
         /\ Miss!InFlight(f) => missFlight[f].key # k
         /\ Refresh!InFlight(f) => refreshFlight[f].key # k

Begins(r, o, k) ==
    /\ pc[r] = "idle"
    /\ req' = [req EXCEPT ![r] =
                 [op |-> o, key |-> k, ver |-> IF o = "Set" THEN source[k] ELSE 0]]
    /\ floor' = [floor EXCEPT ![k] =
                   IF Quiet(k) /\ store[k] = Empty THEN source[k] ELSE @]
    /\ floorAt' = [floorAt EXCEPT ![r] = floor'[k]]
    /\ UNCHANGED <<features, store, cancelled, missVars, refreshVars,
                   sourceVars>>

\* Plausible bug: a read in progress is not joined.
LeadUnmerged(r, o, k) ==
    /\ Begins(r, o, k)
    /\ leader' = IF Has("singleflight") THEN [leader EXCEPT ![k] = r] ELSE leader
    /\ Goes(r, "read", NoAnswer)
    /\ UNCHANGED joined

\* Group.Do finds no read of k, or there is no SingleflightDecorator: r goes
\* through the chain itself.
Lead(r, o, k) ==
    /\ Begins(r, o, k)
    /\ leader[k] = None
    /\ leader' = IF Has("singleflight") THEN [leader EXCEPT ![k] = r] ELSE leader
    /\ Goes(r, "read", NoAnswer)
    /\ UNCHANGED joined

\* Group.Do finds one: r waits for its answer.
Follow(r, o, k) ==
    /\ Begins(r, o, k)
    /\ leader[k] # None
    /\ joined' = [joined EXCEPT ![r] = leader[k]]
    /\ Goes(r, "follow", NoAnswer)
    /\ UNCHANGED leader

\* The innermost read.
Read(r) ==
    /\ pc[r] = "read"
    /\ \E e \in StoreReturns(r) : Continues(r, LogicTTLGet(r, e))
    /\ UNCHANGED <<context, store, mergeVars, missVars, refreshVars>>

\* Plausible bug: the miss loader is not wrapped.
LoadUnmerged(r) ==
    /\ pc[r] = "load"
    /\ Miss!CreateAlways(r, KeyOf(r))
    /\ Goes(r, "awaitLoad", res[r])
    /\ UNCHANGED <<context, store, mergeVars, refreshVars>>

\* loadFromSource calls the loader,
Load(r) ==
    /\ pc[r] = "load"
    /\ Miss!Join(r, KeyOf(r)) \/ Miss!Create(r, KeyOf(r))
    /\ Goes(r, "awaitLoad", res[r])
    /\ UNCHANGED <<context, store, mergeVars, refreshVars>>

\* takes its answer,
Loaded(r) ==
    /\ pc[r] = "awaitLoad"
    /\ Miss!Receive(r) \/ Miss!GiveUp(r)
    /\ LET x == missCall'[r].res
       IN  Continues(r, IF IsError(x) THEN NilCacheGet(x)
                                      ELSE Then("writeBack", x))
    /\ UNCHANGED <<context, store, mergeVars, refreshVars>>

\* and writes it back.  A write-back that fails is only logged.
WriteBack(r) ==
    /\ pc[r] = "writeBack"
    /\ Stores(r, Entry("value", res[r].ver))
    /\ Goes(r, "leave", res[r])
    /\ UNCHANGED <<context, mergeVars, missVars, refreshVars>>

\* protectFromPenetration caches a placeholder and answers with it.
Protect(r) ==
    /\ pc[r] = "protect"
    /\ Stores(r, Entry("placeholder", res[r].ver))
    /\ Goes(r, "leave", Answer("placeholder", res[r].ver))
    /\ UNCHANGED <<context, mergeVars, missVars, refreshVars>>

\* onExpire calls its loader,
Reload(r) ==
    /\ pc[r] = "refresh"
    /\ Refresh!Join(r, KeyOf(r)) \/ Refresh!Create(r, KeyOf(r))
    /\ Goes(r, "awaitRefresh", res[r])
    /\ UNCHANGED <<context, store, mergeVars, missVars>>

\* Plausible bug: a failed reload fails the read.
ReloadedOrFailed(r) ==
    /\ pc[r] = "awaitRefresh"
    /\ Refresh!Receive(r) \/ Refresh!GiveUp(r)
    /\ LET x == refreshCall'[r].res
       IN  IF IsError(x) THEN Goes(r, "leave", x) ELSE Goes(r, "rewrite", res[r])
    /\ UNCHANGED <<context, store, mergeVars, missVars>>

\* takes its answer, logging an error,
Reloaded(r) ==
    /\ pc[r] = "awaitRefresh"
    /\ Refresh!Receive(r) \/ Refresh!GiveUp(r)
    /\ Goes(r, IF IsError(refreshCall'[r].res) THEN "leave" ELSE "rewrite", res[r])
    /\ UNCHANGED <<context, store, mergeVars, missVars>>

\* and replaces the entry.
Rewrite(r) ==
    /\ pc[r] = "rewrite"
    /\ Stores(r, Entry("value", refreshCall[r].res.ver))
    /\ Goes(r, "leave", res[r])
    /\ UNCHANGED <<context, mergeVars, missVars, refreshVars>>

\* Plausible bug: a read that ends stays in the group.
LeaveRegistered(r) ==
    /\ pc[r] = "leave"
    /\ Goes(r, "done", res[r])
    /\ UNCHANGED <<context, store, mergeVars, missVars, refreshVars>>

\* The chain returns; Group.Do forgets the key.
Leave(r) ==
    /\ pc[r] = "leave"
    /\ Goes(r, "done", res[r])
    /\ leader' = [k \in Keys |-> IF leader[k] = r THEN None ELSE leader[k]]
    /\ UNCHANGED <<context, store, joined, missVars, refreshVars>>

\* Group.Do returns the other's answer.  Get and GetWithTTL share the group
\* but not the type of what they put into it: the type assertion panics.
Share(r) ==
    /\ pc[r] = "follow"
    /\ pc[joined[r]] = "done"
    /\ LET x == res[joined[r]]
       IN  Goes(r, "done", IF req[r].op = req[joined[r]].op \/ IsError(x)
                           THEN x ELSE Answer("panic", 0))
    /\ UNCHANGED <<context, store, mergeVars, missVars, refreshVars>>

-----------------------------------------------------------------------------
(***************************************************************************)
(* Writes                                                                  *)
(***************************************************************************)

\* A caller writes what it read from the source.  A Delete or a Clear has no
\* data of its own.
BeginWrite(r, o, k) ==
    /\ Begins(r, o, k)
    /\ o = "Set" => source[k] \notin absent[k]
    /\ Goes(r, "write", NoAnswer)
    /\ UNCHANGED mergeVars

\* The store after the write of r has taken place.
Written(r) ==
    CASE req[r].op = "Set" ->
           [store EXCEPT ![KeyOf(r)] = Entry("value", req[r].ver)]
      [] req[r].op = "Delete" -> [store EXCEPT ![KeyOf(r)] = Empty]
      [] req[r].op = "Clear" -> [k \in Keys |-> Empty]

\* Set, Delete and Clear go straight to the store and return what it returns.
Write(r) ==
    /\ pc[r] = "write"
    /\ \/ store' = Written(r) /\ Goes(r, "done", Answer("ok", 0))
       \/ \E x \in WriteErrors(r) :
            /\ store' \in {store, Written(r)}
            /\ Goes(r, "done", x)
    /\ UNCHANGED <<context, mergeVars, missVars, refreshVars>>

-----------------------------------------------------------------------------
(***************************************************************************)
(* The loaders and the environment                                         *)
(***************************************************************************)

\* The user's loader reads the source; its flight delivers the answer.
MissLoader(f) ==
    /\ Miss!InFlight(f)
    /\ \/ \E x \in SourceReturns(missFlight[f].key) : Miss!Load(f, x)
       \/ Miss!Deliver(f)
    /\ UNCHANGED <<context, chainVars, store, mergeVars, refreshVars>>

RefreshLoader(f) ==
    /\ Refresh!InFlight(f)
    /\ \/ \E x \in SourceReturns(refreshFlight[f].key) : Refresh!Load(f, x)
       \/ Refresh!Deliver(f)
    /\ UNCHANGED <<context, chainVars, store, mergeVars, missVars>>

\* The context of r ends.
Cancel(r) ==
    /\ ~cancelled[r]
    /\ cancelled' = [cancelled EXCEPT ![r] = TRUE]
    /\ UNCHANGED <<features, chainVars, req, store, mergeVars, missVars,
                   refreshVars, sourceVars, historyVars>>

\* The source changes.
Update(k) ==
    /\ SourceUpdate(k)
    /\ UNCHANGED <<features, chainVars, req, store, mergeVars, cancelled,
                   missVars, refreshVars, historyVars>>

\* The entry of k passes its logical expiry, or leaves the store because its
\* TTL is over or the store needs the room.
Age(k) ==
    /\ store[k] # Empty
    /\ \/ /\ Has("logicExpire") /\ ~store[k].stale
          /\ store' = [store EXCEPT ![k].stale = TRUE]
       \/ store' = [store EXCEPT ![k] = Empty]
    /\ UNCHANGED <<context, chainVars, mergeVars, missVars, refreshVars>>

-----------------------------------------------------------------------------

\* What the goroutine of r does without waiting for anyone but a loader or
\* the read it has joined.
Proceed(r) ==
    \/ Read(r) \/ Load(r) \/ Loaded(r) \/ WriteBack(r) \/ Protect(r)
    \/ Reload(r) \/ Reloaded(r) \/ Rewrite(r) \/ Leave(r) \/ Share(r)
    \/ Write(r)

Begin(r) ==
    \E k \in Keys :
        \/ \E o \in Ops \cap Reads : Lead(r, o, k) \/ Follow(r, o, k)
        \/ \E o \in Ops \cap Writes : BeginWrite(r, o, k)

Finished ==
    /\ \A r \in Requests : /\ pc[r] = "done"
                           /\ ~Miss!InFlight(r) /\ ~Refresh!InFlight(r)
    /\ UNCHANGED vars

Next ==
    \/ \E r \in Requests : Begin(r) \/ Proceed(r) \/ Cancel(r)
    \/ \E f \in Requests : MissLoader(f) \/ RefreshLoader(f)
    \/ \E k \in Keys : Update(k) \/ Age(k)
    \/ Finished

Spec == Init /\ [][Next]_vars

\* Goroutines are scheduled fairly, so a request that can proceed does.
\* Nothing makes a request begin, a context end or an entry age.
CallerFairness == \A r \in Requests : WF_vars(Proceed(r))

\* Loaders return.
LoaderFairness ==
    \A f \in Requests : WF_vars(MissLoader(f)) /\ WF_vars(RefreshLoader(f))

\* Loaders may hang for ever.
HangingSpec == Spec /\ CallerFairness

-----------------------------------------------------------------------------
(***************************************************************************)
(* Correctness                                                             *)
(***************************************************************************)

Steps == {"idle", "read", "load", "awaitLoad", "writeBack", "protect",
          "refresh", "awaitRefresh", "rewrite", "leave", "follow", "write",
          "done"}
Request == [op : Ops \cup {None}, key : Keys \cup {None}, ver : Versions]
Outcome == [tag : Tags, ver : Versions]
StoreEntry == [tag : {"value", "placeholder", "notfound"}, ver : Versions,
               stale : BOOLEAN]

\* Request r can be at p only if the build has the decorator that p is in.
MayBeAt(r, p) ==
    /\ p # "idle" => req[r].op \in Ops /\ KeyOf(r) \in Keys
    /\ p \in {"load", "awaitLoad", "writeBack"} => Has("missLoader")
    /\ p = "protect" => Has("nilCache")
    /\ p \in {"refresh", "awaitRefresh", "rewrite"} =>
         Has("logicExpire") /\ Has("logicLoader")
    /\ p = "follow" => Has("singleflight") /\ joined[r] \in Requests
    /\ p = "write" => req[r].op \in Writes

\* Every variable keeps its type, and a request is at a step of a decorator
\* only if the builder put that decorator into the chain: no nil loader is
\* called.
TypeOK ==
    /\ features \in FeatureSets
    /\ pc \in [Requests -> Steps]
    /\ req \in [Requests -> Request]
    /\ res \in [Requests -> Outcome]
    /\ store \in [Keys -> StoreEntry]
    /\ leader \in [Keys -> Requests \cup {None}]
    /\ joined \in [Requests -> Requests \cup {None}]
    /\ Miss!TypeOK
    /\ Refresh!TypeOK
    /\ SourceTypeOK
    /\ floor \in [Keys -> Versions]
    /\ floorAt \in [Requests -> Versions]
    /\ \A r \in Requests : MayBeAt(r, pc[r])

\* Where a read of r is neither beginning nor over.
InChain(r) == pc[r] \in {"read", "load", "awaitLoad", "writeBack", "protect",
                         "refresh", "awaitRefresh", "rewrite", "leave"}

\* With singleflight, concurrent reads of a key are merged into one: whatever
\* the order of arrivals, cancellations and departures, one read of a key at
\* most is inside the chain (SingleflightDecorator, Group.Do).
ReadsMerged ==
    Has("singleflight") =>
        \A r, s \in Requests :
            InChain(r) /\ InChain(s) /\ KeyOf(r) = KeyOf(s) => r = s

\* The contexts that may fail r: its own, that of the read it joined, and
\* that of the request that created the flight either of them waited for.
Causes(r) ==
    LET chain == {r, joined[r]} \ {None}
    IN  chain \cup ({missCall[s].on : s \in chain} \ {None})

\* A context error has a cause: a read that fails with one has a context that
\* ended, or was merged with a read or a load whose context ended.
CtxErrorHasCause ==
    \A r \in Requests : pc[r] = "done" /\ res[r] = CtxErr =>
        \E c \in Causes(r) : cancelled[c]

\* With a miss loader every answer was once true of the source.  A value is
\* the value of a version at which the key existed; a placeholder or a
\* not-found stands for a version at which it did not, so that an error or a
\* cancelled load is never cached as the absence of the key.
AnswersTrue ==
    Has("missLoader") =>
        /\ \A r \in Requests : pc[r] = "done" =>
             /\ res[r].tag = "value" => res[r].ver \notin absent[KeyOf(r)]
             /\ res[r].tag \in {"placeholder", "notfound"} =>
                  res[r].ver \in absent[KeyOf(r)]
        /\ \A k \in Keys :
             /\ store[k].tag = "value" => store[k].ver \notin absent[k]
             /\ store[k].tag = "placeholder" => store[k].ver \in absent[k]

\* Invalidation is effective when nothing overlaps it.  Once the entry of a
\* key is gone while no request and no loader is at work on the key, nothing
\* older than the source was at that moment is ever stored or answered again:
\* neither a flight nor a group keeps a result past its end.  (A read that is
\* in progress when the entry is deleted does bring old data back.)
FreshAfterInvalidation ==
    Has("missLoader") =>
        /\ \A k \in Keys : store[k] # Empty => store[k].ver >= floor[k]
        /\ \A r \in Requests : pc[r] = "done" /\ IsHit(res[r]) =>
             res[r].ver >= floorAt[r]

\* A read that has data answers with it: neither a failed or cancelled reload
\* nor a failed write-back turns it into an error (missed_loader.go:58-66,
\* logic_expire.go:76-85, nil_cache.go:60-66).
AnswerKept ==
    [][\A r \in Requests : IsHit(res[r]) => res'[r] = res[r]]_vars

\* The loaders behind the chain are called as LoaderFlight says: each request
\* once at most, waiting until it is answered or its context is done.
LoadersAreFlights == Miss!Spec /\ Refresh!Spec

\* If loaders return, every request does.
AllReturn ==
    LoaderFairness =>
        \A r \in Requests : pc[r] # "idle" ~> pc[r] = "done"

\* A request whose context is done returns even if a loader hangs, unless it
\* has joined another read: Group.Do does not watch the context.
CancelledReturns ==
    \A r \in Requests :
        cancelled[r] /\ pc[r] \notin {"idle", "follow"} ~> pc[r] = "done"

-----------------------------------------------------------------------------
(***************************************************************************)
(* What the repository says and the code does not do                       *)
(***************************************************************************)

\* Merging the reads of a key changes no answer: no read panics, whichever of
\* Get and GetWithTTL the others are (WithSingleflight is "for Get and
\* GetWithTTL", cache_features.go:13).
NoReadPanics == \A r \in Requests : res[r].tag # "panic"

\* An expired entry is answered at once and reloaded in the background
\* (docs/FAQ.md, 3; docs/features/LOGIC_EXPIRE.md): the answer does not wait
\* for the loader.
StaleAnsweredAtOnce ==
    \A r \in Requests : pc[r] = "refresh" ~> pc[r] = "done"
=============================================================================
