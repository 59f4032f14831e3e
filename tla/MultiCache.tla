------------------------------ MODULE MultiCache ------------------------------
(***************************************************************************)
(* A multi-level cache as MultiBuilder.Build assembles it with its default *)
(* strategies (multi_cache.go, core/multicache): FetchPolicySequential,    *)
(* MissedCacheFilter, WriteBackParallel or the function write_back.Builder *)
(* makes of it, strict or tolerant of errors.  A level is a cache of its   *)
(* own: it is modelled by what a cache.Cache may do.  Configurations come  *)
(* from MultiBuilder.                                                      *)
(*                                                                         *)
(* A request is one call by one goroutine.  The writes it makes to several *)
(* levels run in parallel: pending[r] is the set of levels whose write has *)
(* not been made.  With an asynchronous write-back the request returns and *)
(* its pending writes go on without it, under the same context.            *)
(***************************************************************************)
EXTENDS Source

CONSTANTS
    Requests,       \* calls of the cache, one goroutine each
    Depth,          \* the number of levels
    Ops,            \* the operations that requests may be
    Configs,        \* the builds considered
    LevelFaults,    \* BOOLEAN: the operations of a level may fail
    None            \* no request, no key, no entry

Levels == 1 .. Depth
Writes == {"Set", "Delete", "Clear"}

\* ErrorHandleMode, Async and ErrCallback of write_back.Builder, whether loads
\* are merged and whether there is a loader; `waived` is history: the builder
\* was told that there may be none.
Config == [mode : {"strict", "tolerant", "other"}, async : BOOLEAN,
           callback : BOOLEAN, singleflight : BOOLEAN, loader : BOOLEAN,
           waived : BOOLEAN]

ASSUME DepthAssumption == Depth \in Nat \ {0}
ASSUME OpAssumption == Ops \subseteq {"Get"} \cup Writes
ASSUME ConfigAssumption == Configs \subseteq Config
ASSUME LevelFaultAssumption == LevelFaults \in BOOLEAN
ASSUME NoneAssumption ==
    None \notin (Requests \cup Keys \cup LoaderResults) /\ None \notin Versions

VARIABLES
    cfg,        \* what the builder was given; never changes
    pc,         \* pc[r]: what request r does next
    req,        \* req[r]: the operation, its key and the version a Set writes
    res,        \* res[r]: the answer of request r, or what it has got so far
    level,      \* level[l][k]: the version of k that level l holds, or None
    at,         \* at[r]: the level that request r visits next
    seen,       \* seen[r][l]: what level l told the Get of request r
    pending,    \* pending[r]: the levels whose write by r is still to be made
    failed,     \* failed[r]: the levels whose write by r failed
    reported,   \* reported[r]: those whose errors the answer of r contains
    callback,   \* callback[r]: what ErrCallback was called with
    cancelled,  \* cancelled[r]: the context of request r is done
    group, flight, call,    \* the loader
    down,       \* a goroutine that nobody recovers has panicked
    alone,      \* history: nothing overlapped request r so far
    floor,      \* history: no data of k older than floor[k] is left anywhere
    floorAt,    \* history: floorAt[r] is floor[k] when request r began
    apart       \* history: apart[k]: why the levels may differ has occurred

loaderVars == <<group, flight, call>>
writeVars == <<level, pending, failed, reported>>
historyVars == <<alone, floor, floorAt, apart>>

\* What a request that has begun never changes.
context == <<cfg, req, cancelled, down, sourceVars>>
vars == <<context, pc, res, at, seen, writeVars, callback, loaderVars,
          historyVars>>

KeyOf(r) == req[r].key

Loader == INSTANCE LoaderFlight WITH Results <- LoaderResults

Init ==
    /\ cfg \in Configs
    /\ pc = [r \in Requests |-> "idle"]
    /\ req = [r \in Requests |-> [op |-> None, key |-> None, ver |-> 0]]
    /\ res = [r \in Requests |-> NoAnswer]
    /\ level = [l \in Levels |-> [k \in Keys |-> None]]
    /\ at = [r \in Requests |-> 1]
    /\ seen = [r \in Requests |-> [l \in Levels |-> "none"]]
    /\ pending = [r \in Requests |-> {}]
    /\ failed = [r \in Requests |-> {}]
    /\ reported = [r \in Requests |-> {}]
    /\ callback = [r \in Requests |-> "none"]
    /\ Loader!Init
    /\ SourceInit
    /\ alone = [r \in Requests |-> FALSE]
    /\ floor = [k \in Keys |-> 0]
    /\ floorAt = [r \in Requests |-> 0]
    /\ apart = [k \in Keys |-> FALSE]
    /\ down = FALSE

-----------------------------------------------------------------------------
(***************************************************************************)
(* Requests begin                                                          *)
(***************************************************************************)

\* No request is at work on k, not even in the background, and no loader
\* runs for it.
Quiet(k) ==
    /\ \A r \in Requests : KeyOf(r) = k => pc[r] = "done" /\ pending[r] = {}
    /\ \A f \in Requests : Loader!InFlight(f) => flight[f].key # k

\* The first step of an operation: a Get or a Delete visits the levels in
\* order, a Set writes to all of them in parallel.
Begin(r, o, k) ==
    /\ pc[r] = "idle"
    /\ o = "Set" => source[k] \notin absent[k]
    /\ req' = [req EXCEPT ![r] =
                 [op |-> o, key |-> k, ver |-> IF o = "Set" THEN source[k] ELSE 0]]
    /\ pc' = [pc EXCEPT ![r] =
                CASE o = "Get" -> "fetch"
                  [] o = "Set" -> "write"
                  [] o \in {"Delete", "Clear"} -> "remove"]
    /\ pending' = [pending EXCEPT ![r] = IF o = "Set" THEN Levels ELSE {}]
    /\ alone' = [s \in Requests |->
                   IF s = r THEN Quiet(k) ELSE alone[s] /\ KeyOf(s) # k]
    /\ floorAt' = [floorAt EXCEPT ![r] = floor[k]]
    /\ apart' = [apart EXCEPT ![k] = @ \/ ~Quiet(k)]
    /\ UNCHANGED <<cfg, cancelled, down, sourceVars, res, at, seen, level, failed,
                   reported, callback, loaderVars, floor>>

\* The errors an operation of a level may return to r.
LevelErrors(r) ==
    (IF LevelFaults THEN {Err} ELSE {})
        \cup (IF cancelled[r] THEN {CtxErr} ELSE {})

-----------------------------------------------------------------------------
(***************************************************************************)
(* Get                                                                     *)
(***************************************************************************)

\* MissedCacheFilter: a level that did not have the key is written to, one
\* that failed is left alone.
MissedCacheFilter(r) == {l \in Levels : seen[r][l] = "notfound"}

\* Request r has got x: it writes it back, or has it written back.
Got(r, x) ==
    /\ res' = [res EXCEPT ![r] = x]
    /\ pending' = [pending EXCEPT ![r] = MissedCacheFilter(r)]
    /\ pc' = [pc EXCEPT ![r] = IF cfg.async THEN "done" ELSE "writeBack"]

\* The level at which r is answers with e.
SeesError(r, e) ==
    /\ seen' = [seen EXCEPT ![r][at[r]] = e.tag]
    /\ at' = [at EXCEPT ![r] = @ + 1]
    /\ UNCHANGED <<res, pending>>

\* Plausible bug: one level too many is asked.
FetchPast(r) ==
    /\ pc[r] = "fetch"
    /\ IF level[at[r]][KeyOf(r)] = None
       THEN /\ SeesError(r, Answer("notfound", 0))
            /\ pc' = [pc EXCEPT ![r] = IF at[r] > Depth THEN "load" ELSE "fetch"]
       ELSE /\ Got(r, Answer("value", level[at[r]][KeyOf(r)]))
            /\ UNCHANGED <<seen, at>>
    /\ UNCHANGED <<context, level, failed, reported, callback, loaderVars,
                   historyVars>>

\* Plausible bug: the loader is asked when the first level misses.
FetchOnce(r) ==
    /\ pc[r] = "fetch"
    /\ IF level[at[r]][KeyOf(r)] = None
       THEN /\ SeesError(r, Answer("notfound", 0))
            /\ pc' = [pc EXCEPT ![r] = "load"]
       ELSE /\ Got(r, Answer("value", level[at[r]][KeyOf(r)]))
            /\ UNCHANGED <<seen, at>>
    /\ UNCHANGED <<context, level, failed, reported, callback, loaderVars,
                   historyVars>>

\* FetchPolicySequential: the first level that answers, else the loader.
Fetch(r) ==
    /\ pc[r] = "fetch"
    /\ LET v == level[at[r]][KeyOf(r)]
           misses == IF v = None THEN {Answer("notfound", 0)} ELSE {}
       IN  \/ /\ v # None
              /\ Got(r, Answer("value", v))
              /\ UNCHANGED <<seen, at, apart>>
           \/ \E e \in misses \cup LevelErrors(r) :
                /\ SeesError(r, e)
                /\ pc' = [pc EXCEPT ![r] =
                            IF at[r] = Depth THEN "load" ELSE "fetch"]
                /\ apart' = [apart EXCEPT ![KeyOf(r)] = @ \/ e.tag # "notfound"]
    /\ UNCHANGED <<context, level, failed, reported, callback, loaderVars,
                   alone, floor, floorAt>>

\* Plausible bug: the loader's error is taken for data.
LoadReturnsAny(r, x) == Got(r, x)

\* The loader has answered r: an error is returned at once.
LoadReturns(r, x) ==
    IF IsError(x)
    THEN /\ res' = [res EXCEPT ![r] = x]
         /\ pc' = [pc EXCEPT ![r] = "done"]
         /\ UNCHANGED pending
    ELSE Got(r, x)

\* Plausible bug: concurrent calls of the loader are not merged.
LoadUnmerged(r) ==
    /\ pc[r] = "load"
    /\ Loader!CreateAlways(r, KeyOf(r))
    /\ pc' = [pc EXCEPT ![r] = "await"]
    /\ UNCHANGED <<context, res, at, seen, writeVars, callback, historyVars>>

\* FetchByLoader: r calls the wrapped loader and waits for it,
Load(r) ==
    /\ pc[r] = "load"
    /\ cfg.singleflight
    /\ Loader!Join(r, KeyOf(r)) \/ Loader!Create(r, KeyOf(r))
    /\ pc' = [pc EXCEPT ![r] = "await"]
    /\ UNCHANGED <<context, res, at, seen, writeVars, callback, historyVars>>

Await(r) ==
    /\ pc[r] = "await"
    /\ Loader!Receive(r) \/ Loader!GiveUp(r)
    /\ LoadReturns(r, call'[r].res)
    /\ UNCHANGED <<context, at, seen, level, failed, reported, callback, historyVars>>

\* or it calls the user's loader itself.
LoadDirectly(r) ==
    /\ pc[r] = "load"
    /\ ~cfg.singleflight /\ cfg.loader
    /\ \E x \in SourceReturns(KeyOf(r)) :
         /\ x = CtxErr => cancelled[r]
         /\ LoadReturns(r, x)
    /\ UNCHANGED <<context, at, seen, level, failed, reported, callback, loaderVars,
                   historyVars>>

\* There is no loader to call: r panics.
LoadNil(r) ==
    /\ pc[r] = "load"
    /\ ~cfg.singleflight /\ ~cfg.loader
    /\ res' = [res EXCEPT ![r] = Answer("panic", 0)]
    /\ pc' = [pc EXCEPT ![r] = "done"]
    /\ UNCHANGED <<context, at, seen, writeVars, callback, loaderVars, historyVars>>

-----------------------------------------------------------------------------
(***************************************************************************)
(* Writes                                                                  *)
(***************************************************************************)

\* What r writes: the value it was given, or the value it has got.
Written(r) == IF req[r].op = "Set" THEN req[r].ver ELSE res[r].ver

\* One of the parallel writes of r.  A write that fails may have taken place.
\* The pool of a Set keeps the first error; that of a write-back joins them.
WriteLevel(r, l) ==
    /\ l \in pending[r]
    /\ pending' = [pending EXCEPT ![r] = @ \ {l}]
    /\ LET after == [level EXCEPT ![l][KeyOf(r)] = Written(r)]
       IN  \/ level' = after /\ UNCHANGED <<failed, reported, apart>>
           \/ /\ LevelErrors(r) # {}
              /\ apart' = [apart EXCEPT ![KeyOf(r)] = @ \/ req[r].op = "Set"]
              /\ level' \in {level, after}
              /\ failed' = [failed EXCEPT ![r] = @ \cup {l}]
              /\ reported' = [reported EXCEPT ![r] =
                                IF req[r].op = "Set" /\ @ # {}
                                THEN @ ELSE @ \cup {l}]
    /\ UNCHANGED <<context, pc, res, at, seen, callback, loaderVars, alone, floor,
                   floorAt>>

\* Set returns when every level has been written to.
SetReturns(r) ==
    /\ pc[r] = "write"
    /\ pending[r] = {}
    /\ pc' = [pc EXCEPT ![r] = "done"]
    /\ res' = [res EXCEPT ![r] = IF reported[r] = {} THEN Answer("ok", 0) ELSE Err]
    /\ apart' = [apart EXCEPT ![KeyOf(r)] =
                    @ /\ ~(alone[r] /\ reported[r] = {})]
    /\ UNCHANGED <<context, at, seen, writeVars, callback, loaderVars, alone,
                   floor, floorAt>>

\* Plausible bug: a failed write-back fails the Get in either mode.
GetReturnsStrictly(r) ==
    /\ pc[r] = "writeBack"
    /\ pending[r] = {}
    /\ pc' = [pc EXCEPT ![r] = "done"]
    /\ res' = [res EXCEPT ![r] = IF reported[r] = {} THEN @ ELSE Err]
    /\ UNCHANGED <<context, at, seen, writeVars, callback, loaderVars, historyVars>>

\* Plausible bug: the Get does not wait for the write-back.
GetReturnsEarly(r) ==
    /\ pc[r] = "writeBack"
    /\ pc' = [pc EXCEPT ![r] = "done"]
    /\ res' = [res EXCEPT ![r] = IF reported[r] # {} /\ cfg.mode # "tolerant" THEN Err ELSE @]
    /\ UNCHANGED <<context, at, seen, writeVars, callback, loaderVars, historyVars>>

\* Get returns when the write-back has ended: with the value, unless the
\* write-back failed and errors are not tolerated.
GetReturns(r) ==
    /\ pc[r] = "writeBack"
    /\ pending[r] = {}
    /\ pc' = [pc EXCEPT ![r] = "done"]
    /\ res' = [res EXCEPT ![r] = IF reported[r] # {} /\ cfg.mode # "tolerant" THEN Err ELSE @]
    /\ callback' = [callback EXCEPT ![r] =
                      IF reported[r] # {} /\ cfg.callback THEN "error" ELSE @]
    /\ UNCHANGED <<context, at, seen, writeVars, loaderVars, historyVars>>

\* The asynchronous write-back of r has ended.
AsyncEnds(r) ==
    /\ cfg.async /\ cfg.callback /\ req[r].op = "Get" /\ res[r].tag = "value"
    /\ pending[r] = {}
    /\ callback[r] = "none"
    /\ callback' = [callback EXCEPT ![r] =
                      IF reported[r] = {} THEN "no error" ELSE "error"]
    /\ UNCHANGED <<context, pc, res, at, seen, writeVars, loaderVars, historyVars>>

\* What the levels are after r has removed its key, or all, from level l.
Removed(r, l) ==
    IF req[r].op = "Delete" THEN [level EXCEPT ![l][KeyOf(r)] = None]
                            ELSE [level EXCEPT ![l] = [k \in Keys |-> None]]

\* Plausible bug: the errors of all levels but the last are lost.
RemovesLast(r, errors) ==
    /\ failed' = [failed EXCEPT ![r] = @ \cup errors]
    /\ reported' = [reported EXCEPT ![r] = errors]

\* The error of the level is collected.
Removes(r, errors) ==
    /\ failed' = [failed EXCEPT ![r] = @ \cup errors]
    /\ reported' = [reported EXCEPT ![r] = @ \cup errors]

\* Delete and Clear visit one level after the other, whatever fails, and
\* return the errors joined.
Remove(r) ==
    LET l == at[r]
    IN  /\ pc[r] = "remove"
        /\ \/ level' = Removed(r, l) /\ Removes(r, {})
           \/ /\ LevelErrors(r) # {}
              /\ level' \in {level, Removed(r, l)}
              /\ Removes(r, {l})
        /\ at' = [at EXCEPT ![r] = @ + 1]
        /\ IF l < Depth
           THEN UNCHANGED <<pc, res, floor, apart>>
           ELSE /\ pc' = [pc EXCEPT ![r] = "done"]
                /\ res' = [res EXCEPT ![r] =
                             IF reported'[r] = {} THEN Answer("ok", 0) ELSE Err]
                /\ floor' = [floor EXCEPT ![KeyOf(r)] =
                               IF alone[r] /\ reported'[r] = {}
                               THEN source[KeyOf(r)] ELSE @]
                /\ apart' = [apart EXCEPT ![KeyOf(r)] =
                               @ /\ ~(alone[r] /\ reported'[r] = {})]
        /\ UNCHANGED <<context, seen, pending, callback, loaderVars, alone,
                       floorAt>>

-----------------------------------------------------------------------------
(***************************************************************************)
(* The loader and the environment                                          *)
(***************************************************************************)

\* The user's loader reads the source; its flight delivers the answer.
LoaderStep(f) ==
    /\ Loader!InFlight(f)
    /\ cfg.loader
    /\ \/ \E x \in SourceReturns(flight[f].key) : Loader!Load(f, x)
       \/ Loader!Deliver(f)
    /\ UNCHANGED <<context, pc, res, at, seen, writeVars, callback, historyVars>>

\* A wrapped loader that is not there panics in the goroutine of its flight,
\* which nobody recovers: the process ends.
LoaderPanics(f) ==
    /\ Loader!InFlight(f)
    /\ ~cfg.loader
    /\ down' = TRUE
    /\ UNCHANGED <<cfg, req, cancelled, sourceVars, pc, res, at, seen, writeVars,
                   callback, loaderVars, historyVars>>

\* The context of r ends, possibly after r has returned.
Cancel(r) ==
    /\ ~cancelled[r]
    /\ cancelled' = [cancelled EXCEPT ![r] = TRUE]
    /\ UNCHANGED <<cfg, req, down, sourceVars, pc, res, at, seen, writeVars, callback,
                   loaderVars, historyVars>>

\* The source changes.
Update(k) ==
    /\ SourceUpdate(k)
    /\ UNCHANGED <<cfg, req, cancelled, down, pc, res, at, seen, writeVars, callback,
                   loaderVars, historyVars>>

\* The entry of k leaves level l.
Evict(l, k) ==
    /\ level[l][k] # None
    /\ level' = [level EXCEPT ![l][k] = None]
    /\ UNCHANGED <<context, pc, res, at, seen, pending, failed, reported,
                   callback, loaderVars, historyVars>>

-----------------------------------------------------------------------------

\* What the goroutines of r do without waiting for anyone but the loader.
Proceed(r) ==
    \/ Fetch(r) \/ Load(r) \/ Await(r) \/ LoadDirectly(r) \/ LoadNil(r)
    \/ \E l \in Levels : WriteLevel(r, l)
    \/ SetReturns(r) \/ GetReturns(r) \/ AsyncEnds(r) \/ Remove(r)

Finished ==
    /\ \/ down
       \/ \A r \in Requests : /\ pc[r] = "done" /\ pending[r] = {}
                              /\ ~Loader!InFlight(r)
    /\ UNCHANGED vars

Next ==
    \/ /\ ~down
       /\ \/ \E r \in Requests :
               \/ \E o \in Ops, k \in Keys : Begin(r, o, k)
               \/ Proceed(r)
               \/ Cancel(r)
          \/ \E f \in Requests : LoaderStep(f) \/ LoaderPanics(f)
          \/ \E k \in Keys : Update(k)
          \/ \E l \in Levels, k \in Keys : Evict(l, k)
    \/ Finished

Spec == Init /\ [][Next]_vars

\* Goroutines are scheduled fairly.
CallerFairness == \A r \in Requests : WF_vars(Proceed(r))

\* Loaders return.
LoaderFairness == \A f \in Requests : WF_vars(LoaderStep(f))

FairSpec == Spec /\ CallerFairness /\ LoaderFairness

-----------------------------------------------------------------------------
(***************************************************************************)
(* Correctness                                                             *)
(***************************************************************************)

Request == [op : Ops \cup {None}, key : Keys \cup {None}, ver : Versions]

\* Every variable keeps its type, and no level is visited that there is not.
TypeOK ==
    /\ cfg \in Configs
    /\ pc \in [Requests -> {"idle", "fetch", "load", "await", "writeBack",
                            "write", "remove", "done"}]
    /\ req \in [Requests -> Request]
    /\ res \in [Requests -> [tag : Tags, ver : Versions]]
    /\ level \in [Levels -> [Keys -> Versions \cup {None}]]
    /\ at \in [Requests -> 1 .. Depth + 1]
    /\ seen \in [Requests -> [Levels -> {"none", "notfound", "err", "ctx"}]]
    /\ pending \in [Requests -> SUBSET Levels]
    /\ failed \in [Requests -> SUBSET Levels]
    /\ reported \in [Requests -> SUBSET Levels]
    /\ callback \in [Requests -> {"none", "error", "no error"}]
    /\ Loader!TypeOK
    /\ SourceTypeOK
    /\ alone \in [Requests -> BOOLEAN]
    /\ floor \in [Keys -> Versions]
    /\ floorAt \in [Requests -> Versions]
    /\ apart \in [Keys -> BOOLEAN]
    /\ down \in BOOLEAN
    /\ \A r \in Requests :
         /\ pc[r] # "idle" => req[r].op \in Ops /\ KeyOf(r) \in Keys
         /\ pc[r] \in {"fetch", "remove"} => at[r] \in Levels

IsGet(r) == req[r].op = "Get"

\* Every answer and every entry of every level was once true of the source:
\* a value belongs to a version at which the key existed, and a not-found of
\* the loader to one at which it did not.
AnswersTrue ==
    /\ \A r \in Requests : IsGet(r) /\ pc[r] = "done" =>
         /\ res[r].tag = "value" => res[r].ver \notin absent[KeyOf(r)]
         /\ res[r].tag = "notfound" => res[r].ver \in absent[KeyOf(r)]
    /\ \A l \in Levels, k \in Keys :
         level[l][k] # None => level[l][k] \notin absent[k]

\* A Delete that returns no error while nothing overlaps it invalidates the
\* key at every level and for good: nothing older than the source was then is
\* held by a level or answered by a later Get, in spite of write-backs, also
\* asynchronous ones, that repopulate one level from another.
FreshAfterDelete ==
    /\ \A l \in Levels, k \in Keys :
         level[l][k] # None => level[l][k] >= floor[k]
    /\ \A r \in Requests : IsGet(r) /\ res[r].tag = "value" =>
         res[r].ver >= floorAt[r]

\* When all is quiet the levels that hold a key hold the same version of it,
\* unless requests for it have overlapped, a Set has failed at some level, or
\* a Get has passed a level over because it failed, since the last Set or
\* Delete without either.  Nothing else sets them apart: no write-back, failed
\* or in the background, no failed Delete and no eviction.
LevelsAgree ==
    \A k \in Keys : Quiet(k) /\ ~apart[k] =>
        \A l, m \in Levels :
            level[l][k] # None /\ level[m][k] # None => level[l][k] = level[m][k]

\* Only who has waived the loader, and none is built without one otherwise,
\* can be left without one to call, in the process or in a request.
LoaderWaived == down \/ (\E r \in Requests : res[r].tag = "panic") => cfg.waived

\* A synchronous write-back is over when the Get returns: a failure has been
\* passed to ErrCallback, and unless errors are tolerated a value is returned
\* only if every level that missed has taken it.
WriteBackBeforeReturn ==
    \A r \in Requests : IsGet(r) /\ pc[r] = "done" /\ ~cfg.async =>
        /\ pending[r] = {}
        /\ failed[r] # {} /\ cfg.callback => callback[r] = "error"
        /\ cfg.mode # "tolerant" /\ res[r].tag = "value" => failed[r] = {}

\* Where errors are tolerated, and always if it does not wait for its
\* write-back, a Get that has got a value returns it.
AnswerKept ==
    [][\A r \in Requests :
         res[r].tag = "value" /\ (cfg.async \/ cfg.mode = "tolerant")
           => res'[r] = res[r]]_vars

\* The loader is called as LoaderFlight says.
LoaderIsFlight == Loader!Spec

\* Every request returns if loaders do, and so does its write-back end, also
\* one that goes on in the background.
AllEnd ==
    \A r \in Requests : pc[r] # "idle" ~> pc[r] = "done" /\ pending[r] = {}

-----------------------------------------------------------------------------
(***************************************************************************)
(* What the repository says and the code does not do                       *)
(***************************************************************************)

\* "When errors occur they are collected, and all are returned in the end"
\* (the comment of multiCache.Set, multi_cache.go:83).
AllErrorsReturned ==
    \A r \in Requests : pc[r] = "done" => failed[r] \subseteq reported[r]
=============================================================================
