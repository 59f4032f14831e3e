-------------------------- MODULE MultiCache_proofs --------------------------
(***************************************************************************)
(* Theorems about MultiCache, for any number of levels, requests, keys and *)
(* versions and any set of builds.  The cache uses its loader as           *)
(* LoaderFlight says.  The rest of the invariant says what a request has   *)
(* done so far, that one that nothing overlaps has its key for itself,     *)
(* what the levels hold meanwhile, and that the data on its way is sound.  *)
(***************************************************************************)
EXTENDS MultiCache, TLAPS

LoaderFlight == INSTANCE LoaderFlight_proofs WITH Results <- LoaderResults
Multi == INSTANCE MultiBuilder

-----------------------------------------------------------------------------
(***************************************************************************)
(* The inductive invariant                                                 *)
(***************************************************************************)

\* A request is at work, possibly in the background.
AtWork(r) == pc[r] \notin {"idle", "done"} \/ pending[r] # {}

\* What a request has done when it is at its step.
Fresher(r) ==
    /\ res[r] = NoAnswer /\ callback[r] = "none"
    /\ failed[r] = {} /\ reported[r] = {}

InOrder(r) ==
    /\ pc[r] = "idle" => KeyOf(r) = None /\ at[r] = 1
    /\ pc[r] \in {"idle", "fetch", "load", "await"} =>
         Fresher(r) /\ pending[r] = {}
    /\ pc[r] \in {"fetch", "load", "await", "writeBack"} => IsGet(r)
    /\ pc[r] \in {"load", "await"} => at[r] = Depth + 1
    /\ pc[r] = "writeBack" => /\ ~cfg.async /\ res[r].tag = "value"
                              /\ callback[r] = "none"
    /\ pc[r] = "write" => req[r].op = "Set"
    /\ pc[r] = "remove" => req[r].op \in {"Delete", "Clear"} /\ pending[r] = {}
    /\ pc[r] \in {"write", "remove"} => res[r] = NoAnswer
    /\ pc[r] = "done" /\ pending[r] # {} =>
         IsGet(r) /\ cfg.async /\ res[r].tag = "value"
    /\ IsGet(r) => failed[r] = reported[r]

StepsInOrder == \A r \in Requests : InOrder(r)

\* A call of the loader is the one that its request waits for.
CallsLinked ==
    \A r \in Requests : /\ call[r].st = "waiting" <=> pc[r] = "await"
                        /\ pc[r] = "await" => call[r].key = KeyOf(r)

\* Who is alone has its key for itself; where nothing sets the levels apart,
\* whoever is at work is alone.
AloneIsAlone ==
    /\ \A r \in Requests : AtWork(r) /\ alone[r] =>
         /\ \A s \in Requests : s # r /\ KeyOf(s) = KeyOf(r) => ~AtWork(s)
         /\ pc[r] = "remove" =>
              \A f \in Requests : Loader!InFlight(f) => flight[f].key # KeyOf(r)
    /\ \A r \in Requests : AtWork(r) /\ ~apart[KeyOf(r)] => alone[r]

\* All that the levels hold of k is v.
Hold(k, v) == \A l \in Levels : level[l][k] \in {None, v}

\* The levels below n hold nothing of k.
Lack(k, n) == \A l \in Levels : l < n => level[l][k] = None

\* What a request that has its key for itself knows of the levels.
LevelsFor(r) ==
    /\ pc[r] = "write" /\ ~apart[KeyOf(r)] => reported[r] = {}
    /\ pc[r] = "write" /\ alone[r] /\ reported[r] = {} =>
         \A l \in Levels \ pending[r] : level[l][KeyOf(r)] \in {None, req[r].ver}
    /\ AtWork(r) /\ ~apart[KeyOf(r)] /\ res[r].tag = "value" =>
         Hold(KeyOf(r), res[r].ver)
    /\ pc[r] \in {"fetch", "load", "await"} /\ ~apart[KeyOf(r)] =>
         Lack(KeyOf(r), at[r])
    /\ pc[r] = "remove" /\ alone[r] /\ reported[r] = {} => Lack(KeyOf(r), at[r])

\* The levels that hold k hold the same of it.
Agree(k) ==
    \A l, m \in Levels : level[l][k] # None /\ level[m][k] # None =>
        level[l][k] = level[m][k]

NoneWrites(k) == \A r \in Requests : pc[r] = "write" => KeyOf(r) # k

LevelsOK ==
    /\ \A k \in Keys : ~apart[k] /\ NoneWrites(k) => Agree(k)
    /\ \A r \in Requests : LevelsFor(r)

\* At version v, k existed; what has been read then is not older than the last
\* time at which nothing was left of k.
Good(k, v) == v <= source[k] /\ v \notin absent[k] /\ v >= floor[k]

\* A value or a not-found was once true of k.
True(k, x) ==
    /\ x.tag = "value" => x.ver <= source[k] /\ x.ver \notin absent[k]
    /\ x.tag = "notfound" => x.ver <= source[k] /\ x.ver \in absent[k]

Fresh(k, x) == x.tag = "value" => x.ver >= floor[k]

FloorsBounded ==
    /\ \A k \in Keys : floor[k] <= source[k]
    /\ \A r \in Requests : pc[r] # "idle" => floorAt[r] <= floor[KeyOf(r)]

LevelsSound ==
    \A l \in Levels, k \in Keys : level[l][k] # None => Good(k, level[l][k])

\* What a flight has got, until it is over, and what a call will get.
FlightsSound ==
    /\ \A f \in Requests : flight[f].st = "loaded" =>
         True(flight[f].key, flight[f].res) /\ Fresh(flight[f].key, flight[f].res)
    /\ \A r \in Requests :
         call[r].st = "waiting" /\ flight[call[r].on].st = "done" =>
             /\ True(KeyOf(r), flight[call[r].on].res)
             /\ Fresh(KeyOf(r), flight[call[r].on].res)

\* Who is at work may still write what is fresh now; who has returned has what
\* was fresh when it began.
AnswersSound ==
    \A r \in Requests : pc[r] # "idle" =>
        /\ True(KeyOf(r), res[r])
        /\ AtWork(r) => Fresh(KeyOf(r), res[r])
        /\ res[r].tag = "value" => res[r].ver >= floorAt[r]

\* What a Set is about to write.
SetsSound ==
    \A r \in Requests : pc[r] = "write" => Good(KeyOf(r), req[r].ver)

DataSound ==
    /\ FloorsBounded
    /\ LevelsSound
    /\ FlightsSound
    /\ AnswersSound
    /\ SetsSound

WorkIInv ==
    /\ TypeOK
    /\ LoaderFlight!IInv
    /\ StepsInOrder
    /\ CallsLinked

LevelsIInv ==
    /\ WorkIInv
    /\ AloneIsAlone
    /\ LevelsOK

IInv ==
    /\ LevelsIInv
    /\ DataSound

-----------------------------------------------------------------------------
(***************************************************************************)
(* The loader                                                              *)
(***************************************************************************)

\* A loader may return a context error, and returns data or an error.
LEMMA LoaderResultTypes ==
    /\ CtxErr \in LoaderResults
    /\ \A x \in LoaderResults :
         /\ x.tag \in Tags /\ x.ver \in Versions
         /\ x.tag \in {"value", "notfound", "err", "ctx"}
         /\ ~IsError(x) => x.tag = "value"
<1>1. 0 \in Versions
  BY VersionAssumption DEF Versions
<1> QED BY <1>1 DEF LoaderResults, Answer, Err, CtxErr, IsError, Tags

\* The loader is an instance of what LoaderFlight_proofs is about.
LEMMA LoaderIsInstance ==
    /\ Loader!Init <=> LoaderFlight!Init
    /\ Loader!TypeOK <=> LoaderFlight!TypeOK
    /\ [Loader!Next]_(Loader!vars) <=> [LoaderFlight!Next]_(LoaderFlight!vars)
<1>1. Loader!Init <=> LoaderFlight!Init
  BY DEF Loader!Init, LoaderFlight!Init
<1>2. Loader!TypeOK <=> LoaderFlight!TypeOK
  BY DEF Loader!TypeOK, Loader!Flight, Loader!Call,
         LoaderFlight!TypeOK, LoaderFlight!Flight, LoaderFlight!Call
<1>3. Loader!Step <=> LoaderFlight!Step
  BY DEF Loader!Step, Loader!Join, Loader!Create, Loader!Load, Loader!Deliver,
         Loader!Receive, Loader!GiveUp, Loader!Calls, Loader!Returns,
         LoaderFlight!Step, LoaderFlight!Join, LoaderFlight!Create,
         LoaderFlight!Load, LoaderFlight!Deliver, LoaderFlight!Receive,
         LoaderFlight!GiveUp, LoaderFlight!Calls, LoaderFlight!Returns
<1>4. [Loader!Next]_(Loader!vars) <=> [LoaderFlight!Next]_(LoaderFlight!vars)
  BY <1>3
     DEF Loader!Next, Loader!Cancel, Loader!Finished, Loader!InFlight,
         Loader!flightVars, Loader!vars,
         LoaderFlight!Next, LoaderFlight!Cancel, LoaderFlight!Finished,
         LoaderFlight!InFlight, LoaderFlight!flightVars, LoaderFlight!vars
<1> QED BY <1>1, <1>2, <1>4

\* The source answers with what a loader can return.
LEMMA SourceReturnsResults ==
    ASSUME SourceTypeOK, NEW k \in Keys
    PROVE  SourceReturns(k) \subseteq LoaderResults
  BY DEF SourceTypeOK, SourceReturns, Current, LoaderResults

\* A flight in progress is for a key, and what the source says of it is a
\* loader's result.
LEMMA FlightKeys ==
    ASSUME WorkIInv, NEW f \in Requests, Loader!InFlight(f)
    PROVE  /\ flight[f].key \in Keys
           /\ SourceReturns(flight[f].key) \subseteq LoaderResults
<1>1. flight[f].key \in Keys
  BY DEF WorkIInv, LoaderFlight!IInv, LoaderFlight!Registered,
         LoaderFlight!InFlight, Loader!InFlight
<1> QED BY <1>1, SourceReturnsResults DEF WorkIInv, TypeOK

\* Every step of the cache is a step of the loader or leaves it alone.
LEMMA LoaderSteps == WorkIInv /\ [Next]_vars => [Loader!Next]_(Loader!vars)
<1> SUFFICES ASSUME WorkIInv, [Next]_vars PROVE [Loader!Next]_(Loader!vars)
  OBVIOUS
<1> USE DEF Loader!vars, loaderVars, context
<1>1. ASSUME NEW r \in Requests, NEW o, NEW k, Begin(r, o, k)
      PROVE  UNCHANGED Loader!vars
  BY <1>1 DEF Begin
<1>2. ASSUME NEW r \in Requests, Load(r) PROVE Loader!Next
  <2>1. KeyOf(r) \in Keys
    BY <1>2 DEF Load, WorkIInv, TypeOK
  <2> QED BY <1>2, <2>1 DEF Load, Loader!Next, Loader!Step
<1>3. ASSUME NEW r \in Requests, Await(r) PROVE Loader!Next
  BY <1>3 DEF Await, Loader!Next, Loader!Step
<1>4. ASSUME NEW r \in Requests,
             \/ Fetch(r) \/ LoadDirectly(r) \/ LoadNil(r) \/ SetReturns(r)
             \/ GetReturns(r) \/ AsyncEnds(r) \/ Remove(r)
             \/ \E l \in Levels : WriteLevel(r, l)
      PROVE  UNCHANGED Loader!vars
  BY <1>4 DEF Fetch, LoadDirectly, LoadNil, SetReturns, GetReturns, AsyncEnds,
              Remove, WriteLevel
<1>5. ASSUME NEW r \in Requests, Cancel(r) PROVE Loader!Next
  BY <1>5 DEF Cancel, Loader!Next, Loader!Cancel, Loader!flightVars
<1>6. ASSUME NEW f \in Requests, LoaderStep(f) PROVE Loader!Next
  BY <1>6, FlightKeys DEF LoaderStep, Loader!Next, Loader!Step
<1>7. ASSUME \/ \E f \in Requests : LoaderPanics(f)
             \/ \E k \in Keys : Update(k)
             \/ \E l \in Levels, k \in Keys : Evict(l, k)
             \/ UNCHANGED vars
      PROVE  UNCHANGED Loader!vars
  BY <1>7 DEF LoaderPanics, Update, Evict, vars
<1> QED
  BY <1>1, <1>2, <1>3, <1>4, <1>5, <1>6, <1>7 DEF Next, Proceed, Finished

\* The loader stays in states that LoaderFlight can reach.
LEMMA StepLoader ==
    WorkIInv /\ [Next]_vars => LoaderFlight!IInv' /\ Loader!TypeOK'
<1> SUFFICES ASSUME WorkIInv, [Next]_vars
             PROVE  LoaderFlight!IInv' /\ Loader!TypeOK'
  OBVIOUS
<1>1. LoaderFlight!IInv'
  BY LoaderSteps, LoaderIsInstance, LoaderFlight!StepIInv, NoneAssumption,
     LoaderResultTypes DEF WorkIInv
<1>2. LoaderFlight!TypeOK'
  BY <1>1 DEF LoaderFlight!IInv
<1> QED BY <1>1, <1>2
        DEF Loader!TypeOK, Loader!Flight, Loader!Call,
            LoaderFlight!TypeOK, LoaderFlight!Flight, LoaderFlight!Call

-----------------------------------------------------------------------------
(***************************************************************************)
(* Steps                                                                   *)
(***************************************************************************)

\* What a request has done, and the history.
work == <<cfg, pc, req, res, at, seen, pending, failed, reported, callback,
          historyVars>>

\* What surrounds the requests does not change what they have done.
LEMMA Surroundings ==
    ASSUME \/ \E r \in Requests : Cancel(r)
           \/ \E f \in Requests : LoaderStep(f) \/ LoaderPanics(f)
           \/ \E k \in Keys : Update(k)
           \/ \E l \in Levels, k \in Keys : Evict(l, k)
           \/ UNCHANGED vars
    PROVE  UNCHANGED work /\ UNCHANGED call
  BY DEF Cancel, LoaderStep, LoaderPanics, Update, Evict, vars, work, context,
         writeVars, loaderVars, Loader!Load, Loader!Deliver

\* A Get has got the value x.
Hits(r, x) ==
    /\ x.tag = "value" /\ Got(r, x)
    /\ UNCHANGED <<at, seen, level, failed, reported, callback, historyVars>>

\* A Get ends without one.
Fails(r, x) ==
    /\ x.tag \in {"notfound", "err", "ctx", "panic"}
    /\ res' = [res EXCEPT ![r] = x]
    /\ pc' = [pc EXCEPT ![r] = "done"]
    /\ UNCHANGED <<at, seen, level, pending, failed, reported, callback,
                   historyVars>>

\* A Get goes on to the next level, or to the loader.
Passes(r, e) ==
    /\ pc[r] = "fetch"
    /\ e.tag \in {"notfound", "err", "ctx"}
    /\ e.tag = "notfound" => level[at[r]][KeyOf(r)] = None
    /\ SeesError(r, e)
    /\ pc' = [pc EXCEPT ![r] = IF at[r] = Depth THEN "load" ELSE "fetch"]
    /\ apart' = [apart EXCEPT ![KeyOf(r)] = @ \/ e.tag # "notfound"]
    /\ UNCHANGED <<level, failed, reported, callback, alone, floor, floorAt>>

\* The value is that of a level or one of the loader's.
LEMMA FetchSteps ==
    ASSUME NEW r, Fetch(r)
    PROVE  /\ pc[r] = "fetch" /\ UNCHANGED <<context, loaderVars>>
           /\ \/ /\ level[at[r]][KeyOf(r)] # None
                 /\ Hits(r, Answer("value", level[at[r]][KeyOf(r)]))
              \/ \E e \in {Answer("notfound", 0), Err, CtxErr} : Passes(r, e)
<1> DEFINE v == level[at[r]][KeyOf(r)]
<1>1. /\ pc[r] = "fetch" /\ UNCHANGED <<context, loaderVars>>
      /\ UNCHANGED <<level, failed, reported, callback, alone, floor, floorAt>>
  BY DEF Fetch
<1>2. CASE v # None /\ Got(r, Answer("value", v)) /\ UNCHANGED <<seen, at, apart>>
  BY <1>1, <1>2 DEF Hits, Answer, historyVars
<1>3. ASSUME NEW e, e \in (IF v = None THEN {Answer("notfound", 0)} ELSE {})
                           \cup LevelErrors(r),
             SeesError(r, e),
             pc' = [pc EXCEPT ![r] = IF at[r] = Depth THEN "load" ELSE "fetch"],
             apart' = [apart EXCEPT ![KeyOf(r)] = @ \/ e.tag # "notfound"]
      PROVE  e \in {Answer("notfound", 0), Err, CtxErr} /\ Passes(r, e)
  <2>1. /\ e \in {Answer("notfound", 0), Err, CtxErr}
        /\ e = Answer("notfound", 0) => v = None
    BY <1>3 DEF LevelErrors, Err, CtxErr, Answer
  <2> QED BY <1>1, <1>3, <2>1 DEF Passes, Err, CtxErr, Answer
<1> QED BY <1>1, <1>2, <1>3 DEF Fetch

LEMMA LoadReturnsSteps ==
    ASSUME NEW r, NEW x \in LoaderResults, LoadReturns(r, x),
           UNCHANGED <<at, seen, level, failed, reported, callback, historyVars>>
    PROVE  Hits(r, x) \/ Fails(r, x)
  BY LoaderResultTypes DEF LoadReturns, Hits, Fails, IsError

LEMMA AwaitSteps ==
    ASSUME WorkIInv, [Next]_vars, NEW r \in Requests, Await(r)
    PROVE  /\ pc[r] = "await" /\ UNCHANGED context
           /\ call'[r].res \in LoaderResults
           /\ Hits(r, call'[r].res) \/ Fails(r, call'[r].res)
<1>1. call'[r].st = "returned"
  <2>1. PICK y : call' = [call EXCEPT ![r].st = "returned", ![r].res = y]
    BY DEF Await, Loader!Receive, Loader!GiveUp, Loader!Returns
  <2> QED BY <2>1 DEF WorkIInv, TypeOK, Loader!TypeOK, Loader!Call
<1>2. call'[r].res \in LoaderResults
  BY <1>1, StepLoader DEF Loader!TypeOK
<1> QED BY <1>2, LoadReturnsSteps DEF Await

LEMMA DirectSteps ==
    ASSUME WorkIInv, NEW r \in Requests, LoadDirectly(r) \/ LoadNil(r)
    PROVE  /\ pc[r] = "load" /\ UNCHANGED <<context, loaderVars>>
           /\ \/ \E x \in SourceReturns(KeyOf(r)) :
                   x \in LoaderResults /\ (Hits(r, x) \/ Fails(r, x))
              \/ ~cfg.loader /\ Fails(r, Answer("panic", 0))
<1>1. CASE LoadDirectly(r)
  <2>1. PICK x \in SourceReturns(KeyOf(r)) : LoadReturns(r, x)
    BY <1>1 DEF LoadDirectly
  <2>2. KeyOf(r) \in Keys
    BY <1>1 DEF LoadDirectly, WorkIInv, TypeOK
  <2>3. x \in LoaderResults
    BY <2>1, <2>2, SourceReturnsResults DEF WorkIInv, TypeOK
  <2> QED BY <1>1, <2>1, <2>3, LoadReturnsSteps DEF LoadDirectly
<1>2. CASE LoadNil(r)
  BY <1>2 DEF LoadNil, Fails, Answer, writeVars
<1> QED BY <1>1, <1>2

\* What the levels hold changes only by these.
LEMMA LevelsKept ==
    ASSUME WorkIInv, [Next]_vars
    PROVE  \/ \E r \in Requests : Remove(r) \/ \E l \in Levels : WriteLevel(r, l)
           \/ \E l \in Levels, k \in Keys : Evict(l, k)
           \/ UNCHANGED level
<1>1. ASSUME NEW r \in Requests, Fetch(r) \/ Await(r) \/ LoadDirectly(r) \/ LoadNil(r)
      PROVE  UNCHANGED level
  BY <1>1 DEF Fetch, Await, LoadDirectly, LoadNil, writeVars
<1>2. ASSUME NEW r \in Requests,
             Load(r) \/ SetReturns(r) \/ GetReturns(r) \/ AsyncEnds(r) \/ Cancel(r)
      PROVE  UNCHANGED level
  BY <1>2 DEF Load, SetReturns, GetReturns, AsyncEnds, Cancel, writeVars
<1>3. ASSUME \/ \E r \in Requests : \E o \in Ops, k \in Keys : Begin(r, o, k)
             \/ \E f \in Requests : LoaderStep(f) \/ LoaderPanics(f)
             \/ \E k \in Keys : Update(k)
             \/ UNCHANGED vars
      PROVE  UNCHANGED level
  BY <1>3 DEF Begin, LoaderStep, LoaderPanics, Update, vars, writeVars
<1> QED BY <1>1, <1>2, <1>3 DEF Next, Proceed, Finished

-----------------------------------------------------------------------------
(***************************************************************************)
(* Types and the order of steps                                            *)
(***************************************************************************)

Steps == {"idle", "fetch", "load", "await", "writeBack", "write", "remove", "done"}
Outcome == [tag : Tags, ver : Versions]

\* A request that has begun is for a key, and visits a level that there is.
KeysAndLevels ==
    \A r \in Requests :
        /\ pc[r] # "idle" => req[r].op \in Ops /\ KeyOf(r) \in Keys
        /\ pc[r] \in {"fetch", "remove"} => at[r] \in Levels

\* The types of what a request has done, and of the history.
DoneTypes ==
    /\ res \in [Requests -> Outcome]
    /\ seen \in [Requests -> [Levels -> {"none", "notfound", "err", "ctx"}]]
    /\ pending \in [Requests -> SUBSET Levels]
    /\ failed \in [Requests -> SUBSET Levels]
    /\ reported \in [Requests -> SUBSET Levels]
    /\ callback \in [Requests -> {"none", "error", "no error"}]
    /\ alone \in [Requests -> BOOLEAN] /\ floor \in [Keys -> Versions]
    /\ floorAt \in [Requests -> Versions] /\ apart \in [Keys -> BOOLEAN]

WorkTypes ==
    /\ cfg \in Configs /\ req \in [Requests -> Request]
    /\ pc \in [Requests -> Steps] /\ at \in [Requests -> 1 .. Depth + 1]
    /\ DoneTypes

LevelTypes == level \in [Levels -> [Keys -> Versions \cup {None}]]

LEMMA TypeParts ==
    TypeOK <=> /\ WorkTypes /\ LevelTypes /\ KeysAndLevels
               /\ Loader!TypeOK /\ SourceTypeOK /\ down \in BOOLEAN
  BY DEF TypeOK, WorkTypes, DoneTypes, LevelTypes, KeysAndLevels, Steps, Outcome

\* What a request gets and writes has a version.
LEMMA AnswerTypes ==
    /\ 0 \in Versions
    /\ \A t \in Tags, v \in Versions : Answer(t, v) \in Outcome
    /\ LoaderResults \subseteq Outcome
    /\ Err \in Outcome /\ NoAnswer \in Outcome
<1>1. 0 \in Versions
  BY VersionAssumption DEF Versions
<1>2. \A t \in Tags, v \in Versions : Answer(t, v) \in Outcome
  BY DEF Answer, Outcome
<1>3. Err \in Outcome /\ CtxErr \in Outcome /\ NoAnswer \in Outcome
  BY <1>1, <1>2 DEF Err, CtxErr, NoAnswer, Tags
<1>4. LoaderResults \subseteq Outcome
  BY <1>2, <1>3 DEF LoaderResults, Tags
<1> QED BY <1>1, <1>2, <1>3, <1>4

LEMMA WrittenTypes ==
    ASSUME WorkTypes, NEW r \in Requests
    PROVE  Written(r) \in Versions
  BY DEF WorkTypes, DoneTypes, Written, Request, Outcome

\* The types of what one request does.
LEMMA StepWork == WorkIInv /\ [Next]_vars => WorkTypes' /\ KeysAndLevels'
<1> SUFFICES ASSUME WorkIInv, [Next]_vars PROVE WorkTypes' /\ KeysAndLevels'
  OBVIOUS
<1>a. WorkTypes /\ KeysAndLevels /\ LevelTypes /\ SourceTypeOK /\ DoneTypes
  BY TypeParts DEF WorkIInv, WorkTypes
<1> USE DepthAssumption
<1>1. ASSUME NEW r \in Requests, NEW o \in Ops, NEW k \in Keys, Begin(r, o, k)
      PROVE  WorkTypes' /\ KeysAndLevels'
  <2>1. /\ o \in {"Get", "Set", "Delete", "Clear"}
        /\ source[k] \in Versions /\ 0 \in Versions
    BY <1>a, AnswerTypes, OpAssumption DEF SourceTypeOK, Writes
  <2>2. req' \in [Requests -> Request]
    BY <1>1, <1>a, <2>1 DEF Begin, WorkTypes, Request
  <2>3. pc' \in [Requests -> Steps]
    BY <1>1, <1>a, <2>1 DEF Begin, WorkTypes, Steps
  <2>4. /\ pending' \in [Requests -> SUBSET Levels]
        /\ floorAt' \in [Requests -> Versions] /\ apart' \in [Keys -> BOOLEAN]
    BY <1>1, <1>a DEF Begin, DoneTypes, Quiet
  <2>5. alone' \in [Requests -> BOOLEAN]
    BY <1>1, <1>a DEF Begin, DoneTypes, Quiet
  <2>6. KeysAndLevels'
    <3>1. ASSUME NEW s \in Requests, s # r
          PROVE  pc'[s] = pc[s] /\ req'[s] = req[s] /\ at'[s] = at[s]
      BY <1>1, <1>a, <3>1 DEF Begin, WorkTypes
    <3>2. req'[r].op = o /\ req'[r].key = k
      BY <1>1, <1>a DEF Begin, WorkTypes
    <3>3. at'[r] = 1 /\ 1 \in Levels
      BY <1>1 DEF Begin, WorkIInv, StepsInOrder, InOrder, Levels
    <3> QED BY <1>a, <3>1, <3>2, <3>3 DEF KeysAndLevels, KeyOf
  <2> QED BY <1>1, <1>a, <2>2, <2>3, <2>4, <2>5, <2>6 DEF Begin, WorkTypes, DoneTypes
\* A step of r that leaves the requests what they are.
<1>2. ASSUME NEW r \in Requests, NEW p \in Steps, NEW n \in 1 .. Depth + 1,
             UNCHANGED <<cfg, req>>, pc' = [pc EXCEPT ![r] = p],
             at' = [at EXCEPT ![r] = n],
             p # "idle" => pc[r] # "idle",
             p \in {"fetch", "remove"} => n \in Levels,
             DoneTypes'
      PROVE  WorkTypes' /\ KeysAndLevels'
  <2>1. pc' \in [Requests -> Steps] /\ at' \in [Requests -> 1 .. Depth + 1]
    BY <1>2, <1>a DEF WorkTypes
  <2>2. WorkTypes'
    BY <1>2, <1>a, <2>1 DEF WorkTypes
  <2>3. \A s \in Requests : /\ pc'[s] = IF s = r THEN p ELSE pc[s]
                           /\ at'[s] = IF s = r THEN n ELSE at[s]
    BY <1>2, <1>a DEF WorkTypes
  <2>4. KeysAndLevels'
    BY <1>2, <1>a, <2>3 DEF KeysAndLevels, KeyOf
  <2> QED BY <2>2, <2>4
<1>3. ASSUME NEW r \in Requests, NEW x \in Outcome, Hits(r, x) \/ Fails(r, x),
             pc[r] \in {"fetch", "load", "await"}, UNCHANGED context
      PROVE  WorkTypes' /\ KeysAndLevels'
  <2>1. PICK p \in {"done", "writeBack"} : pc' = [pc EXCEPT ![r] = p]
    BY <1>3 DEF Hits, Fails, Got
  <2>2. MissedCacheFilter(r) \in SUBSET Levels
    BY DEF MissedCacheFilter
  <2>3. /\ res' = [res EXCEPT ![r] = x]
        /\ pending' = pending \/ pending' = [pending EXCEPT ![r] = MissedCacheFilter(r)]
        /\ UNCHANGED <<at, seen, failed, reported, callback, historyVars>>
        /\ UNCHANGED <<cfg, req>>
    BY <1>3 DEF Hits, Fails, Got, context
  <2>4. DoneTypes'
    BY <1>a, <2>2, <2>3 DEF historyVars, DoneTypes
  <2>5. /\ p \in Steps /\ p \notin {"fetch", "remove"} /\ pc[r] # "idle"
        /\ at' = [at EXCEPT ![r] = at[r]] /\ at[r] \in 1 .. Depth + 1
        /\ UNCHANGED <<cfg, req>>
    BY <1>3, <1>a, <2>1, <2>3 DEF Steps, WorkTypes
  <2> QED BY <1>2, <1>3, <2>1, <2>4, <2>5
<1>4. ASSUME NEW r \in Requests, NEW e, Passes(r, e), UNCHANGED context
      PROVE  WorkTypes' /\ KeysAndLevels'
  <2>1. at[r] \in 1 .. Depth
    BY <1>4, <1>a DEF Passes, KeysAndLevels, Levels
  <2>2. /\ pc' = [pc EXCEPT ![r] = IF at[r] = Depth THEN "load" ELSE "fetch"]
        /\ at' = [at EXCEPT ![r] = at[r] + 1]
        /\ UNCHANGED <<cfg, req, res, pending, failed, reported, callback, alone,
                       floor, floorAt>>
        /\ pc[r] = "fetch" /\ e.tag \in {"notfound", "err", "ctx"}
    BY <1>4 DEF Passes, SeesError, context
  <2>3. seen' \in [Requests -> [Levels -> {"none", "notfound", "err", "ctx"}]]
    BY <1>4, <1>a, <2>1, <2>2 DEF Passes, SeesError, DoneTypes, Levels
  <2>4. apart' \in [Keys -> BOOLEAN]
    BY <1>4, <1>a DEF Passes, DoneTypes
  <2>5. /\ at[r] + 1 \in 1 .. Depth + 1
        /\ at[r] # Depth => at[r] + 1 \in Levels
        /\ "load" \in Steps /\ "fetch" \in Steps
    BY <2>1 DEF Levels, Steps
  <2>6. DoneTypes'
    BY <1>a, <2>2, <2>3, <2>4 DEF DoneTypes
  <2> QED BY <1>2, <2>2, <2>5, <2>6
<1>5. ASSUME NEW r \in Requests, Load(r) PROVE WorkTypes' /\ KeysAndLevels'
  <2>1. "await" \in Steps
    BY DEF Steps
  <2>2. /\ pc[r] = "load" /\ pc' = [pc EXCEPT ![r] = "await"]
        /\ UNCHANGED <<cfg, req, at>>
    BY <1>5 DEF Load, context
  <2>3. DoneTypes'
    BY <1>5, <1>a DEF Load, writeVars, historyVars, DoneTypes
  <2>4. at' = [at EXCEPT ![r] = at[r]] /\ at[r] \in 1 .. Depth + 1
    BY <1>5, <1>a, <2>2 DEF WorkTypes
  <2> QED BY <1>2, <1>5, <2>1, <2>2, <2>3, <2>4
<1>6. ASSUME NEW r \in Requests, NEW l \in Levels, WriteLevel(r, l)
      PROVE  WorkTypes' /\ KeysAndLevels'
  <2>1. /\ UNCHANGED <<cfg, req, pc, at, res, seen, callback, alone, floor, floorAt>>
        /\ pending' = [pending EXCEPT ![r] = @ \ {l}]
    BY <1>6 DEF WriteLevel, context
  <2>2. /\ failed' = failed \/ failed' = [failed EXCEPT ![r] = @ \cup {l}]
        /\ \/ reported' = reported
           \/ reported' = [reported EXCEPT ![r] = IF req[r].op = "Set" /\ @ # {}
                                                 THEN @ ELSE @ \cup {l}]
        /\ \/ apart' = apart
           \/ apart' = [apart EXCEPT ![KeyOf(r)] = @ \/ req[r].op = "Set"]
    BY <1>6 DEF WriteLevel
  <2>3. pending' \in [Requests -> SUBSET Levels]
    BY <1>a, <2>1 DEF DoneTypes
  <2>4. /\ failed' \in [Requests -> SUBSET Levels]
        /\ reported' \in [Requests -> SUBSET Levels]
    <3>1. [failed EXCEPT ![r] = @ \cup {l}] \in [Requests -> SUBSET Levels]
      BY <1>a DEF DoneTypes
    <3>2. [reported EXCEPT ![r] = @ \cup {l}] \in [Requests -> SUBSET Levels]
      BY <1>a DEF DoneTypes
    <3>3. \/ reported' = reported
          \/ reported' = [reported EXCEPT ![r] = @ \cup {l}]
      BY <1>a, <2>2 DEF DoneTypes
    <3> QED BY <1>a, <2>2, <3>1, <3>2, <3>3 DEF DoneTypes
  <2>5. apart' \in [Keys -> BOOLEAN]
    BY <1>a, <2>2 DEF DoneTypes
  <2>6. WorkTypes'
    BY <1>a, <2>1, <2>3, <2>4, <2>5 DEF WorkTypes, DoneTypes
  <2> QED BY <1>a, <2>1, <2>6 DEF KeysAndLevels, KeyOf
<1>7. ASSUME NEW r \in Requests, SetReturns(r) \/ GetReturns(r)
      PROVE  WorkTypes' /\ KeysAndLevels'
  <2>1. /\ pc' = [pc EXCEPT ![r] = "done"] /\ pc[r] # "idle" /\ "done" \in Steps
        /\ UNCHANGED <<cfg, req, at, seen, pending, failed, reported, alone, floor,
                       floorAt>>
    BY <1>7 DEF SetReturns, GetReturns, context, writeVars, historyVars, Steps
  <2>2. Answer("ok", 0) \in Outcome /\ Err \in Outcome
    BY AnswerTypes DEF Tags
  <2>3. res' \in [Requests -> Outcome]
    BY <1>7, <1>a, <2>2 DEF SetReturns, GetReturns, DoneTypes
  <2>4. /\ callback' \in [Requests -> {"none", "error", "no error"}]
        /\ apart' \in [Keys -> BOOLEAN]
    BY <1>7, <1>a DEF SetReturns, GetReturns, historyVars, DoneTypes
  <2>5. DoneTypes'
    BY <1>a, <2>1, <2>3, <2>4 DEF DoneTypes
  <2>6. at' = [at EXCEPT ![r] = at[r]] /\ at[r] \in 1 .. Depth + 1
    BY <1>7, <1>a, <2>1 DEF WorkTypes
  <2> QED BY <1>2, <1>7, <2>1, <2>5, <2>6
<1>8. ASSUME NEW r \in Requests, AsyncEnds(r) PROVE WorkTypes' /\ KeysAndLevels'
  <2>1. callback' \in [Requests -> {"none", "error", "no error"}]
    BY <1>8, <1>a DEF AsyncEnds, DoneTypes
  <2>2. UNCHANGED <<cfg, pc, req, res, at, seen, pending, failed, reported,
                    historyVars>>
    BY <1>8 DEF AsyncEnds, context, writeVars
  <2> QED BY <1>a, <2>1, <2>2
          DEF WorkTypes, DoneTypes, KeysAndLevels, KeyOf, historyVars
<1>9. ASSUME NEW r \in Requests, Remove(r) PROVE WorkTypes' /\ KeysAndLevels'
  <2>1. at[r] \in 1 .. Depth /\ pc[r] = "remove" /\ KeyOf(r) \in Keys
    BY <1>9, <1>a DEF Remove, KeysAndLevels, Levels
  <2>2. /\ at' = [at EXCEPT ![r] = at[r] + 1]
        /\ UNCHANGED <<cfg, req, seen, pending, callback, alone, floorAt>>
    BY <1>9 DEF Remove, context
  <2>3. PICK errors \in {{}, {at[r]}} : Removes(r, errors)
    BY <1>9 DEF Remove
  <2>4. errors \in SUBSET Levels
    BY <2>1 DEF Levels
  <2>5. /\ failed' \in [Requests -> SUBSET Levels]
        /\ reported' \in [Requests -> SUBSET Levels]
    BY <1>a, <2>3, <2>4 DEF Removes, DoneTypes
  <2>6. apart' \in [Keys -> BOOLEAN]
    BY <1>9, <1>a DEF Remove, DoneTypes
  <2>7. floor' \in [Keys -> Versions]
    <3>1. \/ floor' = floor
          \/ floor' = [floor EXCEPT ![KeyOf(r)] =
                         IF alone[r] /\ reported'[r] = {} THEN source[KeyOf(r)] ELSE @]
      BY <1>9 DEF Remove
    <3>2. source[KeyOf(r)] \in Versions
      BY <1>a, <2>1 DEF SourceTypeOK
    <3> QED BY <1>a, <3>1, <3>2 DEF DoneTypes
  <2>8. Answer("ok", 0) \in Outcome /\ Err \in Outcome
    BY AnswerTypes DEF Tags
  <2>9. res' \in [Requests -> Outcome]
    BY <1>9, <1>a, <2>8 DEF Remove, DoneTypes
  <2>10. DoneTypes'
    BY <1>a, <2>2, <2>5, <2>6, <2>7, <2>9 DEF DoneTypes
  <2>11. /\ at[r] + 1 \in 1 .. Depth + 1
         /\ at[r] < Depth => at[r] + 1 \in Levels
         /\ "done" \in Steps /\ "remove" \in Steps
    BY <2>1 DEF Levels, Steps
  <2>12. CASE at[r] < Depth
    <3>1. pc' = [pc EXCEPT ![r] = "remove"]
      BY <1>9, <1>a, <2>1, <2>12 DEF Remove, WorkTypes
    <3> QED BY <1>2, <2>1, <2>2, <2>10, <2>11, <2>12, <3>1
  <2>13. CASE ~(at[r] < Depth)
    <3>1. pc' = [pc EXCEPT ![r] = "done"]
      BY <1>9, <2>13 DEF Remove
    <3> QED BY <1>2, <2>1, <2>2, <2>10, <2>11, <3>1
  <2> QED BY <2>12, <2>13
<1>10. ASSUME UNCHANGED work PROVE WorkTypes' /\ KeysAndLevels'
  BY <1>10, <1>a DEF work, historyVars, WorkTypes, DoneTypes, KeysAndLevels, KeyOf
<1>11. ASSUME NEW r \in Requests, Fetch(r) \/ Await(r) \/ LoadDirectly(r) \/ LoadNil(r)
       PROVE  WorkTypes' /\ KeysAndLevels'
  <2>1. CASE Fetch(r)
    <3>1. KeyOf(r) \in Keys /\ at[r] \in Levels
      BY <2>1, <1>a DEF Fetch, KeysAndLevels
    <3>2. level[at[r]][KeyOf(r)] # None =>
            Answer("value", level[at[r]][KeyOf(r)]) \in Outcome
      BY <1>a, <3>1, AnswerTypes DEF LevelTypes, Tags
    <3> QED BY <1>3, <1>4, <2>1, <3>2, FetchSteps
  <2>2. CASE Await(r)
    BY <1>3, <2>2, AwaitSteps, AnswerTypes
  <2>3. CASE LoadDirectly(r) \/ LoadNil(r)
    <3>1. Answer("panic", 0) \in Outcome
      BY AnswerTypes DEF Tags
    <3> QED BY <1>3, <2>3, <3>1, DirectSteps, AnswerTypes
  <2> QED BY <1>11, <2>1, <2>2, <2>3
<1> QED
  BY <1>1, <1>5, <1>6, <1>7, <1>8, <1>9, <1>10, <1>11, Surroundings
     DEF Next, Proceed, Finished

\* The levels hold versions of the source.
LEMMA StepLevels == WorkIInv /\ [Next]_vars => LevelTypes'
<1> SUFFICES ASSUME WorkIInv, [Next]_vars PROVE LevelTypes'
  OBVIOUS
<1>a. WorkTypes /\ KeysAndLevels /\ LevelTypes
  BY TypeParts DEF WorkIInv
<1>1. ASSUME NEW r \in Requests, NEW l \in Levels, WriteLevel(r, l)
      PROVE  LevelTypes'
  <2>1. Written(r) \in Versions
    BY <1>a, WrittenTypes
  <2>2. level' \in {level, [level EXCEPT ![l][KeyOf(r)] = Written(r)]}
    BY <1>1 DEF WriteLevel
  <2> QED BY <1>a, <2>1, <2>2 DEF LevelTypes
<1>2. ASSUME NEW r \in Requests, Remove(r) PROVE LevelTypes'
  <2>1. level' \in {level, Removed(r, at[r])}
    BY <1>2 DEF Remove
  <2> QED BY <1>a, <2>1 DEF LevelTypes, Removed
<1>3. ASSUME NEW l \in Levels, NEW k \in Keys, Evict(l, k) PROVE LevelTypes'
  BY <1>3, <1>a DEF Evict, LevelTypes
<1>4. ASSUME UNCHANGED level PROVE LevelTypes'
  BY <1>4, <1>a DEF LevelTypes
<1> QED BY <1>1, <1>2, <1>3, <1>4, LevelsKept

\* What the source says changes only by Update.
LEMMA SourceKept ==
    ASSUME WorkIInv, [Next]_vars
    PROVE  (\E k \in Keys : Update(k)) \/ UNCHANGED sourceVars
<1>1. ASSUME NEW r \in Requests,
             \/ \E o \in Ops, k \in Keys : Begin(r, o, k)
             \/ Fetch(r) \/ Load(r) \/ Await(r) \/ LoadDirectly(r) \/ LoadNil(r)
             \/ SetReturns(r) \/ GetReturns(r) \/ AsyncEnds(r) \/ Remove(r)
             \/ \E l \in Levels : WriteLevel(r, l)
      PROVE  UNCHANGED sourceVars
  BY <1>1 DEF Begin, Fetch, Load, Await, LoadDirectly, LoadNil, SetReturns,
              GetReturns, AsyncEnds, Remove, WriteLevel, context
<1>2. ASSUME \/ \E r \in Requests : Cancel(r)
             \/ \E f \in Requests : LoaderStep(f) \/ LoaderPanics(f)
             \/ \E l \in Levels, k \in Keys : Evict(l, k)
             \/ UNCHANGED vars
      PROVE  UNCHANGED sourceVars
  BY <1>2 DEF Cancel, LoaderStep, LoaderPanics, Evict, vars, context
<1> QED BY <1>1, <1>2 DEF Next, Proceed, Finished

\* Only the goroutine of a flight without a loader brings the process down.
LEMMA StepDown ==
    ASSUME WorkIInv, [Next]_vars
    PROVE  down' = down \/ (down' = TRUE /\ ~cfg.loader)
<1>1. ASSUME NEW r \in Requests,
             \/ \E o \in Ops, k \in Keys : Begin(r, o, k)
             \/ Fetch(r) \/ Load(r) \/ Await(r) \/ LoadDirectly(r) \/ LoadNil(r)
             \/ SetReturns(r) \/ GetReturns(r) \/ AsyncEnds(r) \/ Remove(r)
             \/ \E l \in Levels : WriteLevel(r, l)
      PROVE  UNCHANGED down
  BY <1>1 DEF Begin, Fetch, Load, Await, LoadDirectly, LoadNil, SetReturns,
              GetReturns, AsyncEnds, Remove, WriteLevel, context
<1>2. ASSUME \/ \E r \in Requests : Cancel(r)
             \/ \E f \in Requests : LoaderStep(f)
             \/ \E k \in Keys : Update(k)
             \/ \E l \in Levels, k \in Keys : Evict(l, k)
             \/ UNCHANGED vars
      PROVE  UNCHANGED down
  BY <1>2 DEF Cancel, LoaderStep, Update, Evict, vars, context
<1>3. ASSUME NEW f \in Requests, LoaderPanics(f) PROVE down' = TRUE /\ ~cfg.loader
  BY <1>3 DEF LoaderPanics
<1> QED BY <1>1, <1>2, <1>3 DEF Next, Proceed, Finished

LEMMA StepTypes == WorkIInv /\ [Next]_vars => TypeOK'
<1> SUFFICES ASSUME WorkIInv, [Next]_vars PROVE TypeOK'
  OBVIOUS
<1>1. WorkTypes' /\ KeysAndLevels' /\ LevelTypes' /\ Loader!TypeOK'
  BY StepWork, StepLevels, StepLoader
<1>2. SourceTypeOK'
  <2>1. SourceTypeOK
    BY DEF WorkIInv, TypeOK
  <2>2. ASSUME NEW k \in Keys, Update(k) PROVE SourceTypeOK'
    BY <2>1, <2>2, VersionAssumption
       DEF Update, SourceUpdate, SourceTypeOK, Versions
  <2>3. ASSUME UNCHANGED sourceVars PROVE SourceTypeOK'
    BY <2>1, <2>3 DEF sourceVars, SourceTypeOK
  <2> QED BY <2>2, <2>3, SourceKept
<1>3. down' \in BOOLEAN
  <2>1. down \in BOOLEAN
    BY DEF WorkIInv, TypeOK
  <2>2. down' = down \/ down' = TRUE
    BY StepDown
  <2> QED BY <2>1, <2>2
<1> QED BY <1>1, <1>2, <1>3
        DEF TypeOK, WorkTypes, DoneTypes, LevelTypes, KeysAndLevels, Steps, Outcome

-----------------------------------------------------------------------------
(***************************************************************************)
(* What a step does to the requests                                        *)
(***************************************************************************)

\* Levels have lost entries at most.
Shrinks == \A l \in Levels, k \in Keys : level'[l][k] \in {None, level[l][k]}

\* Nothing has happened to request s.
Untouched(s) ==
    UNCHANGED <<pc[s], req[s], res[s], at[s], seen[s], pending[s], failed[s],
                reported[s], callback[s], floorAt[s], call[s]>>

Began(r, o, k) ==
    /\ Begin(r, o, k)
    /\ pc[r] = "idle"
    /\ req'[r] = [op |-> o, key |-> k, ver |-> IF o = "Set" THEN source[k] ELSE 0]
    /\ pc'[r] = IF o = "Get" THEN "fetch" ELSE IF o = "Set" THEN "write" ELSE "remove"
    /\ pending'[r] = IF o = "Set" THEN Levels ELSE {}
    /\ floorAt'[r] = floor[k]
    /\ UNCHANGED <<res[r], at[r], seen[r], failed[r], reported[r], callback[r],
                   call[r]>>

\* The Get r has its answer, from a level or from the loader.
Answered(r, x) ==
    /\ pc[r] \in {"fetch", "load", "await"}
    /\ res'[r] = x
    /\ pc[r] = "fetch" => /\ level[at[r]][KeyOf(r)] # None
                          /\ x = Answer("value", level[at[r]][KeyOf(r)])
    /\ pc[r] = "load" => x \in SourceReturns(KeyOf(r)) \cup {Answer("panic", 0)}
    /\ pc[r] = "await" => \/ x = CtxErr
                          \/ /\ flight[call[r].on].st = "done"
                             /\ x = flight[call[r].on].res
    /\ UNCHANGED <<req, level, historyVars>>
    /\ \/ /\ x.tag = "value"
          /\ pc'[r] = IF cfg.async THEN "done" ELSE "writeBack"
          /\ pending'[r] = MissedCacheFilter(r)
       \/ /\ x.tag \in {"notfound", "err", "ctx", "panic"}
          /\ pc'[r] = "done"
          /\ UNCHANGED pending[r]
          /\ x.tag = "panic" => ~cfg.loader
    /\ pc[r] = "await" => call'[r].st # "waiting"
    /\ pc[r] # "await" => UNCHANGED call[r]
    /\ UNCHANGED <<req[r], at[r], seen[r], failed[r], reported[r], callback[r],
                   floorAt[r]>>

PassedOver(r) ==
    /\ \E e : Passes(r, e)
    /\ UNCHANGED req
    /\ pc[r] = "fetch"
    /\ at'[r] = at[r] + 1
    /\ pc'[r] = IF at[r] = Depth THEN "load" ELSE "fetch"
    /\ UNCHANGED <<req[r], res[r], pending[r], failed[r], reported[r], callback[r],
                   floorAt[r], call[r]>>

Called(r) ==
    /\ Load(r)
    /\ pc[r] = "load"
    /\ pc'[r] = "await"
    /\ call'[r].st = "waiting" /\ call'[r].key = KeyOf(r)
    /\ UNCHANGED <<req[r], res[r], at[r], seen[r], pending[r], failed[r],
                   reported[r], callback[r], floorAt[r]>>

Wrote(r, l) ==
    /\ WriteLevel(r, l)
    /\ l \in pending[r]
    /\ pending'[r] = pending[r] \ {l}
    /\ \/ UNCHANGED <<failed[r], reported[r]>>
       \/ /\ failed'[r] = failed[r] \cup {l}
          /\ reported'[r] = IF req[r].op = "Set" /\ reported[r] # {}
                            THEN reported[r] ELSE reported[r] \cup {l}
    /\ UNCHANGED <<pc[r], req[r], res[r], at[r], seen[r], callback[r], floorAt[r],
                   call[r]>>

Returned(r) ==
    /\ SetReturns(r) \/ GetReturns(r)
    /\ pc[r] \in {"write", "writeBack"}
    /\ pending[r] = {}
    /\ pc'[r] = "done"
    /\ \/ /\ pc[r] = "write"
          /\ res'[r] = IF reported[r] = {} THEN Answer("ok", 0) ELSE Err
          /\ UNCHANGED callback[r]
       \/ /\ pc[r] = "writeBack"
          /\ res'[r] = IF reported[r] # {} /\ cfg.mode # "tolerant" THEN Err ELSE res[r]
          /\ callback'[r] = IF reported[r] # {} /\ cfg.callback THEN "error"
                                                               ELSE callback[r]
    /\ UNCHANGED <<req[r], at[r], seen[r], pending[r], failed[r], reported[r],
                   floorAt[r], call[r]>>

Ended(r) ==
    /\ AsyncEnds(r)
    /\ cfg.async /\ IsGet(r) /\ res[r].tag = "value"
    /\ UNCHANGED <<pc[r], req[r], res[r], at[r], seen[r], pending[r], failed[r],
                   reported[r], floorAt[r], call[r]>>

RemovedOne(r) ==
    /\ Remove(r)
    /\ pc[r] = "remove"
    /\ at'[r] = at[r] + 1
    /\ \/ at[r] < Depth /\ UNCHANGED <<pc[r], res[r]>>
       \/ /\ at[r] = Depth /\ pc'[r] = "done"
          /\ res'[r] = IF reported'[r] = {} THEN Answer("ok", 0) ELSE Err
    /\ UNCHANGED <<req[r], seen[r], pending[r], callback[r], floorAt[r], call[r]>>

Moves(r) ==
    \/ \E o \in Ops, k \in Keys : Began(r, o, k)
    \/ \E x \in Outcome : Answered(r, x)
    \/ PassedOver(r)
    \/ Called(r)
    \/ \E l \in Levels : Wrote(r, l)
    \/ Returned(r)
    \/ Ended(r)
    \/ RemovedOne(r)

\* A step of a request is one of these moves, and only it moves.
LEMMA StepMoves ==
    ASSUME WorkIInv, [Next]_vars
    PROVE  /\ UNCHANGED cfg
           /\ \/ /\ \A s \in Requests : Untouched(s)
                 /\ Shrinks /\ UNCHANGED <<req, historyVars>>
              \/ \E r \in Requests : /\ Moves(r)
                                     /\ \A s \in Requests \ {r} : Untouched(s)
<1>a. /\ WorkTypes /\ KeysAndLevels /\ DoneTypes /\ DepthAssumption
      /\ Loader!TypeOK /\ SourceTypeOK /\ LevelTypes
  BY TypeParts, DepthAssumption DEF WorkIInv, WorkTypes
<1>b. call \in [Requests -> Loader!Call]
  BY <1>a DEF Loader!TypeOK
<1>1. ASSUME NEW r \in Requests, NEW o \in Ops, NEW k \in Keys, Begin(r, o, k)
      PROVE  /\ UNCHANGED cfg
             /\ Moves(r) /\ \A s \in Requests \ {r} : Untouched(s)
  <2>1. o \in {"Get", "Set", "Delete", "Clear"}
    BY OpAssumption DEF Writes
  <2>2. Began(r, o, k)
    BY <1>1, <1>a, <2>1 DEF Begin, Began, WorkTypes, DoneTypes, loaderVars
  <2>3. \A s \in Requests \ {r} : Untouched(s)
    BY <1>1, <1>a DEF Begin, Untouched, WorkTypes, DoneTypes, loaderVars
  <2> QED BY <1>1, <2>2, <2>3 DEF Begin, Moves
<1>2. ASSUME NEW r \in Requests, NEW x \in Outcome, Hits(r, x) \/ Fails(r, x),
             pc[r] \in {"fetch", "load", "await"}, UNCHANGED context,
             x.tag = "panic" => ~cfg.loader,
             pc[r] = "fetch" => /\ level[at[r]][KeyOf(r)] # None
                                /\ x = Answer("value", level[at[r]][KeyOf(r)]),
             pc[r] = "load" => x \in SourceReturns(KeyOf(r)) \cup {Answer("panic", 0)},
             pc[r] = "await" => \/ x = CtxErr
                                \/ /\ flight[call[r].on].st = "done"
                                   /\ x = flight[call[r].on].res,
             \A s \in Requests \ {r} : UNCHANGED call[s],
             pc[r] = "await" => call'[r].st # "waiting",
             pc[r] # "await" => UNCHANGED call[r]
      PROVE  /\ UNCHANGED cfg
             /\ Moves(r) /\ \A s \in Requests \ {r} : Untouched(s)
  <2>1. Answered(r, x)
    BY <1>2, <1>a DEF Hits, Fails, Got, Answered, WorkTypes, DoneTypes, context,
                      historyVars
  <2>2. \A s \in Requests \ {r} : Untouched(s)
    BY <1>2, <1>a DEF Hits, Fails, Got, Untouched, WorkTypes, DoneTypes, context,
                      historyVars
  <2> QED BY <1>2, <2>1, <2>2 DEF Moves, context
<1>3. ASSUME NEW r \in Requests, NEW e, Passes(r, e),
             UNCHANGED <<context, loaderVars>>
      PROVE  /\ UNCHANGED cfg
             /\ Moves(r) /\ \A s \in Requests \ {r} : Untouched(s)
  <2>1. PassedOver(r)
    BY <1>3, <1>a DEF Passes, SeesError, PassedOver, WorkTypes, DoneTypes, context,
                      loaderVars
  <2>2. \A s \in Requests \ {r} : Untouched(s)
    BY <1>3, <1>a DEF Passes, SeesError, Untouched, WorkTypes, DoneTypes, context,
                      loaderVars
  <2> QED BY <1>3, <2>1, <2>2 DEF Moves, context
<1>4. ASSUME NEW r \in Requests, Fetch(r)
      PROVE  /\ UNCHANGED cfg
             /\ Moves(r) /\ \A s \in Requests \ {r} : Untouched(s)
  <2>1. /\ pc[r] = "fetch" /\ UNCHANGED <<context, loaderVars>>
        /\ KeyOf(r) \in Keys /\ at[r] \in Levels /\ UNCHANGED call
    BY <1>4, <1>a, FetchSteps DEF KeysAndLevels, loaderVars
  <2>2. level[at[r]][KeyOf(r)] # None =>
          Answer("value", level[at[r]][KeyOf(r)]) \in Outcome
    BY <1>a, <2>1, AnswerTypes DEF LevelTypes, Tags
  <2>3. Answer("value", level[at[r]][KeyOf(r)]).tag # "panic"
    BY DEF Answer
  <2> QED BY <1>2, <1>3, <1>4, <2>1, <2>2, <2>3, FetchSteps
<1>5. ASSUME NEW r \in Requests, Await(r)
      PROVE  /\ UNCHANGED cfg
             /\ Moves(r) /\ \A s \in Requests \ {r} : Untouched(s)
  <2>1. PICK y : /\ call' = [call EXCEPT ![r].st = "returned", ![r].res = y]
                 /\ \/ y = CtxErr
                    \/ flight[call[r].on].st = "done" /\ y = flight[call[r].on].res
    BY <1>5 DEF Await, Loader!Receive, Loader!GiveUp, Loader!Returns
  <2>2. /\ call'[r].st # "waiting" /\ call'[r].res = y
        /\ \A s \in Requests \ {r} : UNCHANGED call[s]
    BY <1>b, <2>1 DEF Loader!Call
  <2> QED BY <1>2, <1>5, <2>1, <2>2, AwaitSteps, AnswerTypes, LoaderResultTypes
<1>6. ASSUME NEW r \in Requests, LoadDirectly(r) \/ LoadNil(r)
      PROVE  /\ UNCHANGED cfg
             /\ Moves(r) /\ \A s \in Requests \ {r} : Untouched(s)
  <2>1. pc[r] = "load" /\ UNCHANGED context /\ UNCHANGED call
    BY <1>6, DirectSteps DEF loaderVars
  <2>2. Answer("panic", 0) \in Outcome
    BY AnswerTypes DEF Tags
  <2> QED BY <1>2, <1>6, <2>1, <2>2, DirectSteps, AnswerTypes, LoaderResultTypes
<1>7. ASSUME NEW r \in Requests, Load(r)
      PROVE  /\ UNCHANGED cfg
             /\ Moves(r) /\ \A s \in Requests \ {r} : Untouched(s)
  <2>1. PICK f : call' = [call EXCEPT ![r] = [st |-> "waiting", key |-> KeyOf(r),
                                            on |-> f, res |-> None]]
    BY <1>7 DEF Load, Loader!Join, Loader!Create, Loader!Calls
  <2>2. Called(r)
    BY <1>7, <1>a, <1>b, <2>1 DEF Load, Called, WorkTypes, DoneTypes, context,
                                  writeVars, historyVars
  <2>3. \A s \in Requests \ {r} : Untouched(s)
    BY <1>7, <1>a, <1>b, <2>1 DEF Load, Untouched, WorkTypes, DoneTypes, context,
                                  writeVars, historyVars
  <2> QED BY <1>7, <2>2, <2>3 DEF Moves, Load, context
<1>8. ASSUME NEW r \in Requests, NEW l \in Levels, WriteLevel(r, l)
      PROVE  /\ UNCHANGED cfg
             /\ Moves(r) /\ \A s \in Requests \ {r} : Untouched(s)
  <2>1. Wrote(r, l)
    BY <1>8, <1>a DEF WriteLevel, Wrote, WorkTypes, DoneTypes, context, loaderVars
  <2>2. \A s \in Requests \ {r} : Untouched(s)
    BY <1>8, <1>a DEF WriteLevel, Untouched, WorkTypes, DoneTypes, context, loaderVars
  <2> QED BY <1>8, <2>1, <2>2 DEF Moves, WriteLevel, context
<1>9. ASSUME NEW r \in Requests, SetReturns(r) \/ GetReturns(r)
      PROVE  /\ UNCHANGED cfg
             /\ Moves(r) /\ \A s \in Requests \ {r} : Untouched(s)
  <2>1. Returned(r)
    BY <1>9, <1>a DEF SetReturns, GetReturns, Returned, WorkTypes, DoneTypes, context,
                      loaderVars, writeVars, historyVars
  <2>2. \A s \in Requests \ {r} : Untouched(s)
    BY <1>9, <1>a DEF SetReturns, GetReturns, Untouched, WorkTypes, DoneTypes, context,
                      loaderVars, writeVars, historyVars
  <2> QED BY <1>9, <2>1, <2>2 DEF Moves, SetReturns, GetReturns, context
<1>10. ASSUME NEW r \in Requests, AsyncEnds(r)
       PROVE  /\ UNCHANGED cfg
              /\ Moves(r) /\ \A s \in Requests \ {r} : Untouched(s)
  <2>1. Ended(r)
    BY <1>10, <1>a DEF AsyncEnds, Ended, WorkTypes, DoneTypes, context, loaderVars,
                       writeVars, historyVars, IsGet
  <2>2. \A s \in Requests \ {r} : Untouched(s)
    BY <1>10, <1>a DEF AsyncEnds, Untouched, WorkTypes, DoneTypes, context, loaderVars,
                       writeVars, historyVars
  <2> QED BY <1>10, <2>1, <2>2 DEF Moves, AsyncEnds, context
<1>11. ASSUME NEW r \in Requests, Remove(r)
       PROVE  /\ UNCHANGED cfg
              /\ Moves(r) /\ \A s \in Requests \ {r} : Untouched(s)
  <2>1. /\ pc[r] = "remove" /\ at' = [at EXCEPT ![r] = @ + 1]
        /\ UNCHANGED <<context, seen, pending, callback, call, floorAt>>
        /\ \E errors : Removes(r, errors)
    BY <1>11 DEF Remove, loaderVars
  <2>2. \/ at[r] < Depth /\ UNCHANGED <<pc, res>>
        \/ /\ ~(at[r] < Depth)
           /\ pc' = [pc EXCEPT ![r] = "done"]
           /\ res' = [res EXCEPT ![r] = IF reported'[r] = {} THEN Answer("ok", 0)
                                                             ELSE Err]
    BY <1>11 DEF Remove
  <2>3. ~(at[r] < Depth) => at[r] = Depth
    BY <1>a, <2>1 DEF KeysAndLevels, Levels, DepthAssumption
  <2>4. /\ at'[r] = at[r] + 1
        /\ UNCHANGED <<req[r], seen[r], pending[r], callback[r], floorAt[r], call[r]>>
    BY <1>11, <1>a, <2>1 DEF WorkTypes, context
  <2>5. \/ at[r] < Depth /\ UNCHANGED <<pc[r], res[r]>>
        \/ /\ at[r] = Depth /\ pc'[r] = "done"
           /\ res'[r] = IF reported'[r] = {} THEN Answer("ok", 0) ELSE Err
    BY <1>11, <1>a, <2>2, <2>3 DEF WorkTypes, DoneTypes
  <2>6. RemovedOne(r)
    BY <1>11, <2>1, <2>4, <2>5 DEF RemovedOne
  <2>7. \A s \in Requests \ {r} : Untouched(s)
    BY <1>a, <2>1, <2>2 DEF Removes, Untouched, WorkTypes, DoneTypes, context
  <2> QED BY <2>1, <2>6, <2>7 DEF Moves, context
<1>12. ASSUME UNCHANGED work, UNCHANGED call
       PROVE  /\ UNCHANGED <<cfg, req, historyVars>>
              /\ \A s \in Requests : Untouched(s)
  BY <1>12 DEF work, Untouched, historyVars
<1>13. ASSUME NEW l \in Levels, NEW k \in Keys, Evict(l, k) PROVE Shrinks
  BY <1>13, <1>a DEF Evict, LevelTypes, Shrinks
<1>14. ASSUME UNCHANGED level PROVE Shrinks
  BY <1>14 DEF Shrinks
<1>15. ASSUME \/ \E r \in Requests : Cancel(r)
              \/ \E f \in Requests : LoaderStep(f) \/ LoaderPanics(f)
              \/ \E k \in Keys : Update(k)
              \/ UNCHANGED vars
       PROVE  UNCHANGED level
  BY <1>15 DEF Cancel, LoaderStep, LoaderPanics, Update, vars, writeVars
<1> QED
  BY <1>1, <1>4, <1>5, <1>6, <1>7, <1>8, <1>9, <1>10, <1>11, <1>12, <1>13, <1>14,
     <1>15, Surroundings DEF Next, Proceed, Finished

\* Requests take their steps in order.
LEMMA StepOrder == WorkIInv /\ [Next]_vars => StepsInOrder' /\ CallsLinked'
<1> SUFFICES ASSUME WorkIInv, [Next]_vars PROVE StepsInOrder' /\ CallsLinked'
  OBVIOUS
<1> DEFINE Linked(r) == /\ call[r].st = "waiting" <=> pc[r] = "await"
                        /\ pc[r] = "await" => call[r].key = KeyOf(r)
<1>a. StepsInOrder /\ \A r \in Requests : Linked(r)
  BY DEF WorkIInv, CallsLinked
<1>b. /\ WorkTypes /\ DoneTypes /\ KeysAndLevels /\ cfg' = cfg
      /\ Depth \in Nat \ {0}
      /\ cfg \in Config
  BY TypeParts, StepMoves, DepthAssumption, ConfigAssumption DEF WorkIInv, WorkTypes
<1>1. ASSUME NEW s \in Requests, Untouched(s) PROVE InOrder(s)' /\ Linked(s)'
  BY <1>1, <1>a, <1>b DEF Untouched, StepsInOrder, InOrder, Fresher, IsGet, KeyOf
<1>2. ASSUME NEW r \in Requests, Moves(r) PROVE InOrder(r)' /\ Linked(r)'
  <2>a. InOrder(r) /\ Linked(r)
    BY <1>a, <1>2 DEF StepsInOrder
  <2>b. /\ pc[r] \in Steps /\ at[r] \in 1 .. Depth + 1
        /\ pc[r] \in {"fetch", "remove"} => at[r] \in Levels
        /\ failed[r] \in SUBSET Levels /\ reported[r] \in SUBSET Levels
    BY <1>b, <1>2 DEF WorkTypes, DoneTypes, KeysAndLevels
  <2> USE DEF InOrder, Fresher, IsGet, KeyOf
  <2>1. ASSUME NEW o \in Ops, NEW k \in Keys, Began(r, o, k)
        PROVE  InOrder(r)' /\ Linked(r)'
    <3>1. o \in {"Get", "Set", "Delete", "Clear"}
      BY OpAssumption DEF Writes
    <3>2. /\ Fresher(r)' /\ Linked(r)' /\ pending'[r] = IF o = "Set" THEN Levels ELSE {}
          /\ pc'[r] = IF o = "Get" THEN "fetch" ELSE IF o = "Set" THEN "write" ELSE "remove"
          /\ req'[r].op = o
      BY <2>1, <2>a DEF Began
    <3> QED BY <3>1, <3>2
  <2>2. ASSUME NEW x \in Outcome, Answered(r, x) PROVE InOrder(r)' /\ Linked(r)'
    BY <2>2, <2>a, <1>b DEF Answered, Config
  <2>3. CASE PassedOver(r)
    BY <2>3, <2>a, <2>b, <1>b DEF PassedOver
  <2>4. CASE Called(r)
    BY <2>4, <2>a DEF Called
  <2>5. ASSUME NEW l \in Levels, Wrote(r, l) PROVE InOrder(r)' /\ Linked(r)'
    BY <2>5, <2>a, <2>b, <1>b DEF Wrote, Steps
  <2>6. CASE Returned(r)
    BY <2>6, <2>a, <2>b, <1>b DEF Returned
  <2>7. CASE Ended(r)
    BY <2>7, <2>a, <2>b, <1>b DEF Ended, Steps, NoAnswer, Answer
  <2>8. CASE RemovedOne(r)
    BY <2>8, <2>a, <2>b, <1>b DEF RemovedOne
  <2> QED BY <1>2, <2>1, <2>2, <2>3, <2>4, <2>5, <2>6, <2>7, <2>8 DEF Moves
<1>3. \A r \in Requests : InOrder(r)' /\ Linked(r)'
  BY <1>1, <1>2, StepMoves
<1> QED BY <1>3 DEF StepsInOrder, CallsLinked

LEMMA StepWorkIInv == WorkIInv /\ [Next]_vars => WorkIInv'
  BY StepTypes, StepLoader, StepOrder DEF WorkIInv

LEMMA InitWork == Init => WorkIInv
<1> SUFFICES ASSUME Init PROVE WorkIInv
  OBVIOUS
<1>1. LoaderFlight!IInv /\ Loader!TypeOK
  <2>1. LoaderFlight!Init
    BY LoaderIsInstance DEF Init
  <2>2. LoaderFlight!IInv
    BY <2>1, LoaderFlight!InitIInv, NoneAssumption, LoaderResultTypes
  <2> QED BY <2>2, LoaderIsInstance DEF LoaderFlight!IInv
<1>2. SourceTypeOK /\ 0 \in Versions
  <2>1. 0 \in Versions
    BY AnswerTypes
  <2> QED BY <2>1 DEF Init, SourceInit, SourceTypeOK
<1>3. WorkTypes
  <2>1. req \in [Requests -> Request] /\ res \in [Requests -> Outcome]
    BY <1>2, AnswerTypes DEF Init, Request
  <2> QED BY <1>2, <2>1, DepthAssumption DEF Init, WorkTypes, DoneTypes, Steps
<1>4. LevelTypes /\ KeysAndLevels
  BY DEF Init, LevelTypes, KeysAndLevels
<1>5. StepsInOrder
  <2>1. \A r \in Requests : KeyOf(r) = None /\ req[r].op = None
    BY DEF Init, KeyOf
  <2> QED BY <2>1 DEF Init, StepsInOrder, InOrder, Fresher, IsGet
<1>6. CallsLinked
  BY DEF Init, CallsLinked, Loader!Init
<1> QED BY <1>1, <1>2, <1>3, <1>4, <1>5, <1>6, TypeParts DEF Init, WorkIInv

\* The requests and the loader keep together.
THEOREM WorkInvariance == Spec => []WorkIInv
  BY InitWork, StepWorkIInv, PTL DEF Spec

\* Every variable keeps its type, and a Get or a Delete never visits a level
\* that there is not (FetchPolicySequential, multiCache.Delete).
THEOREM TypeCorrect == Spec => []TypeOK
<1>1. WorkIInv => TypeOK
  BY DEF WorkIInv
<1> QED BY <1>1, WorkInvariance, PTL

\* The cache calls its wrapped loader as LoaderFlight says: what is proved
\* there of merged loads holds of the levels' loader too.
THEOREM LoaderImplementsFlight == Spec => LoaderIsFlight
<1>1. Init => Loader!Init
  BY DEF Init
<1> QED BY <1>1, WorkInvariance, LoaderSteps, PTL DEF Spec, LoaderIsFlight, Loader!Spec

-----------------------------------------------------------------------------
(***************************************************************************)
(* Answers, write-backs and missing loaders                                *)
(***************************************************************************)

\* A Get that has got a value returns it, unless its write-back fails, it
\* waits for it and errors are not tolerated (multiCache.Get).
THEOREM AnswersAreKept == Spec => AnswerKept
<1> DEFINE Kept(r) == res[r].tag = "value" /\ (cfg.async \/ cfg.mode = "tolerant")
                        => res'[r] = res[r]
<1>1. WorkIInv /\ [Next]_vars => \A r \in Requests : Kept(r)
  <2> SUFFICES ASSUME WorkIInv, [Next]_vars, NEW r \in Requests PROVE Kept(r)
    OBVIOUS
  <2>a. InOrder(r) /\ NoAnswer.tag = "none"
    BY DEF WorkIInv, StepsInOrder, NoAnswer, Answer
  <2>1. CASE Untouched(r)
    BY <2>1 DEF Untouched
  <2>2. CASE \E o \in Ops, k \in Keys : Began(r, o, k)
    BY <2>2 DEF Began
  <2>3. CASE \E x \in Outcome : Answered(r, x)
    BY <2>3, <2>a DEF Answered, InOrder, Fresher
  <2>4. CASE PassedOver(r) \/ Called(r) \/ Ended(r) \/ \E l \in Levels : Wrote(r, l)
    BY <2>4 DEF PassedOver, Called, Ended, Wrote
  <2>5. CASE Returned(r)
    BY <2>5, <2>a DEF Returned, InOrder
  <2>6. CASE RemovedOne(r)
    BY <2>6, <2>a DEF RemovedOne, InOrder
  <2> QED BY <2>1, <2>2, <2>3, <2>4, <2>5, <2>6, StepMoves DEF Moves
<1>2. WorkIInv /\ [Next]_vars => [\A r \in Requests : Kept(r)]_vars
  BY <1>1
<1> QED BY <1>2, WorkInvariance, PTL DEF Spec, AnswerKept

\* The write-back of a synchronous Get is over, and its errors are accounted
\* for, when the Get returns.
LEMMA StepWriteBack ==
    WorkIInv /\ WriteBackBeforeReturn /\ [Next]_vars => WriteBackBeforeReturn'
<1> SUFFICES ASSUME WorkIInv, WriteBackBeforeReturn, [Next]_vars,
                    NEW r \in Requests, IsGet(r)', pc'[r] = "done", ~cfg'.async
             PROVE  /\ pending'[r] = {}
                    /\ failed'[r] # {} /\ cfg'.callback => callback'[r] = "error"
                    /\ cfg'.mode # "tolerant" /\ res'[r].tag = "value"
                         => failed'[r] = {}
  BY DEF WriteBackBeforeReturn
<1>a. /\ InOrder(r) /\ cfg' = cfg
      /\ IsGet(r) /\ pc[r] = "done" =>
           /\ pending[r] = {}
           /\ failed[r] # {} /\ cfg.callback => callback[r] = "error"
           /\ cfg.mode # "tolerant" /\ res[r].tag = "value" => failed[r] = {}
  BY StepMoves DEF WorkIInv, StepsInOrder, WriteBackBeforeReturn
<1>1. CASE Untouched(r)
  BY <1>1, <1>a DEF Untouched, IsGet
<1>2. CASE \E x \in Outcome : Answered(r, x)
  BY <1>2, <1>a DEF Answered, InOrder, Fresher, IsGet
<1>3. CASE \E l \in Levels : Wrote(r, l)
  BY <1>3, <1>a DEF Wrote, IsGet
<1>4. CASE Returned(r)
  BY <1>4, <1>a DEF Returned, InOrder, IsGet, Err, Answer
<1>5. CASE Ended(r)
  BY <1>5, <1>a DEF Ended
<1>6. CASE RemovedOne(r)
  BY <1>6, <1>a DEF RemovedOne, InOrder, IsGet
<1>7. CASE PassedOver(r) \/ Called(r) \/ \E o \in Ops, k \in Keys : Began(r, o, k)
  BY <1>7 DEF PassedOver, Called, Began
<1> QED BY <1>1, <1>2, <1>3, <1>4, <1>5, <1>6, <1>7, StepMoves DEF Moves

\* A synchronous write-back is over when the Get returns: its failure has
\* been passed to ErrCallback, and a strict Get returns a value only if every
\* level that missed has taken it (write_back.Builder.Build).
THEOREM WriteBacksEndFirst == Spec => []WriteBackBeforeReturn
<1>1. Init => WriteBackBeforeReturn
  BY DEF Init, WriteBackBeforeReturn
<1> QED BY <1>1, StepWriteBack, WorkInvariance, PTL DEF Spec

\* Nothing but a missing loader makes a request or the process panic.
LoaderMissing == down \/ (\E r \in Requests : res[r].tag = "panic") => ~cfg.loader

LEMMA StepLoaderMissing == WorkIInv /\ LoaderMissing /\ [Next]_vars => LoaderMissing'
<1> SUFFICES ASSUME WorkIInv, LoaderMissing, [Next]_vars PROVE LoaderMissing'
  OBVIOUS
<1>1. cfg' = cfg
  BY StepMoves
<1>2. down' => down \/ ~cfg.loader
  BY StepDown
<1>3. ASSUME NEW r \in Requests, res'[r].tag = "panic"
      PROVE  res[r].tag = "panic" \/ ~cfg.loader
  <2>a. Answer("ok", 0).tag = "ok" /\ Err.tag = "err"
    BY DEF Answer, Err
  <2>1. CASE Untouched(r)
    BY <1>3, <2>1 DEF Untouched
  <2>2. CASE \E o \in Ops, k \in Keys : Began(r, o, k)
    BY <1>3, <2>2 DEF Began
  <2>3. CASE \E x \in Outcome : Answered(r, x)
    BY <1>3, <2>3 DEF Answered
  <2>4. CASE PassedOver(r) \/ Called(r) \/ Ended(r) \/ \E l \in Levels : Wrote(r, l)
    BY <1>3, <2>4 DEF PassedOver, Called, Ended, Wrote
  <2>5. CASE Returned(r)
    BY <1>3, <2>5, <2>a DEF Returned
  <2>6. CASE RemovedOne(r)
    BY <1>3, <2>6, <2>a DEF RemovedOne
  <2> QED BY <1>3, <2>1, <2>2, <2>3, <2>4, <2>5, <2>6, StepMoves DEF Moves
<1> QED BY <1>1, <1>2, <1>3 DEF LoaderMissing

\* What MultiBuilder.Build returns has a loader, unless that was waived.
LEMMA BuildsHaveLoaders ==
    ASSUME NEW b, NEW c \in Multi!Build(b) PROVE c.loader \/ c.waived
<1>1. c = Multi!Config(b) /\ ~(b.required /\ ~b.loader)
  BY DEF Multi!Build
<1>2. c.loader = b.loader /\ c.waived = ~b.required
  BY <1>1 DEF Multi!Config
<1> QED BY <1>1, <1>2

\* Of the caches that MultiBuilder builds, only those whose user has waived
\* the loader can panic for want of one.
THEOREM MissingLoadersAreWaived ==
    ASSUME \A c \in Configs : \E b : c \in Multi!Build(b)
    PROVE  Spec => []LoaderWaived
<1>1. Init => LoaderMissing
  BY DEF Init, LoaderMissing, NoAnswer, Answer
<1>2. WorkIInv /\ LoaderMissing => LoaderWaived
  <2>1. \A c \in Configs : c.loader \/ c.waived
    BY BuildsHaveLoaders
  <2> QED BY <2>1 DEF WorkIInv, TypeOK, LoaderMissing, LoaderWaived
<1> QED BY <1>1, <1>2, StepLoaderMissing, WorkInvariance, PTL DEF Spec

-----------------------------------------------------------------------------
(***************************************************************************)
(* Who is alone                                                            *)
(***************************************************************************)

\* Only a request that begins starts to work, and only one that begins is
\* told whether it is alone.
LEMMA NobodyStarts ==
    ASSUME WorkIInv, [Next]_vars
    PROVE  \/ \E r \in Requests : /\ \E o \in Ops, k \in Keys : Began(r, o, k)
                                  /\ \A s \in Requests \ {r} : Untouched(s)
           \/ /\ UNCHANGED <<alone, floorAt, req>>
              /\ \A s \in Requests :
                   /\ AtWork(s)' => AtWork(s)
                   /\ pc'[s] \in {"write", "remove"} => pc'[s] = pc[s]
<1>1. ASSUME NEW s \in Requests, Untouched(s)
      PROVE  /\ AtWork(s)' => AtWork(s)
             /\ pc'[s] \in {"write", "remove"} => pc'[s] = pc[s]
  BY <1>1 DEF Untouched, AtWork
<1>2. ASSUME NEW r \in Requests, Moves(r),
             ~ \E o \in Ops, k \in Keys : Began(r, o, k)
      PROVE  /\ UNCHANGED <<alone, floorAt, req>>
             /\ AtWork(r)' => AtWork(r)
             /\ pc'[r] \in {"write", "remove"} => pc'[r] = pc[r]
  <2>a. InOrder(r)
    BY <1>2 DEF WorkIInv, StepsInOrder
  <2>1. CASE \E x \in Outcome : Answered(r, x)
    BY <2>1 DEF Answered, historyVars, AtWork
  <2>2. CASE PassedOver(r)
    BY <2>2, <2>a DEF PassedOver, Passes, AtWork
  <2>3. CASE Called(r)
    BY <2>3 DEF Called, Load, historyVars, context, AtWork
  <2>4. CASE \E l \in Levels : Wrote(r, l)
    BY <2>4 DEF Wrote, WriteLevel, context, AtWork
  <2>5. CASE Returned(r)
    BY <2>5 DEF Returned, SetReturns, GetReturns, historyVars, context, AtWork
  <2>6. CASE Ended(r)
    BY <2>6 DEF Ended, AsyncEnds, historyVars, context, AtWork
  <2>7. CASE RemovedOne(r)
    BY <2>7 DEF RemovedOne, Remove, context, AtWork
  <2> QED BY <1>2, <2>1, <2>2, <2>3, <2>4, <2>5, <2>6, <2>7 DEF Moves
<1> QED BY <1>1, <1>2, StepMoves DEF historyVars

\* Flights start and go on only by these.
LEMMA FlightsKept ==
    ASSUME WorkIInv, [Next]_vars
    PROVE  \/ \E r \in Requests : Load(r)
           \/ \E f \in Requests : LoaderStep(f)
           \/ UNCHANGED flight
<1>1. ASSUME NEW r \in Requests,
             \/ Fetch(r) \/ Await(r) \/ LoadDirectly(r) \/ LoadNil(r) \/ SetReturns(r)
             \/ GetReturns(r) \/ AsyncEnds(r) \/ Remove(r)
      PROVE  UNCHANGED flight
  BY <1>1 DEF Fetch, Await, LoadDirectly, LoadNil, SetReturns, GetReturns, AsyncEnds,
              Remove, loaderVars, Loader!Receive, Loader!GiveUp
<1>2. ASSUME NEW r \in Requests,
             \/ \E o \in Ops, k \in Keys : Begin(r, o, k)
             \/ \E l \in Levels : WriteLevel(r, l)
             \/ Cancel(r)
      PROVE  UNCHANGED flight
  BY <1>2 DEF Begin, WriteLevel, Cancel, loaderVars
<1>3. ASSUME \/ \E g \in Requests : LoaderPanics(g)
             \/ \E k \in Keys : Update(k)
             \/ \E l \in Levels, k \in Keys : Evict(l, k)
             \/ UNCHANGED vars
      PROVE  UNCHANGED flight
  BY <1>3 DEF LoaderPanics, Update, Evict, vars, loaderVars
<1> QED BY <1>1, <1>2, <1>3 DEF Next, Proceed, Finished

\* A flight starts only for a request that is at work and has its key.
LEMMA FlightSteps ==
    ASSUME WorkIInv, [Next]_vars, NEW f \in Requests, Loader!InFlight(f)'
    PROVE  \/ Loader!InFlight(f) /\ flight'[f].key = flight[f].key
           \/ pc[f] = "load" /\ flight'[f].key = KeyOf(f)
<1>a. flight \in [Requests -> Loader!Flight]
  BY DEF WorkIInv, TypeOK, Loader!TypeOK
<1> USE DEF Loader!InFlight
<1>1. ASSUME NEW r \in Requests, Load(r)
      PROVE  \/ Loader!InFlight(f) /\ flight'[f].key = flight[f].key
             \/ pc[f] = "load" /\ flight'[f].key = KeyOf(f)
  <2>1. \/ UNCHANGED flight
        \/ flight' = [flight EXCEPT ![r] = [st |-> "running", key |-> KeyOf(r),
                                           res |-> None]]
    BY <1>1 DEF Load, Loader!Join, Loader!Create
  <2> QED BY <1>1, <1>a, <2>1 DEF Load
<1>2. ASSUME NEW g \in Requests, LoaderStep(g)
      PROVE  Loader!InFlight(f) /\ flight'[f].key = flight[f].key
  <2>1. /\ flight[g].st \in {"running", "loaded"}
        /\ \/ \E x : flight' = [flight EXCEPT ![g].st = "loaded", ![g].res = x]
           \/ flight' = [flight EXCEPT ![g].st = "done"]
    BY <1>2 DEF LoaderStep, Loader!Load, Loader!Deliver
  <2> QED BY <1>a, <2>1 DEF Loader!Flight
<1>3. ASSUME UNCHANGED flight
      PROVE  Loader!InFlight(f) /\ flight'[f].key = flight[f].key
  BY <1>3
<1> QED BY <1>1, <1>2, <1>3, FlightsKept

\* The levels are said to agree again only by a Set, a Delete or a Clear that
\* was alone and has failed nowhere.
LEMMA ApartSteps ==
    ASSUME WorkIInv, [Next]_vars, NEW k \in Keys, apart[k], ~apart'[k]
    PROVE  \E r \in Requests :
             /\ SetReturns(r) \/ Remove(r)
             /\ pc[r] \in {"write", "remove"} /\ pc'[r] = "done"
             /\ alone[r] /\ reported'[r] = {} /\ KeyOf(r) = k
<1>a. apart \in [Keys -> BOOLEAN] /\ pc \in [Requests -> Steps]
  BY TypeParts DEF WorkIInv, WorkTypes, DoneTypes
<1>1. ASSUME NEW r \in Requests,
             \/ \E o \in Ops, j \in Keys : Began(r, o, j)
             \/ PassedOver(r) \/ \E l \in Levels : Wrote(r, l)
      PROVE  FALSE
  <2>1. \E j, b : apart' = [apart EXCEPT ![j] = @ \/ b] \/ UNCHANGED apart
    BY <1>1 DEF Began, Begin, PassedOver, Passes, Wrote, WriteLevel
  <2> QED BY <1>a, <2>1
<1>2. ASSUME NEW r \in Requests,
             (\E x \in Outcome : Answered(r, x)) \/ Called(r) \/ Ended(r)
      PROVE  FALSE
  BY <1>2 DEF Answered, Called, Load, Ended, AsyncEnds, historyVars
<1>3. ASSUME NEW r \in Requests, Returned(r)
      PROVE  SetReturns(r) /\ pc[r] = "write" /\ pc'[r] = "done"
             /\ alone[r] /\ reported'[r] = {} /\ KeyOf(r) = k
  <2>1. CASE SetReturns(r)
    BY <1>3, <1>a, <2>1 DEF SetReturns, writeVars
  <2>2. CASE GetReturns(r)
    BY <2>2 DEF GetReturns, historyVars
  <2> QED BY <1>3, <2>1, <2>2 DEF Returned
<1>4. ASSUME NEW r \in Requests, RemovedOne(r)
      PROVE  /\ Remove(r) /\ pc[r] = "remove" /\ pc'[r] = "done"
             /\ alone[r] /\ reported'[r] = {} /\ KeyOf(r) = k
  BY <1>4, <1>a DEF RemovedOne, Remove
<1> QED BY <1>1, <1>2, <1>3, <1>4, StepMoves DEF Moves, historyVars

LEMMA StepAlone == WorkIInv /\ AloneIsAlone /\ [Next]_vars => AloneIsAlone'
<1> SUFFICES ASSUME WorkIInv, AloneIsAlone, [Next]_vars PROVE AloneIsAlone'
  OBVIOUS
<1> DEFINE Apart(r) ==
              \A s \in Requests : s # r /\ KeyOf(s) = KeyOf(r) => ~AtWork(s)
           NoFlight(r) ==
              \A f \in Requests : Loader!InFlight(f) => flight[f].key # KeyOf(r)
<1>a. /\ \A r \in Requests : AtWork(r) /\ alone[r] =>
              Apart(r) /\ (pc[r] = "remove" => NoFlight(r))
      /\ \A r \in Requests : AtWork(r) /\ ~apart[KeyOf(r)] => alone[r]
  BY DEF AloneIsAlone
<1>b. \A s \in Requests : /\ InOrder(s) /\ (AtWork(s) => KeyOf(s) \in Keys)
                          /\ KeyOf(s) # None => AtWork(s) \/ pc[s] = "done"
  <2>1. \A s \in Requests : InOrder(s) /\ KeysAndLevels
    BY TypeParts DEF WorkIInv, StepsInOrder
  <2> QED BY <2>1 DEF InOrder, AtWork, KeysAndLevels
<1>c. /\ alone \in [Requests -> BOOLEAN] /\ apart \in [Keys -> BOOLEAN]
      /\ req \in [Requests -> Request] /\ None \notin Keys
  BY TypeParts, NoneAssumption DEF WorkIInv, WorkTypes, DoneTypes
<1>1. ASSUME NEW r \in Requests, NEW o \in Ops, NEW k \in Keys, Began(r, o, k),
             \A s \in Requests \ {r} : Untouched(s)
      PROVE  AloneIsAlone'
  <2>1. /\ KeyOf(r)' = k /\ KeyOf(r) = None
        /\ \A s \in Requests \ {r} : /\ KeyOf(s)' = KeyOf(s) /\ pc'[s] = pc[s]
                                     /\ AtWork(s)' = AtWork(s)
    BY <1>1, <1>b DEF Began, Untouched, AtWork, KeyOf, InOrder
  <2>2. /\ alone'[r] = Quiet(k)
        /\ \A s \in Requests \ {r} : alone'[s] = (alone[s] /\ KeyOf(s) # k)
        /\ apart' = [apart EXCEPT ![k] = @ \/ ~Quiet(k)]
        /\ UNCHANGED flight
    BY <1>1 DEF Began, Begin, loaderVars
  <2>3. Quiet(k) => /\ \A s \in Requests \ {r} : KeyOf(s) = k => ~AtWork(s)
                    /\ \A f \in Requests : Loader!InFlight(f) => flight[f].key # k
    BY DEF Quiet, AtWork
  <2>4. ASSUME NEW s \in Requests, AtWork(s)', alone'[s]
        PROVE  Apart(s)' /\ (pc'[s] = "remove" => NoFlight(s)')
    <3>1. CASE s = r
      BY <2>1, <2>2, <2>3, <2>4, <3>1 DEF Loader!InFlight
    <3>2. CASE s # r
      <4>1. AtWork(s) /\ alone[s] /\ KeyOf(s) # k
        BY <2>1, <2>2, <2>4, <3>2
      <4>2. Apart(s)'
        BY <1>a, <2>1, <3>2, <4>1
      <4>3. pc'[s] = "remove" => NoFlight(s)'
        BY <1>a, <2>1, <2>2, <3>2, <4>1 DEF Loader!InFlight
      <4> QED BY <4>2, <4>3
    <3> QED BY <3>1, <3>2
  <2>5. ASSUME NEW s \in Requests, AtWork(s)', ~apart'[KeyOf(s)']
        PROVE  alone'[s]
    <3>1. CASE s = r
      BY <1>c, <2>1, <2>2, <2>5, <3>1
    <3>2. CASE s # r
      <4>1. AtWork(s) /\ ~apart[KeyOf(s)] /\ KeyOf(s) \in Keys
        BY <1>b, <1>c, <2>1, <2>2, <2>5, <3>2
      <4>2. KeyOf(s) # k
        BY <1>c, <2>1, <2>2, <2>3, <2>5, <3>2, <4>1
      <4> QED BY <1>a, <2>2, <3>2, <4>1, <4>2
    <3> QED BY <3>1, <3>2
  <2> QED BY <2>4, <2>5 DEF AloneIsAlone
<1>2. ASSUME UNCHANGED <<alone, req>>,
             \A s \in Requests : /\ AtWork(s)' => AtWork(s)
                                 /\ pc'[s] \in {"write", "remove"} => pc'[s] = pc[s]
      PROVE  AloneIsAlone'
  <2>1. \A s \in Requests : KeyOf(s)' = KeyOf(s)
    BY <1>2 DEF KeyOf
  <2>2. ASSUME NEW s \in Requests, AtWork(s)', alone'[s]
        PROVE  Apart(s)' /\ (pc'[s] = "remove" => NoFlight(s)')
    <3>1. AtWork(s) /\ alone[s]
      BY <1>2, <2>2
    <3>2. Apart(s)'
      BY <1>2, <1>a, <2>1, <3>1
    <3>3. ASSUME pc'[s] = "remove", NEW f \in Requests, Loader!InFlight(f)'
          PROVE  flight'[f].key # KeyOf(s)
      <4>1. pc[s] = "remove"
        BY <1>2, <3>3
      <4>2. pc[f] = "load" => AtWork(f) /\ f # s
        BY <4>1 DEF AtWork
      <4> QED BY <1>a, <3>1, <3>3, <4>1, <4>2, FlightSteps
    <3> QED BY <2>1, <3>2, <3>3
  <2>3. ASSUME NEW s \in Requests, AtWork(s)', ~apart'[KeyOf(s)']
        PROVE  alone'[s]
    <3>1. AtWork(s) /\ KeyOf(s) \in Keys
      BY <1>2, <1>b, <2>3
    <3>2. CASE ~apart[KeyOf(s)]
      BY <1>2, <1>a, <3>1, <3>2
    <3>3. CASE apart[KeyOf(s)]
      <4>1. PICK r \in Requests : /\ pc[r] \in {"write", "remove"}
                                  /\ alone[r] /\ KeyOf(r) = KeyOf(s)
        BY <2>1, <2>3, <3>1, <3>3, ApartSteps
      <4>2. AtWork(r)
        BY <4>1 DEF AtWork
      <4> QED BY <1>2, <1>a, <3>1, <4>1, <4>2
    <3> QED BY <3>2, <3>3
  <2> QED BY <2>2, <2>3 DEF AloneIsAlone
<1> QED BY <1>1, <1>2, NobodyStarts

-----------------------------------------------------------------------------
(***************************************************************************)
(* What the levels hold                                                    *)
(***************************************************************************)

\* Only a write puts anything into a level.
LEMMA LevelSteps ==
    ASSUME WorkIInv, [Next]_vars
    PROVE  \/ Shrinks
           \/ \E r \in Requests, l \in Levels :
                /\ Wrote(r, l)
                /\ level' = [level EXCEPT ![l][KeyOf(r)] = Written(r)]
<1>a. LevelTypes /\ KeysAndLevels
  BY TypeParts DEF WorkIInv
<1>1. ASSUME UNCHANGED level PROVE Shrinks
  BY <1>1 DEF Shrinks
<1>2. ASSUME NEW r \in Requests,
             \/ \E o \in Ops, k \in Keys : Began(r, o, k)
             \/ \E x \in Outcome : Answered(r, x)
             \/ PassedOver(r) \/ Called(r) \/ Returned(r) \/ Ended(r)
      PROVE  UNCHANGED level
  BY <1>2 DEF Began, Begin, Answered, PassedOver, Passes, Called, Load, Returned,
              SetReturns, GetReturns, Ended, AsyncEnds, writeVars
<1>3. ASSUME NEW r \in Requests, NEW l \in Levels, Wrote(r, l)
      PROVE  \/ UNCHANGED level
             \/ level' = [level EXCEPT ![l][KeyOf(r)] = Written(r)]
  BY <1>3 DEF Wrote, WriteLevel
<1>4. ASSUME NEW r \in Requests, RemovedOne(r) PROVE Shrinks
  <2>1. level' = level \/ level' = Removed(r, at[r])
    BY <1>4 DEF RemovedOne, Remove
  <2> QED BY <1>a, <2>1 DEF LevelTypes, Removed, Shrinks
<1> QED BY <1>1, <1>2, <1>3, <1>4, StepMoves DEF Moves

\* Others do not take from a request what it knows of the levels.
LEMMA OthersLevels ==
    ASSUME WorkIInv, AloneIsAlone, LevelsOK, [Next]_vars,
           NEW s \in Requests, Untouched(s)
    PROVE  LevelsFor(s)'
<1>a. /\ LevelTypes /\ KeysAndLevels /\ LevelsFor(s) /\ AtWork(s)' = AtWork(s)
      /\ KeyOf(s)' = KeyOf(s) /\ pc'[s] = pc[s] /\ pc[s] \in Steps
      /\ AtWork(s) => KeyOf(s) \in Keys
      /\ pc[s] \in {"write", "fetch", "load", "await", "remove"} => AtWork(s)
  <2>1. LevelTypes /\ KeysAndLevels /\ InOrder(s) /\ pc[s] \in Steps
    BY TypeParts DEF WorkIInv, StepsInOrder, WorkTypes
  <2> QED BY <2>1 DEF Untouched, AtWork, KeyOf, KeysAndLevels, InOrder, LevelsOK
<1>1. alone'[s] => alone[s]
  <2>1. ASSUME NEW r \in Requests, NEW o \in Ops, NEW k \in Keys, Began(r, o, k)
        PROVE  alone'[s] => alone[s]
    <3>1. r # s
      BY <1>a, <2>1 DEF Began
    <3> QED BY <2>1, <3>1 DEF Began, Begin
  <2> QED BY <2>1, NobodyStarts
<1>2. AtWork(s) /\ ~apart'[KeyOf(s)] => ~apart[KeyOf(s)]
  <2> SUFFICES ASSUME AtWork(s), ~apart'[KeyOf(s)], apart[KeyOf(s)] PROVE FALSE
    OBVIOUS
  <2>1. PICK r \in Requests : /\ pc[r] \in {"write", "remove"} /\ pc'[r] = "done"
                              /\ alone[r] /\ KeyOf(r) = KeyOf(s)
    BY <1>a, ApartSteps
  <2>2. AtWork(r) /\ r # s
    BY <1>a, <2>1 DEF AtWork
  <2> QED BY <2>1, <2>2 DEF AloneIsAlone
<1>3. AtWork(s) /\ alone[s] =>
        \A l \in Levels : level'[l][KeyOf(s)] \in {None, level[l][KeyOf(s)]}
  <2> SUFFICES ASSUME AtWork(s), alone[s], NEW l \in Levels
               PROVE  level'[l][KeyOf(s)] \in {None, level[l][KeyOf(s)]}
    OBVIOUS
  <2>1. ASSUME NEW r \in Requests, NEW m \in Levels, Wrote(r, m),
               level' = [level EXCEPT ![m][KeyOf(r)] = Written(r)]
        PROVE  level'[l][KeyOf(s)] = level[l][KeyOf(s)]
    <3>1. r # s /\ AtWork(r)
      BY <2>1 DEF Wrote, Untouched, AtWork
    <3>2. KeyOf(r) # KeyOf(s)
      BY <3>1 DEF AloneIsAlone
    <3> QED BY <1>a, <2>1, <3>2 DEF LevelTypes
  <2> QED BY <1>a, <2>1, LevelSteps DEF Shrinks
<1>4. AtWork(s) /\ ~apart[KeyOf(s)] => alone[s]
  BY DEF AloneIsAlone
<1> QED
  <2>1. UNCHANGED <<pc[s], req[s], res[s], at[s], pending[s], reported[s]>>
    BY DEF Untouched
  <2>2. pc'[s] = "write" /\ ~apart'[KeyOf(s)'] => reported'[s] = {}
    BY <1>a, <1>2, <2>1 DEF LevelsFor
  <2>3. pc'[s] = "write" /\ alone'[s] /\ reported'[s] = {} =>
          \A l \in Levels \ pending'[s] : level'[l][KeyOf(s)'] \in {None, req'[s].ver}
    BY <1>a, <1>1, <1>3, <2>1 DEF LevelsFor
  <2>4. AtWork(s)' /\ ~apart'[KeyOf(s)'] /\ res'[s].tag = "value" =>
          Hold(KeyOf(s), res[s].ver)'
    BY <1>a, <1>2, <1>3, <1>4, <2>1 DEF LevelsFor, Hold
  <2>5. pc'[s] \in {"fetch", "load", "await"} /\ ~apart'[KeyOf(s)'] =>
          Lack(KeyOf(s), at[s])'
    BY <1>a, <1>2, <1>3, <1>4, <2>1 DEF LevelsFor, Lack
  <2>6. pc'[s] = "remove" /\ alone'[s] /\ reported'[s] = {} =>
          Lack(KeyOf(s), at[s])'
    BY <1>a, <1>1, <1>3, <2>1 DEF LevelsFor, Lack
  <2> QED BY <2>2, <2>3, <2>4, <2>5, <2>6 DEF LevelsFor

\* Who is at work where nothing sets the levels apart finds that they agree.
LEMMA WorkersAgree ==
    ASSUME WorkIInv, AloneIsAlone, LevelsOK, NEW r \in Requests,
           AtWork(r), pc[r] # "write", ~apart[KeyOf(r)]
    PROVE  alone[r] /\ Agree(KeyOf(r))
<1>1. alone[r]
  BY DEF AloneIsAlone
<1>2. NoneWrites(KeyOf(r))
  BY <1>1 DEF AloneIsAlone, NoneWrites, AtWork
<1>3. KeyOf(r) \in Keys
  BY DEF WorkIInv, TypeOK, StepsInOrder, InOrder, AtWork
<1> QED BY <1>1, <1>2, <1>3 DEF LevelsOK

\* A request that moves knows what it should of the levels.
LEMMA MoverLevels ==
    ASSUME WorkIInv, AloneIsAlone, LevelsOK, [Next]_vars,
           NEW r \in Requests, Moves(r)
    PROVE  LevelsFor(r)'
<1>a. LevelTypes /\ KeysAndLevels /\ InOrder(r) /\ WorkTypes /\ DoneTypes
  BY TypeParts DEF WorkIInv, StepsInOrder, WorkTypes
<1>b. /\ LevelsFor(r) /\ pc[r] \in Steps /\ at[r] \in 1 .. Depth + 1
      /\ (AtWork(r) => KeyOf(r) \in Keys) /\ None \notin Keys
      /\ pc[r] \in {"fetch", "remove"} => at[r] \in Levels
      /\ Depth \in Nat \ {0} /\ apart \in [Keys -> BOOLEAN]
      /\ NoAnswer.tag = "none"
  BY <1>a, NoneAssumption, DepthAssumption
     DEF LevelsOK, KeysAndLevels, WorkTypes, DoneTypes, InOrder, AtWork, NoAnswer,
         Answer
<1>1. ASSUME NEW o \in Ops, NEW k \in Keys, Began(r, o, k) PROVE LevelsFor(r)'
  <2>1. /\ reported'[r] = {} /\ res'[r].tag = "none" /\ at'[r] = 1
        /\ pc'[r] = "write" => pending'[r] = Levels
    BY <1>1, <1>a, <1>b DEF Began, InOrder, Fresher
  <2>2. Lack(KeyOf(r), at[r])'
    BY <2>1 DEF Lack, Levels
  <2> QED BY <2>1, <2>2 DEF LevelsFor
<1>2. ASSUME NEW x \in Outcome, Answered(r, x) PROVE LevelsFor(r)'
  <2>1. /\ pc'[r] \in {"done", "writeBack"} /\ res'[r] = x /\ KeyOf(r)' = KeyOf(r)
        /\ UNCHANGED <<level, apart>> /\ AtWork(r)
    BY <1>2 DEF Answered, historyVars, KeyOf, AtWork
  <2>2. ASSUME ~apart[KeyOf(r)], x.tag = "value" PROVE Hold(KeyOf(r), x.ver)
    <3>1. Lack(KeyOf(r), at[r]) /\ Agree(KeyOf(r))
      BY <1>2, <1>b, <2>1, <2>2, WorkersAgree DEF LevelsFor, Answered
    <3>2. CASE pc[r] = "fetch"
      BY <1>2, <1>b, <3>1, <3>2 DEF Answered, Agree, Hold, Answer
    <3>3. CASE pc[r] \in {"load", "await"}
      BY <1>a, <1>b, <3>1, <3>3 DEF InOrder, Lack, Hold, Levels
    <3> QED BY <1>2, <3>2, <3>3 DEF Answered
  <2>3. ~apart'[KeyOf(r)'] /\ res'[r].tag = "value" => Hold(KeyOf(r), res[r].ver)'
    BY <2>1, <2>2 DEF Hold
  <2> QED BY <2>1, <2>3 DEF LevelsFor
<1>3. CASE PassedOver(r)
  <2>1. PICK e : Passes(r, e)
    BY <1>3 DEF PassedOver
  <2>2. /\ pc'[r] \in {"fetch", "load"} /\ res'[r].tag = "none" /\ UNCHANGED level
        /\ at'[r] = at[r] + 1 /\ KeyOf(r)' = KeyOf(r) /\ pc[r] = "fetch" /\ AtWork(r)
    BY <1>3, <1>a, <1>b, <2>1 DEF PassedOver, Passes, KeyOf, InOrder, Fresher, AtWork
  <2>3. ASSUME ~apart'[KeyOf(r)] PROVE Lack(KeyOf(r), at[r] + 1)
    <3>1. ~apart[KeyOf(r)] /\ level[at[r]][KeyOf(r)] = None
      BY <1>b, <2>1, <2>2, <2>3 DEF Passes
    <3>2. Lack(KeyOf(r), at[r])
      BY <1>b, <2>2, <3>1 DEF LevelsFor
    <3> QED BY <1>b, <3>1, <3>2 DEF Lack, Levels
  <2>4. ~apart'[KeyOf(r)'] => Lack(KeyOf(r), at[r])'
    BY <2>2, <2>3 DEF Lack
  <2> QED BY <2>2, <2>4 DEF LevelsFor
<1>4. CASE Called(r)
  <2>1. /\ pc'[r] = "await" /\ UNCHANGED <<res[r], at[r], level, apart>>
        /\ KeyOf(r)' = KeyOf(r) /\ pc[r] = "load"
    BY <1>4 DEF Called, Load, historyVars, writeVars, KeyOf
  <2>2. ~apart'[KeyOf(r)'] => Lack(KeyOf(r), at[r])'
    BY <1>b, <2>1 DEF LevelsFor, Lack
  <2>3. res'[r].tag = "none"
    BY <1>a, <1>b, <2>1 DEF InOrder, Fresher
  <2> QED BY <2>1, <2>2, <2>3 DEF LevelsFor
<1>5. ASSUME NEW l \in Levels, Wrote(r, l) PROVE LevelsFor(r)'
  <2>1. /\ UNCHANGED <<pc[r], req[r], res[r], alone>> /\ KeyOf(r)' = KeyOf(r)
        /\ pending[r] # {} /\ AtWork(r) /\ pending'[r] = pending[r] \ {l}
    BY <1>5 DEF Wrote, WriteLevel, KeyOf, AtWork
  <2>2. /\ pc[r] \in {"write", "writeBack", "done"}
        /\ pc[r] = "write" => req[r].op = "Set" /\ res[r].tag = "none"
        /\ pc[r] # "write" => req[r].op = "Get" /\ res[r].tag = "value"
    BY <1>a, <1>b, <2>1 DEF InOrder, IsGet, Steps
  <2> DEFINE after == [level EXCEPT ![l][KeyOf(r)] = Written(r)]
  <2>3. /\ level' \in {level, after}
        /\ \/ /\ level' = after
              /\ UNCHANGED <<reported, apart>>
           \/ /\ apart' = [apart EXCEPT ![KeyOf(r)] = @ \/ req[r].op = "Set"]
              /\ reported' = [reported EXCEPT ![r] =
                                IF req[r].op = "Set" /\ @ # {}
                                THEN @ ELSE @ \cup {l}]
    BY <1>5 DEF Wrote, WriteLevel
  <2>4. \A m \in Levels : after[m][KeyOf(r)] = IF m = l THEN Written(r)
                                              ELSE level[m][KeyOf(r)]
    BY <1>a, <1>b, <2>1 DEF LevelTypes
  <2>5. ~apart'[KeyOf(r)] => /\ ~apart[KeyOf(r)]
                             /\ req[r].op = "Set" => UNCHANGED reported
    BY <1>b, <2>1, <2>3
  <2>6. reported'[r] = {} => level' = after /\ reported[r] = {}
    <3> HIDE DEF after
    <3>1. ASSUME reported' = [reported EXCEPT ![r] = IF req[r].op = "Set" /\ @ # {}
                                                     THEN @ ELSE @ \cup {l}]
          PROVE  reported'[r] # {}
      BY <1>a, <3>1 DEF DoneTypes
    <3> QED BY <2>3, <3>1
  <2>7. pc'[r] = "write" /\ ~apart'[KeyOf(r)'] => reported'[r] = {}
    BY <1>b, <2>1, <2>2, <2>5 DEF LevelsFor
  <2>8. pc'[r] = "write" /\ alone'[r] /\ reported'[r] = {} =>
          \A m \in Levels \ pending'[r] : level'[m][KeyOf(r)'] \in {None, req'[r].ver}
    BY <1>b, <2>1, <2>2, <2>4, <2>6 DEF LevelsFor, Written
  <2>9. AtWork(r)' /\ ~apart'[KeyOf(r)'] /\ res'[r].tag = "value" =>
          Hold(KeyOf(r), res[r].ver)'
    BY <1>b, <2>1, <2>2, <2>3, <2>4, <2>5 DEF LevelsFor, Written, Hold
  <2> QED BY <2>1, <2>2, <2>7, <2>8, <2>9 DEF LevelsFor
<1>6. CASE Returned(r)
  BY <1>6, <1>a, <1>b DEF Returned, LevelsFor, AtWork
<1>7. CASE Ended(r)
  <2>1. /\ UNCHANGED <<pc[r], req[r], res[r], at[r], pending[r], reported[r]>>
        /\ UNCHANGED <<level, apart, alone>> /\ KeyOf(r)' = KeyOf(r)
        /\ AtWork(r)' = AtWork(r)
    BY <1>7 DEF Ended, AsyncEnds, historyVars, writeVars, KeyOf, AtWork
  <2> QED BY <1>b, <2>1 DEF LevelsFor, Hold, Lack
<1>8. CASE RemovedOne(r)
  <2>1. /\ pc[r] = "remove" /\ at'[r] = at[r] + 1 /\ KeyOf(r)' = KeyOf(r)
        /\ pc'[r] \in {"remove", "done"} /\ UNCHANGED alone
        /\ pending'[r] = pending[r]
        /\ pc'[r] = "remove" => UNCHANGED res[r]
    BY <1>8 DEF RemovedOne, Remove, KeyOf
  <2>2. res[r].tag = "none" /\ pending[r] = {}
    BY <1>a, <1>b, <2>1 DEF InOrder
  <2>3. ASSUME alone[r], reported'[r] = {} PROVE Lack(KeyOf(r), at[r])'
    <3>1. reported[r] = {} /\ level' = Removed(r, at[r])
      <4>1. PICK errors : /\ Removes(r, errors)
                          /\ \/ errors = {} /\ level' = Removed(r, at[r])
                             \/ errors = {at[r]}
        BY <1>8 DEF RemovedOne, Remove
      <4>2. reported'[r] = reported[r] \cup errors
        BY <1>a, <4>1 DEF Removes, DoneTypes
      <4> QED BY <2>3, <4>1, <4>2
    <3>2. Lack(KeyOf(r), at[r])
      BY <1>b, <2>1, <2>3, <3>1 DEF LevelsFor
    <3>3. \A m \in Levels : level'[m][KeyOf(r)] = IF m = at[r] THEN None
                            ELSE level[m][KeyOf(r)]
      <4>1. KeyOf(r) \in Keys
        BY <1>b, <2>1 DEF AtWork
      <4> QED BY <1>a, <3>1, <4>1 DEF LevelTypes, Removed
    <3> QED BY <1>b, <2>1, <3>2, <3>3 DEF Lack, Levels
  <2>4. AtWork(r)' => pc'[r] = "remove"
    BY <2>1, <2>2 DEF AtWork
  <2> QED BY <1>b, <2>1, <2>2, <2>3, <2>4 DEF LevelsFor
<1> QED BY <1>1, <1>2, <1>3, <1>4, <1>5, <1>6, <1>7, <1>8 DEF Moves

\* A Set, a Delete or a Clear that was alone and failed nowhere leaves the
\* levels agreed.
LEMMA AgreedAtLast ==
    ASSUME WorkIInv, AloneIsAlone, LevelsOK, [Next]_vars,
           NEW r \in Requests, alone[r], reported'[r] = {},
           pc[r] \in {"write", "remove"}, pc'[r] = "done", Moves(r)
    PROVE  /\ Agree(KeyOf(r))'
           /\ pc[r] = "remove" => \A l \in Levels : level'[l][KeyOf(r)] = None
<1>a. /\ LevelTypes /\ DoneTypes /\ InOrder(r) /\ LevelsFor(r) /\ KeyOf(r) \in Keys
      /\ at[r] \in 1 .. Depth + 1 /\ Depth \in Nat
  BY TypeParts, DepthAssumption
     DEF WorkIInv, StepsInOrder, WorkTypes, KeysAndLevels, LevelsOK
<1>1. CASE Returned(r)
  <2>1. /\ pc[r] = "write" /\ reported[r] = {} /\ pending[r] = {} /\ UNCHANGED level
    BY <1>1 DEF Returned, SetReturns, GetReturns, writeVars
  <2>2. \A l \in Levels : level[l][KeyOf(r)] \in {None, req[r].ver}
    BY <1>a, <2>1 DEF LevelsFor
  <2>3. KeyOf(r)' = KeyOf(r)
    BY <1>1 DEF Returned, KeyOf
  <2> QED BY <2>1, <2>2, <2>3 DEF Agree
<1>2. CASE RemovedOne(r)
  <2>1. /\ pc[r] = "remove" /\ at[r] = Depth /\ KeyOf(r)' = KeyOf(r)
    BY <1>2 DEF RemovedOne, KeyOf
  <2>2. LevelsFor(r) /\ reported[r] = {} /\ level' = Removed(r, at[r])
    <3>1. PICK errors : /\ Removes(r, errors)
                        /\ \/ errors = {} /\ level' = Removed(r, at[r])
                           \/ errors = {at[r]}
      BY <1>2 DEF RemovedOne, Remove
    <3>2. reported'[r] = reported[r] \cup errors
      BY <1>a, <3>1 DEF Removes, DoneTypes
    <3> QED BY <1>a, <3>1, <3>2
  <2>3. \A l \in Levels : level'[l][KeyOf(r)] = None
    <3>1. Lack(KeyOf(r), Depth)
      BY <2>1, <2>2 DEF LevelsFor
    <3>2. \A l \in Levels : level'[l][KeyOf(r)] = IF l = Depth THEN None
                            ELSE level[l][KeyOf(r)]
      BY <1>a, <2>1, <2>2 DEF LevelTypes, Removed
    <3> QED BY <1>a, <3>1, <3>2 DEF Lack, Levels
  <2> QED BY <2>1, <2>3 DEF Agree
<1>3. CASE \E l \in Levels : Wrote(r, l)
  BY <1>3 DEF Wrote
<1> QED
  BY <1>1, <1>2, <1>3 DEF Moves, Began, Answered, PassedOver, Called, Ended

LEMMA StepLevelsOK ==
    WorkIInv /\ AloneIsAlone /\ LevelsOK /\ [Next]_vars => LevelsOK'
<1> SUFFICES ASSUME WorkIInv, AloneIsAlone, LevelsOK, [Next]_vars PROVE LevelsOK'
  OBVIOUS
<1>1. \A r \in Requests : LevelsFor(r)'
  BY OthersLevels, MoverLevels, StepMoves
<1>2. ASSUME NEW k \in Keys, ~apart'[k], NoneWrites(k)' PROVE Agree(k)'
  <2>a. /\ LevelTypes /\ WorkTypes
        /\ \A r \in Requests : InOrder(r) /\ LevelsFor(r)
    BY TypeParts DEF WorkIInv, StepsInOrder, LevelsOK
  <2>1. CASE apart[k]
    <3>1. PICK r \in Requests :
            /\ SetReturns(r) \/ Remove(r)
            /\ pc[r] \in {"write", "remove"} /\ pc'[r] = "done"
            /\ alone[r] /\ reported'[r] = {} /\ KeyOf(r) = k
      BY <1>2, <2>1, ApartSteps
    <3>2. Moves(r)
      BY <3>1, StepMoves DEF Untouched
    <3>3. KeyOf(r)' = KeyOf(r)
      BY <3>1 DEF SetReturns, Remove, context, KeyOf
    <3>4. Agree(KeyOf(r))'
      BY <3>1, <3>2, AgreedAtLast
    <3> QED BY <3>1, <3>3, <3>4 DEF Agree
  <2>2. ASSUME ~apart[k], NEW r \in Requests, pc[r] = "write", KeyOf(r) = k
        PROVE  Agree(k)'
    <3>1. KeyOf(r)' = k => pc'[r] # "write"
      BY <1>2 DEF NoneWrites
    <3>2. Moves(r)
      BY <2>2, <3>1, StepMoves DEF Untouched, KeyOf
    <3>3. Returned(r)
      <4>1. ~ \E l \in Levels : Wrote(r, l)
        BY <2>2, <3>1 DEF Wrote, KeyOf
      <4> QED BY <2>2, <3>2, <4>1, <2>a
              DEF Moves, Began, Answered, PassedOver, Called, Ended, RemovedOne,
                  InOrder, NoAnswer, Answer
    <3>4. alone[r] /\ reported'[r] = {} /\ pc'[r] = "done"
      BY <2>2, <2>a, <3>3 DEF AloneIsAlone, AtWork, LevelsFor, Returned
    <3>5. KeyOf(r)' = k /\ Agree(KeyOf(r))'
      BY <2>2, <3>2, <3>3, <3>4, AgreedAtLast DEF Returned, KeyOf
    <3> QED BY <3>5 DEF Agree
  <2>3. CASE ~apart[k] /\ NoneWrites(k)
    <3>1. Agree(k)
      BY <1>2, <2>3 DEF LevelsOK
    <3>2. CASE Shrinks
      BY <1>2, <3>1, <3>2 DEF Shrinks, Agree
    <3>3. ASSUME NEW r \in Requests, NEW l \in Levels, Wrote(r, l),
                 level' = [level EXCEPT ![l][KeyOf(r)] = Written(r)]
          PROVE  Agree(k)'
      <4>1. CASE KeyOf(r) # k
        BY <2>a, <3>1, <3>3, <4>1 DEF LevelTypes, Agree
      <4>2. CASE KeyOf(r) = k
        <5>1. /\ pc[r] # "write" /\ pending[r] # {} /\ pc[r] \in Steps
          BY <2>a, <2>3, <3>3, <4>2 DEF NoneWrites, Wrote, WorkTypes
        <5>2. req[r].op = "Get" /\ res[r].tag = "value" /\ AtWork(r)
          BY <2>a, <5>1 DEF InOrder, IsGet, AtWork, Steps
        <5>3. Hold(k, res[r].ver)
          BY <2>a, <2>3, <4>2, <5>2 DEF LevelsFor
        <5> QED BY <1>2, <2>a, <3>3, <4>2, <5>2, <5>3
                DEF LevelTypes, Written, Hold, Agree
      <4> QED BY <4>1, <4>2
    <3> QED BY <3>2, <3>3, LevelSteps
  <2> QED BY <2>1, <2>2, <2>3 DEF NoneWrites
<1> QED BY <1>1, <1>2 DEF LevelsOK

LEMMA StepLevelsIInv == LevelsIInv /\ [Next]_vars => LevelsIInv'
  BY StepWorkIInv, StepAlone, StepLevelsOK DEF LevelsIInv

LEMMA InitLevels == Init => AloneIsAlone /\ LevelsOK
<1> SUFFICES ASSUME Init PROVE AloneIsAlone /\ LevelsOK
  OBVIOUS
<1>1. \A r \in Requests : ~AtWork(r) /\ pc[r] = "idle"
  BY DEF Init, AtWork
<1>2. \A k \in Keys : Agree(k)
  BY DEF Init, Agree
<1> QED BY <1>1, <1>2 DEF AloneIsAlone, LevelsOK, LevelsFor

\* The requests at work, what they know of the levels, and the levels.
THEOREM LevelsInvariance == Spec => []LevelsIInv
<1>1. Init => LevelsIInv
  BY InitWork, InitLevels DEF LevelsIInv
<1> QED BY <1>1, StepLevelsIInv, PTL DEF Spec

\* When all is quiet the levels that hold a key hold the same version of it,
\* unless requests for it have overlapped, a Set has failed at some level or a
\* Get has passed a failing level over, since the last Set or Delete without
\* either (multiCache.Set, Delete and the write-backs of Get).
THEOREM QuietLevelsAgree == Spec => []LevelsAgree
<1>1. LevelsIInv => LevelsAgree
  <2> SUFFICES ASSUME LevelsIInv, NEW k \in Keys, Quiet(k), ~apart[k]
               PROVE  Agree(k)
    BY DEF LevelsAgree, Agree
  <2> QED BY DEF Quiet, NoneWrites, LevelsIInv, LevelsOK
<1> QED BY <1>1, LevelsInvariance, PTL

-----------------------------------------------------------------------------
(***************************************************************************)
(* Data on its way                                                         *)
(***************************************************************************)

LEMMA DataTypes ==
    ASSUME WorkIInv
    PROVE  /\ source \in [Keys -> Versions] /\ absent \in [Keys -> SUBSET Versions]
           /\ floor \in [Keys -> Versions] /\ floorAt \in [Requests -> Versions]
           /\ LevelTypes /\ res \in [Requests -> Outcome]
           /\ \A r \in Requests : /\ req[r].ver \in Versions
                                  /\ pc[r] # "idle" => KeyOf(r) \in Keys
                                  /\ AtWork(r) => pc[r] # "idle"
                                  /\ pc[r] \in Steps
<1>1. WorkTypes /\ DoneTypes /\ KeysAndLevels /\ SourceTypeOK /\ LevelTypes
  BY TypeParts DEF WorkIInv, WorkTypes
<1>2. \A r \in Requests : AtWork(r) => pc[r] # "idle"
  BY DEF WorkIInv, StepsInOrder, InOrder, AtWork
<1> QED BY <1>1, <1>2
        DEF SourceTypeOK, WorkTypes, DoneTypes, KeysAndLevels, Request

\* What the source once said of a key stays said.
LEMMA SourceGrows ==
    ASSUME WorkIInv, [Next]_vars, NEW k \in Keys
    PROVE  /\ source[k] <= source'[k]
           /\ \A v \in Versions : v <= source[k] =>
                /\ v <= source'[k]
                /\ v \in absent'[k] <=> v \in absent[k]
<1>1. source \in [Keys -> Versions] /\ absent \in [Keys -> SUBSET Versions]
  BY DataTypes
<1>2. CASE \E j \in Keys : Update(j)
  BY <1>1, <1>2, VersionAssumption DEF Update, SourceUpdate, Versions
<1>3. CASE UNCHANGED sourceVars
  BY <1>1, <1>3, VersionAssumption DEF sourceVars, Versions
<1> QED BY <1>2, <1>3, SourceKept

\* A floor moves up to the source, when nothing is left of the key: no level
\* has it, nobody is at work on it and no loader runs for it.
LEMMA FloorMoves ==
    ASSUME LevelsIInv, FloorsBounded, [Next]_vars, NEW k \in Keys
    PROVE  /\ floor[k] <= floor'[k] /\ floor'[k] <= source'[k]
           /\ floor'[k] # floor[k] =>
                /\ \A l \in Levels : level'[l][k] = None
                /\ \A r \in Requests : KeyOf(r)' = k => ~AtWork(r)'
                /\ \A f \in Requests : Loader!InFlight(f)' => flight'[f].key # k
<1>a. /\ WorkIInv /\ AloneIsAlone /\ LevelsOK
      /\ source[k] \in Versions /\ floor[k] \in Versions /\ floor[k] <= source[k]
      /\ source[k] <= source'[k] /\ source'[k] \in Versions
      /\ floor \in [Keys -> Versions]
  <2>1. WorkIInv'
    BY StepWorkIInv DEF LevelsIInv
  <2>2. source' \in [Keys -> Versions]
    BY <2>1 DEF WorkIInv, TypeOK, SourceTypeOK
  <2> QED BY <2>2, DataTypes, SourceGrows DEF LevelsIInv, FloorsBounded
<1>1. ASSUME floor'[k] # floor[k]
      PROVE  \E r \in Requests :
               /\ RemovedOne(r) /\ KeyOf(r) = k /\ pc'[r] = "done"
               /\ alone[r] /\ reported'[r] = {} /\ floor'[k] = source[k]
               /\ \A s \in Requests \ {r} : Untouched(s)
  <2>1. ASSUME NEW r \in Requests,
               \/ \E o \in Ops, j \in Keys : Began(r, o, j)
               \/ \E x \in Outcome : Answered(r, x)
               \/ PassedOver(r) \/ Called(r) \/ Returned(r) \/ Ended(r)
               \/ \E l \in Levels : Wrote(r, l)
        PROVE  UNCHANGED floor
    BY <2>1 DEF Began, Begin, Answered, PassedOver, Passes, Called, Load, Returned,
                SetReturns, GetReturns, Ended, AsyncEnds, Wrote, WriteLevel,
                historyVars
  <2>2. ASSUME NEW r \in Requests, RemovedOne(r)
        PROVE  /\ KeyOf(r) = k /\ pc'[r] = "done" /\ alone[r] /\ reported'[r] = {}
               /\ floor'[k] = source[k]
    <3>1. ~(at[r] < Depth)
      BY <1>1, <2>2 DEF RemovedOne, Remove
    <3>2. /\ pc'[r] = "done"
          /\ floor' = [floor EXCEPT ![KeyOf(r)] =
                         IF alone[r] /\ reported'[r] = {} THEN source[KeyOf(r)] ELSE @]
      BY <2>2, <3>1 DEF RemovedOne, Remove
    <3> QED BY <1>1, <1>a, <3>2
  <2>3. PICK r \in Requests : Moves(r) /\ \A s \in Requests \ {r} : Untouched(s)
    BY <1>1, <1>a, StepMoves DEF historyVars, LevelsIInv
  <2>4. RemovedOne(r)
    BY <1>1, <2>1, <2>3 DEF Moves
  <2> QED BY <2>2, <2>3, <2>4
<1>2. ASSUME floor'[k] # floor[k]
      PROVE  /\ \A l \in Levels : level'[l][k] = None
             /\ \A r \in Requests : KeyOf(r)' = k => ~AtWork(r)'
             /\ \A f \in Requests : Loader!InFlight(f)' => flight'[f].key # k
             /\ floor'[k] = source[k]
  <2>1. PICK r \in Requests :
          /\ RemovedOne(r) /\ KeyOf(r) = k /\ pc'[r] = "done"
          /\ alone[r] /\ reported'[r] = {} /\ floor'[k] = source[k]
          /\ \A s \in Requests \ {r} : Untouched(s)
    BY <1>1, <1>2
  <2>2. pc[r] = "remove" /\ AtWork(r) /\ Moves(r) /\ UNCHANGED flight
    BY <2>1 DEF RemovedOne, Remove, AtWork, Moves, loaderVars
  <2>3. \A l \in Levels : level'[l][k] = None
    BY <1>a, <2>1, <2>2, AgreedAtLast
  <2>4. ASSUME NEW s \in Requests, KeyOf(s)' = k PROVE ~AtWork(s)'
    <3>1. CASE s = r
      <4>1. pending[r] = {} /\ pending'[r] = pending[r]
        BY <1>a, <2>1, <2>2 DEF WorkIInv, StepsInOrder, InOrder, RemovedOne
      <4> QED BY <2>1, <3>1, <4>1 DEF AtWork
    <3>2. CASE s # r
      <4>1. KeyOf(s) = k /\ AtWork(s)' = AtWork(s)
        BY <2>1, <2>4, <3>2 DEF Untouched, KeyOf, AtWork
      <4> QED BY <1>a, <2>1, <2>2, <3>2, <4>1 DEF AloneIsAlone
    <3> QED BY <3>1, <3>2
  <2>5. \A f \in Requests : Loader!InFlight(f)' => flight'[f].key # k
    BY <1>a, <2>1, <2>2 DEF AloneIsAlone, Loader!InFlight
  <2> QED BY <2>1, <2>3, <2>4, <2>5
<1> QED BY <1>a, <1>2, VersionAssumption DEF Versions

\* Every step keeps the floors below the source, and the floor at which a
\* request began below that of its key.
LEMMA StepFloors == LevelsIInv /\ FloorsBounded /\ [Next]_vars => FloorsBounded'
<1> SUFFICES ASSUME LevelsIInv, FloorsBounded, [Next]_vars PROVE FloorsBounded'
  OBVIOUS
<1>1. WorkIInv /\ WorkIInv'
  BY StepWorkIInv DEF LevelsIInv
<1>2. /\ floor \in [Keys -> Versions] /\ floorAt \in [Requests -> Versions]
      /\ floor' \in [Keys -> Versions] /\ floorAt' \in [Requests -> Versions]
      /\ \A r \in Requests : pc[r] # "idle" => KeyOf(r) \in Keys
  BY <1>1, DataTypes DEF WorkIInv, TypeOK
<1>3. ASSUME NEW s \in Requests, pc[s] # "idle", KeyOf(s)' = KeyOf(s),
             floorAt'[s] = floorAt[s]
      PROVE  floorAt'[s] <= floor'[KeyOf(s)']
  BY <1>2, <1>3, FloorMoves, VersionAssumption DEF FloorsBounded, Versions
<1>4. ASSUME NEW s \in Requests, pc'[s] # "idle"
      PROVE  floorAt'[s] <= floor'[KeyOf(s)']
  <2>1. CASE pc[s] = "idle"
    <3>1. PICK o \in Ops, k \in Keys : Began(s, o, k)
      BY <1>1, <1>4, <2>1, StepMoves
         DEF Untouched, Moves, Answered, PassedOver, Called, Wrote, Returned, Ended,
             RemovedOne
    <3>2. KeyOf(s)' = k /\ floorAt'[s] = floor[k]
      BY <3>1 DEF Began, KeyOf
    <3> QED BY <1>2, <3>1, <3>2, FloorMoves
  <2>2. CASE pc[s] # "idle"
    <3>1. KeyOf(s)' = KeyOf(s) /\ floorAt'[s] = floorAt[s]
      BY <1>1, <2>2, NobodyStarts DEF Began, Untouched, KeyOf
    <3> QED BY <1>3, <2>2, <3>1
  <2> QED BY <2>1, <2>2
<1> QED BY <1>4, FloorMoves DEF FloorsBounded

\* What the source answers is sound at that moment.
LEMMA SourceIsSound ==
    ASSUME WorkIInv, FloorsBounded, NEW k \in Keys, NEW x \in SourceReturns(k)
    PROVE  True(k, x) /\ Fresh(k, x)
<1>1. source[k] \in Versions /\ floor[k] \in Versions /\ floor[k] <= source[k]
  BY DataTypes DEF FloorsBounded
<1> QED BY <1>1, VersionAssumption
        DEF True, Fresh, SourceReturns, Current, Answer, Err, CtxErr, Versions

\* What a level holds has been written by somebody who had it from the source.
LEMMA StepLevelsSound == IInv /\ [Next]_vars => LevelsSound'
<1> SUFFICES ASSUME IInv, [Next]_vars, NEW l \in Levels, NEW k \in Keys,
                    level'[l][k] # None
             PROVE  Good(k, level[l][k])'
  BY DEF LevelsSound
<1>a. /\ LevelsIInv /\ WorkIInv /\ FloorsBounded /\ LevelsSound /\ AnswersSound
      /\ SetsSound /\ LevelTypes
  BY DataTypes DEF IInv, LevelsIInv, DataSound
<1>1. floor'[k] = floor[k]
  BY <1>a, FloorMoves
<1>2. ASSUME NEW v \in Versions, Good(k, v), level'[l][k] = v
      PROVE  Good(k, level[l][k])'
  BY <1>a, <1>1, <1>2, SourceGrows DEF Good
<1>3. ASSUME level'[l][k] = level[l][k] PROVE Good(k, level[l][k])'
  BY <1>2, <1>3, <1>a DEF LevelTypes, LevelsSound
<1>4. ASSUME NEW r \in Requests, NEW m \in Levels, Wrote(r, m),
             level' = [level EXCEPT ![m][KeyOf(r)] = Written(r)]
      PROVE  Good(k, level[l][k])'
  <2>1. CASE ~(l = m /\ k = KeyOf(r))
    BY <1>3, <1>4, <1>a, <2>1 DEF LevelTypes
  <2>2. CASE l = m /\ k = KeyOf(r)
    <3>1. level'[l][k] = Written(r)
      BY <1>4, <1>a, <2>2 DEF LevelTypes
    <3>2. Written(r) \in Versions
      BY <1>a, WrittenTypes, TypeParts DEF WorkIInv
    <3>3. /\ pending[r] # {} /\ AtWork(r) /\ pc[r] # "idle"
          /\ InOrder(r) /\ pc[r] \in Steps
      BY <1>4, <1>a, DataTypes DEF Wrote, AtWork, WorkIInv, StepsInOrder
    <3>4. CASE pc[r] = "write"
      BY <1>2, <1>a, <2>2, <3>1, <3>2, <3>3, <3>4 DEF SetsSound, InOrder, Written
    <3>5. CASE pc[r] # "write"
      <4>1. res[r].tag = "value" /\ Written(r) = res[r].ver
        BY <3>3, <3>5 DEF InOrder, IsGet, Steps, Written
      <4>2. Good(k, Written(r))
        BY <1>a, <2>2, <3>3, <4>1 DEF AnswersSound, True, Fresh, Good
      <4> QED BY <1>2, <3>1, <3>2, <4>2
    <3> QED BY <3>4, <3>5
  <2> QED BY <2>1, <2>2
<1>5. CASE Shrinks
  BY <1>3, <1>5 DEF Shrinks
<1> QED BY <1>4, <1>5, <1>a, LevelSteps

\* What a Set writes is what the source had when it began.
LEMMA StepSetsSound == IInv /\ [Next]_vars => SetsSound'
<1> SUFFICES ASSUME IInv, [Next]_vars, NEW r \in Requests, pc'[r] = "write"
             PROVE  Good(KeyOf(r), req[r].ver)'
  BY DEF SetsSound
<1>a. LevelsIInv /\ WorkIInv /\ FloorsBounded /\ SetsSound /\ AtWork(r)'
  BY DEF IInv, LevelsIInv, DataSound, AtWork
<1>1. ASSUME NEW k \in Keys, NEW v \in Versions, Good(k, v), KeyOf(r)' = k,
             req'[r].ver = v
      PROVE  Good(KeyOf(r), req[r].ver)'
  <2>1. floor'[k] = floor[k]
    BY <1>1, <1>a, FloorMoves
  <2> QED BY <1>1, <1>a, <2>1, SourceGrows DEF Good
<1>2. CASE pc[r] = "write" /\ UNCHANGED req[r]
  <2>1. KeyOf(r)' = KeyOf(r)
    BY <1>2 DEF KeyOf
  <2>2. Good(KeyOf(r), req[r].ver) /\ KeyOf(r) \in Keys /\ req[r].ver \in Versions
    BY <1>2, <1>a, DataTypes DEF SetsSound
  <2> QED BY <1>1, <1>2, <2>1, <2>2
<1>3. ASSUME NEW o \in Ops, NEW k \in Keys, Began(r, o, k)
      PROVE  Good(KeyOf(r), req[r].ver)'
  <2>1. o = "Set" /\ source[k] \notin absent[k]
    <3>1. o = "Set"
      BY <1>3 DEF Began
    <3> QED BY <1>3, <3>1 DEF Began, Begin
  <2>2. KeyOf(r)' = k /\ req'[r].ver = source[k] /\ source[k] \in Versions
    BY <1>3, <1>a, <2>1, DataTypes DEF Began, KeyOf
  <2>3. Good(k, source[k])
    BY <1>a, <2>1, <2>2, DataTypes, VersionAssumption DEF FloorsBounded, Good, Versions
  <2> QED BY <1>1, <2>2, <2>3
<1>4. (pc[r] = "write" /\ UNCHANGED req[r]) \/ \E o \in Ops, k \in Keys : Began(r, o, k)
  <2>1. CASE Untouched(r)
    BY <2>1 DEF Untouched
  <2>2. CASE (\E l \in Levels : Wrote(r, l)) \/ Ended(r)
    BY <2>2 DEF Wrote, Ended
  <2>3. CASE (\E x \in Outcome : Answered(r, x)) \/ PassedOver(r) \/ Called(r)
             \/ Returned(r) \/ RemovedOne(r)
    BY <2>3 DEF Answered, PassedOver, Called, Returned, RemovedOne
  <2> QED BY <1>a, <2>1, <2>2, <2>3, StepMoves DEF Moves
<1> QED BY <1>2, <1>3, <1>4

\* What a flight has got it has from the source.
LEMMA FlightResults ==
    ASSUME WorkIInv, [Next]_vars, NEW f \in Requests,
           flight'[f].st \in {"loaded", "done"}
    PROVE  \/ /\ flight[f].st \in {"loaded", "done"}
              /\ flight'[f].st = "loaded" => flight[f].st = "loaded"
              /\ UNCHANGED <<flight[f].key, flight[f].res>>
           \/ /\ flight'[f].st = "loaded" /\ flight[f].key \in Keys
              /\ UNCHANGED <<flight[f].key, sourceVars, floor>>
              /\ flight'[f].res \in SourceReturns(flight[f].key)
<1>a. flight \in [Requests -> Loader!Flight]
  BY DEF WorkIInv, TypeOK, Loader!TypeOK
<1>1. ASSUME NEW r \in Requests, Load(r) PROVE flight'[f] = flight[f]
  <2>1. \/ UNCHANGED flight
        \/ flight' = [flight EXCEPT ![r] = [st |-> "running", key |-> KeyOf(r),
                                           res |-> None]]
    BY <1>1 DEF Load, Loader!Join, Loader!Create
  <2> QED BY <1>1, <1>a, <2>1
<1>2. ASSUME NEW g \in Requests, LoaderStep(g)
      PROVE  \/ /\ flight[f].st \in {"loaded", "done"}
                /\ flight'[f].st = "loaded" => flight[f].st = "loaded"
                /\ UNCHANGED <<flight[f].key, flight[f].res>>
             \/ /\ flight'[f].st = "loaded" /\ flight[f].key \in Keys
                /\ UNCHANGED <<flight[f].key, sourceVars, floor>>
                /\ flight'[f].res \in SourceReturns(flight[f].key)
  <2>1. /\ flight[g].key \in Keys /\ UNCHANGED <<sourceVars, floor>>
    BY <1>2, FlightKeys DEF LoaderStep, context, historyVars
  <2>2. CASE Loader!Deliver(g)
    BY <1>a, <2>2 DEF Loader!Deliver, Loader!Flight
  <2>3. ASSUME NEW x \in SourceReturns(flight[g].key), Loader!Load(g, x)
        PROVE  \/ /\ f # g /\ flight'[f] = flight[f]
               \/ /\ f = g /\ flight'[f].st = "loaded" /\ flight'[f].res = x
                  /\ flight'[f].key = flight[f].key
    BY <1>a, <2>3 DEF Loader!Load, Loader!Flight
  <2> QED BY <1>2, <2>1, <2>2, <2>3 DEF LoaderStep
<1> QED BY <1>1, <1>2, FlightsKept

\* What a call waits for when its flight is over it has been waiting for.
LEMMA FlightsAwaited ==
    ASSUME WorkIInv, [Next]_vars, NEW r \in Requests, call'[r].st = "waiting",
           flight'[call'[r].on].st = "done"
    PROVE  /\ UNCHANGED <<call[r], pc[r], req[r]>> /\ pc[r] = "await"
           /\ call[r].st = "waiting" /\ call[r].on \in Requests
           /\ KeyOf(r) \in Keys /\ flight[call[r].on].key = KeyOf(r)
<1>1. WorkIInv' /\ pc'[r] = "await" /\ InOrder(r)
  BY StepWorkIInv DEF WorkIInv, CallsLinked, StepsInOrder
<1>2. ASSUME Called(r) PROVE FALSE
  <2>1. /\ call \in [Requests -> Loader!Call] /\ flight \in [Requests -> Loader!Flight]
        /\ KeyOf(r) \in Keys /\ pc[r] = "load"
    BY <1>2, DataTypes DEF Called, WorkIInv, TypeOK, Loader!TypeOK
  <2>2. CASE Loader!Join(r, KeyOf(r))
    <3>1. call'[r].on = group[KeyOf(r)] /\ group[KeyOf(r)] # None /\ UNCHANGED flight
      BY <2>1, <2>2 DEF Loader!Join, Loader!Calls
    <3> QED BY <2>1, <3>1 DEF WorkIInv, LoaderFlight!IInv, LoaderFlight!Registered,
                              LoaderFlight!InFlight
  <2>3. CASE Loader!Create(r, KeyOf(r))
    BY <2>1, <2>3 DEF Loader!Create, Loader!Calls
  <2> QED BY <1>2, <2>2, <2>3 DEF Called, Load
<1>3. UNCHANGED <<call[r], pc[r], req[r]>>
  <2>1. CASE Untouched(r)
    BY <2>1 DEF Untouched
  <2>2. CASE (\E l \in Levels : Wrote(r, l)) \/ Ended(r)
    BY <2>2 DEF Wrote, Ended
  <2>3. ~ \/ \E o \in Ops, k \in Keys : Began(r, o, k)
          \/ \E x \in Outcome : Answered(r, x)
          \/ PassedOver(r) \/ Returned(r) \/ RemovedOne(r)
    BY <1>1 DEF Began, Answered, PassedOver, Returned, RemovedOne
  <2> QED BY <1>2, <2>1, <2>2, <2>3, StepMoves DEF Moves
<1>4. call[r].st = "waiting" /\ pc[r] = "await" /\ call[r].key = KeyOf(r)
  BY <1>1, <1>3 DEF WorkIInv, CallsLinked
<1> QED BY <1>3, <1>4 DEF WorkIInv, LoaderFlight!IInv, LoaderFlight!CallsHaveFlights

\* What a loader has returned comes from the source, and what the flight hands
\* over is what the loader returned.
LEMMA StepFlightsSound == IInv /\ [Next]_vars => FlightsSound'
<1> SUFFICES ASSUME IInv, [Next]_vars PROVE FlightsSound'
  OBVIOUS
<1>a. /\ LevelsIInv /\ WorkIInv /\ FloorsBounded /\ FlightsSound
      /\ \A f \in Requests : flight[f].st \in {"loaded", "done"} =>
           flight[f].res.ver \in Versions
  <2>1. LevelsIInv /\ WorkIInv /\ FloorsBounded /\ FlightsSound
    BY DEF IInv, LevelsIInv, DataSound
  <2>2. \A f \in Requests : flight[f].st \in {"loaded", "done"} =>
          flight[f].res \in LoaderResults
    BY <2>1 DEF WorkIInv, LoaderFlight!IInv, LoaderFlight!FlightErrorHasCause
  <2> QED BY <2>1, <2>2, LoaderResultTypes
\* A result that has been there remains sound.
<1>1. ASSUME NEW k \in Keys, NEW f \in Requests,
             flight[f].st \in {"loaded", "done"},
             UNCHANGED flight[f].res, floor'[k] = floor[k],
             True(k, flight[f].res), Fresh(k, flight[f].res)
      PROVE  True(k, flight[f].res)' /\ Fresh(k, flight[f].res)'
  BY <1>1, <1>a, SourceGrows DEF True, Fresh
<1>2. ASSUME NEW f \in Requests, flight'[f].st = "loaded"
      PROVE  True(flight[f].key, flight[f].res)' /\ Fresh(flight[f].key, flight[f].res)'
  <2>1. CASE /\ flight[f].st = "loaded"
             /\ UNCHANGED <<flight[f].key, flight[f].res>>
    <3>1. flight[f].key \in Keys
      BY <1>a, <2>1, FlightKeys DEF Loader!InFlight
    <3>2. floor'[flight[f].key] = floor[flight[f].key]
      BY <1>2, <1>a, <2>1, <3>1, FloorMoves DEF Loader!InFlight
    <3>3. True(flight[f].key, flight[f].res) /\ Fresh(flight[f].key, flight[f].res)
      BY <1>a, <2>1 DEF FlightsSound
    <3> QED BY <1>1, <1>2, <1>a, <2>1, <3>1, <3>2, <3>3 DEF True, Fresh
  <2>2. CASE /\ flight[f].key \in Keys
             /\ UNCHANGED <<flight[f].key, sourceVars, floor>>
             /\ flight'[f].res \in SourceReturns(flight[f].key)
    <3>1. \A x \in SourceReturns(flight[f].key) :
            True(flight[f].key, x) /\ Fresh(flight[f].key, x)
      BY <1>a, <2>2, SourceIsSound
    <3> QED BY <2>2, <3>1 DEF True, Fresh, sourceVars
  <2> QED BY <1>2, <1>a, <2>1, <2>2, FlightResults
<1>3. ASSUME NEW r \in Requests, call'[r].st = "waiting",
             flight'[call'[r].on].st = "done"
      PROVE  /\ True(KeyOf(r), flight[call[r].on].res)'
             /\ Fresh(KeyOf(r), flight[call[r].on].res)'
  <2> DEFINE f == call[r].on
             k == KeyOf(r)
  <2>1. /\ UNCHANGED <<call[r], pc[r], req[r]>> /\ pc[r] = "await"
        /\ call[r].st = "waiting" /\ f \in Requests
        /\ k \in Keys /\ flight[f].key = k /\ KeyOf(r)' = k
    BY <1>3, <1>a, FlightsAwaited DEF KeyOf
  <2>2. /\ flight[f].st \in {"loaded", "done"} /\ UNCHANGED flight[f].res
    BY <1>3, <1>a, <2>1, FlightResults
  <2>3. True(k, flight[f].res) /\ Fresh(k, flight[f].res)
    BY <1>a, <2>1, <2>2 DEF FlightsSound
  <2>4. floor'[k] = floor[k]
    BY <1>a, <2>1, FloorMoves DEF AtWork
  <2>5. flight'[f].res = flight[f].res /\ call'[r].on = f
    BY <2>1, <2>2
  <2> QED BY <1>1, <1>a, <2>1, <2>2, <2>3, <2>4, <2>5 DEF True, Fresh
<1> QED BY <1>2, <1>3 DEF FlightsSound

\* What a Get gets, from a level, a flight or the user's loader, is sound.
LEMMA AnswersComeSound ==
    ASSUME IInv, NEW r \in Requests, NEW x \in Outcome, Answered(r, x)
    PROVE  True(KeyOf(r), x) /\ Fresh(KeyOf(r), x)
<1>a. /\ WorkIInv /\ FloorsBounded /\ LevelsSound /\ FlightsSound
      /\ pc[r] \in {"fetch", "load", "await"}
  BY DEF IInv, LevelsIInv, DataSound, Answered
<1>b. KeyOf(r) \in Keys /\ (pc[r] = "fetch" => at[r] \in Levels)
  BY <1>a, DataTypes DEF WorkIInv, TypeOK
<1>c. /\ Answer("panic", 0).tag = "panic" /\ CtxErr.tag = "ctx"
      /\ \A v : Answer("value", v).tag = "value" /\ Answer("value", v).ver = v
  BY DEF Answer, CtxErr
<1>1. CASE pc[r] = "fetch"
  BY <1>1, <1>a, <1>b, <1>c DEF Answered, LevelsSound, Good, True, Fresh
<1>2. CASE pc[r] = "load"
  <2>1. x \in SourceReturns(KeyOf(r)) \/ x.tag = "panic"
    BY <1>2, <1>c DEF Answered
  <2>2. x.tag = "panic" => True(KeyOf(r), x) /\ Fresh(KeyOf(r), x)
    BY DEF True, Fresh
  <2> QED BY <1>a, <1>b, <2>1, <2>2, SourceIsSound
<1>3. CASE pc[r] = "await"
  <2>1. x.tag = "ctx" \/ (flight[call[r].on].st = "done" /\ x = flight[call[r].on].res)
    BY <1>3, <1>c DEF Answered
  <2>2. call[r].st = "waiting"
    BY <1>3, <1>a DEF WorkIInv, CallsLinked
  <2> QED BY <1>a, <2>1, <2>2 DEF FlightsSound, True, Fresh
<1> QED BY <1>a, <1>1, <1>2, <1>3

\* An answer is true, and fresh as long as it may be written to a level.
LEMMA StepAnswersSound == IInv /\ [Next]_vars => AnswersSound'
<1> SUFFICES ASSUME IInv, [Next]_vars, NEW r \in Requests, pc'[r] # "idle"
             PROVE  /\ True(KeyOf(r), res[r])'
                    /\ AtWork(r)' => Fresh(KeyOf(r), res[r])'
                    /\ res'[r].tag = "value" => res'[r].ver >= floorAt'[r]
  BY DEF AnswersSound
<1>a. /\ LevelsIInv /\ WorkIInv /\ FloorsBounded /\ AnswersSound
      /\ res[r] \in Outcome /\ InOrder(r)
  BY DataTypes DEF IInv, LevelsIInv, DataSound, WorkIInv, StepsInOrder
<1>b. Err.tag = "err" /\ NoAnswer.tag = "none" /\ Answer("ok", 0).tag = "ok"
  BY DEF Err, NoAnswer, Answer
\* An answer that is neither a value nor a not-found claims nothing.
<1>1. ASSUME res'[r].tag \notin {"value", "notfound"}
      PROVE  /\ True(KeyOf(r), res[r])'
             /\ AtWork(r)' => Fresh(KeyOf(r), res[r])'
             /\ res'[r].tag = "value" => res'[r].ver >= floorAt'[r]
  BY <1>1 DEF True, Fresh
\* What is sound when the step is made remains so.
<1>2. ASSUME pc[r] # "idle", KeyOf(r)' = KeyOf(r), UNCHANGED floorAt[r],
             NEW x \in Outcome, res'[r] = x, True(KeyOf(r), x),
             AtWork(r)' => Fresh(KeyOf(r), x),
             x.tag = "value" => x.ver >= floorAt[r]
      PROVE  /\ True(KeyOf(r), res[r])'
             /\ AtWork(r)' => Fresh(KeyOf(r), res[r])'
             /\ res'[r].tag = "value" => res'[r].ver >= floorAt'[r]
  <2>1. KeyOf(r) \in Keys /\ x.ver \in Versions
    BY <1>2, <1>a, DataTypes DEF Outcome
  <2>2. AtWork(r)' => floor'[KeyOf(r)] = floor[KeyOf(r)]
    BY <1>2, <1>a, <2>1, FloorMoves
  <2> QED BY <1>2, <1>a, <2>1, <2>2, SourceGrows DEF True, Fresh
<1>3. ASSUME pc[r] # "idle", KeyOf(r)' = KeyOf(r), UNCHANGED <<floorAt[r], res[r]>>,
             AtWork(r)' => AtWork(r)
      PROVE  /\ True(KeyOf(r), res[r])'
             /\ AtWork(r)' => Fresh(KeyOf(r), res[r])'
             /\ res'[r].tag = "value" => res'[r].ver >= floorAt'[r]
  BY <1>2, <1>3, <1>a DEF AnswersSound
<1>4. CASE Untouched(r)
  BY <1>3, <1>4 DEF Untouched, KeyOf, AtWork
<1>5. ASSUME NEW o \in Ops, NEW k \in Keys, Began(r, o, k)
      PROVE  res'[r].tag \notin {"value", "notfound"}
  BY <1>5, <1>a, <1>b DEF Began, InOrder, Fresher
<1>6. ASSUME NEW x \in Outcome, Answered(r, x)
      PROVE  /\ True(KeyOf(r), res[r])'
             /\ AtWork(r)' => Fresh(KeyOf(r), res[r])'
             /\ res'[r].tag = "value" => res'[r].ver >= floorAt'[r]
  <2>1. /\ pc[r] # "idle" /\ KeyOf(r)' = KeyOf(r) /\ UNCHANGED floorAt[r]
        /\ res'[r] = x
    BY <1>6 DEF Answered, KeyOf
  <2>2. True(KeyOf(r), x) /\ Fresh(KeyOf(r), x)
    BY <1>6, AnswersComeSound
  <2>3. /\ floorAt[r] <= floor[KeyOf(r)] /\ x.ver \in Versions
        /\ floorAt[r] \in Versions /\ floor[KeyOf(r)] \in Versions
    BY <1>a, <2>1, DataTypes DEF FloorsBounded, Outcome
  <2>4. x.tag = "value" => x.ver >= floorAt[r]
    BY <2>2, <2>3, VersionAssumption DEF Fresh, Versions
  <2> QED BY <1>2, <2>1, <2>2, <2>4
<1>7. CASE PassedOver(r) \/ Called(r) \/ Ended(r) \/ \E l \in Levels : Wrote(r, l)
  <2>1. /\ pc'[r] # "idle" /\ UNCHANGED <<req[r], floorAt[r], res[r]>>
        /\ AtWork(r)' => AtWork(r)
    BY <1>7 DEF PassedOver, Called, Ended, Wrote, AtWork
  <2>2. pc[r] # "idle"
    BY <1>7, <1>a, <1>b DEF PassedOver, Called, Ended, Wrote, InOrder, Fresher
  <2> QED BY <1>3, <2>1, <2>2 DEF KeyOf
<1>8. CASE Returned(r) \/ RemovedOne(r)
  <2>1. /\ res'[r] = res[r] \/ res'[r].tag \in {"ok", "err"}
        /\ pc[r] # "idle" /\ AtWork(r) /\ UNCHANGED <<req[r], floorAt[r]>>
    BY <1>8, <1>b DEF Returned, RemovedOne, AtWork
  <2> QED BY <1>1, <1>3, <2>1 DEF KeyOf
<1> QED BY <1>1, <1>4, <1>5, <1>6, <1>7, <1>8, <1>a, StepMoves DEF Moves

LEMMA InitData == Init => DataSound
<1> SUFFICES ASSUME Init PROVE DataSound
  OBVIOUS
<1>1. FloorsBounded
  BY DEF Init, SourceInit, FloorsBounded
<1>2. LevelsSound
  BY DEF Init, LevelsSound
<1>3. FlightsSound
  BY DEF Init, Loader!Init, FlightsSound
<1>4. AnswersSound /\ SetsSound
  BY DEF Init, AnswersSound, SetsSound
<1> QED BY <1>1, <1>2, <1>3, <1>4 DEF DataSound

LEMMA StepIInv == IInv /\ [Next]_vars => IInv'
<1> SUFFICES ASSUME IInv, [Next]_vars PROVE IInv'
  OBVIOUS
<1>1. LevelsIInv'
  BY StepLevelsIInv DEF IInv
<1>2. FloorsBounded'
  BY StepFloors DEF IInv, DataSound
<1> QED BY <1>1, <1>2, StepLevelsSound, StepFlightsSound, StepAnswersSound,
           StepSetsSound DEF IInv, DataSound

\* Data is sound wherever it is: in the levels, in the flights of the loader,
\* with the requests that have got it and with the Sets that bring it.
THEOREM DataInvariance == Spec => []IInv
<1>1. Init => IInv
  BY InitWork, InitLevels, InitData DEF LevelsIInv, IInv
<1> QED BY <1>1, StepIInv, PTL DEF Spec

\* What a Get returns and what a level holds was once true of the source
\* (FetchPolicySequential, FetchByLoader, the write-backs and multiCache.Set).
THEOREM AnswersAreTrue == Spec => []AnswersTrue
<1>1. IInv => AnswersTrue
  <2> SUFFICES ASSUME IInv PROVE AnswersTrue
    OBVIOUS
  <2>1. LevelsSound /\ AnswersSound
    BY DEF IInv, DataSound
  <2> QED BY <2>1 DEF AnswersTrue, LevelsSound, Good, AnswersSound, True
<1> QED BY <1>1, DataInvariance, PTL

\* A Delete that nothing overlaps and that returns no error invalidates its
\* key for good: no level holds and no later Get returns what is older than
\* the source was then, in spite of write-backs from one level to another
\* (multiCache.Delete).
THEOREM DeletionIsEffective == Spec => []FreshAfterDelete
<1>1. IInv => FreshAfterDelete
  <2> SUFFICES ASSUME IInv PROVE FreshAfterDelete
    OBVIOUS
  <2>1. LevelsSound /\ AnswersSound /\ WorkIInv /\ NoAnswer.tag = "none"
    BY DEF IInv, DataSound, LevelsIInv, NoAnswer, Answer
  <2>2. \A r \in Requests : pc[r] = "idle" => res[r].tag = "none"
    BY <2>1 DEF WorkIInv, StepsInOrder, InOrder, Fresher
  <2> QED BY <2>1, <2>2 DEF FreshAfterDelete, LevelsSound, Good, AnswersSound
<1> QED BY <1>1, DataInvariance, PTL
=============================================================================
