------------------------- MODULE SingleCache_proofs -------------------------
(***************************************************************************)
(* Theorems about SingleCache, for any number of requests and keys, any    *)
(* set of builds and any number of versions.  The chain uses each of its   *)
(* loaders as LoaderFlight says, so that what LoaderFlight_proofs proves   *)
(* holds for both; the rest of the invariant is about the chain itself.    *)
(***************************************************************************)
EXTENDS SingleCache, TLAPS

MissFlight == INSTANCE LoaderFlight_proofs
                WITH Results <- LoaderResults, group <- missGroup,
                     flight <- missFlight, call <- missCall
RefreshFlight == INSTANCE LoaderFlight_proofs
                   WITH Results <- LoaderResults, group <- refreshGroup,
                        flight <- refreshFlight, call <- refreshCall

-----------------------------------------------------------------------------
(***************************************************************************)
(* The two loaders                                                         *)
(***************************************************************************)

\* A loader may return a context error.
LEMMA CtxErrIsResult == CtxErr \in LoaderResults
  BY DEF LoaderResults

\* The miss loader is an instance of what LoaderFlight_proofs is about.
LEMMA MissIsFlight ==
    /\ Miss!Init <=> MissFlight!Init
    /\ Miss!TypeOK <=> MissFlight!TypeOK
    /\ [Miss!Next]_(Miss!vars) <=> [MissFlight!Next]_(MissFlight!vars)
<1>1. Miss!Init <=> MissFlight!Init
  BY DEF Miss!Init, MissFlight!Init
<1>2. Miss!TypeOK <=> MissFlight!TypeOK
  BY DEF Miss!TypeOK, Miss!Flight, Miss!Call,
         MissFlight!TypeOK, MissFlight!Flight, MissFlight!Call
<1>3. Miss!Step <=> MissFlight!Step
  BY DEF Miss!Step, Miss!Join, Miss!Create, Miss!Load, Miss!Deliver,
         Miss!Receive, Miss!GiveUp, Miss!Calls, Miss!Returns,
         MissFlight!Step, MissFlight!Join, MissFlight!Create,
         MissFlight!Load, MissFlight!Deliver, MissFlight!Receive,
         MissFlight!GiveUp, MissFlight!Calls, MissFlight!Returns
<1>4. [Miss!Next]_(Miss!vars) <=> [MissFlight!Next]_(MissFlight!vars)
  BY <1>3
     DEF Miss!Next, Miss!Cancel, Miss!Finished, Miss!InFlight,
         Miss!flightVars, Miss!vars,
         MissFlight!Next, MissFlight!Cancel, MissFlight!Finished,
         MissFlight!InFlight, MissFlight!flightVars, MissFlight!vars
<1> QED BY <1>1, <1>2, <1>4

\* So is the logic-expire loader.
LEMMA RefreshIsFlight ==
    /\ Refresh!Init <=> RefreshFlight!Init
    /\ Refresh!TypeOK <=> RefreshFlight!TypeOK
    /\ [Refresh!Next]_(Refresh!vars) <=>
         [RefreshFlight!Next]_(RefreshFlight!vars)
<1>1. Refresh!Init <=> RefreshFlight!Init
  BY DEF Refresh!Init, RefreshFlight!Init
<1>2. Refresh!TypeOK <=> RefreshFlight!TypeOK
  BY DEF Refresh!TypeOK, Refresh!Flight, Refresh!Call,
         RefreshFlight!TypeOK, RefreshFlight!Flight, RefreshFlight!Call
<1>3. Refresh!Step <=> RefreshFlight!Step
  BY DEF Refresh!Step, Refresh!Join, Refresh!Create, Refresh!Load,
         Refresh!Deliver, Refresh!Receive, Refresh!GiveUp, Refresh!Calls,
         Refresh!Returns,
         RefreshFlight!Step, RefreshFlight!Join, RefreshFlight!Create,
         RefreshFlight!Load, RefreshFlight!Deliver, RefreshFlight!Receive,
         RefreshFlight!GiveUp, RefreshFlight!Calls, RefreshFlight!Returns
<1>4. [Refresh!Next]_(Refresh!vars) <=>
        [RefreshFlight!Next]_(RefreshFlight!vars)
  BY <1>3
     DEF Refresh!Next, Refresh!Cancel, Refresh!Finished, Refresh!InFlight,
         Refresh!flightVars, Refresh!vars,
         RefreshFlight!Next, RefreshFlight!Cancel, RefreshFlight!Finished,
         RefreshFlight!InFlight, RefreshFlight!flightVars, RefreshFlight!vars
<1> QED BY <1>1, <1>2, <1>4

-----------------------------------------------------------------------------
(***************************************************************************)
(* The inductive invariant                                                 *)
(***************************************************************************)

\* Both loaders are in a state that LoaderFlight can reach.
FlightsOK == MissFlight!IInv /\ RefreshFlight!IInv

\* A read inside a chain with merged reads is the one the group registers;
\* without merged reads there is no group.
LeadersLead ==
    /\ Has("singleflight") =>
         \A r \in Requests : InChain(r) => leader[KeyOf(r)] = r
    /\ ~Has("singleflight") => \A k \in Keys : leader[k] = None

\* An entry is replaced only by what a reload returned.
RewritesHaveResults ==
    \A r \in Requests : pc[r] = "rewrite" => refreshCall[r].st = "returned"

\* A read that has data is past the point where it could lose it.
HitsAreAnswers ==
    \A r \in Requests : IsHit(res[r]) =>
        pc[r] \in {"writeBack", "refresh", "awaitRefresh", "rewrite", "leave",
                  "done"}

IInv ==
    /\ TypeOK
    /\ FlightsOK
    /\ LeadersLead
    /\ RewritesHaveResults
    /\ HitsAreAnswers

\* The source answers with what a loader can return.
LEMMA SourceReturnsResults ==
    ASSUME SourceTypeOK, NEW k \in Keys
    PROVE  SourceReturns(k) \subseteq LoaderResults
  BY DEF SourceTypeOK, SourceReturns, Current, LoaderResults

\* A flight in progress is for a key.
LEMMA FlightKeys ==
    ASSUME FlightsOK, NEW f \in Requests
    PROVE  /\ Miss!InFlight(f) => missFlight[f].key \in Keys
           /\ Refresh!InFlight(f) => refreshFlight[f].key \in Keys
  BY DEF FlightsOK, MissFlight!IInv, MissFlight!Registered,
         MissFlight!InFlight, Miss!InFlight,
         RefreshFlight!IInv, RefreshFlight!Registered,
         RefreshFlight!InFlight, Refresh!InFlight

\* Every step of the cache is a step of the miss loader or leaves it alone.
LEMMA MissSteps == IInv /\ [Next]_vars => [Miss!Next]_(Miss!vars)
<1> SUFFICES ASSUME IInv, Next PROVE [Miss!Next]_(Miss!vars)
  BY DEF vars, missVars, Miss!vars
<1> USE DEF Miss!vars, missVars, context
<1>1. ASSUME NEW r \in Requests, Begin(r)
      PROVE  UNCHANGED Miss!vars
  BY <1>1 DEF Begin, Lead, Follow, BeginWrite, Begins
<1>2. ASSUME NEW r \in Requests, Load(r)
      PROVE  Miss!Next
  <2>1. KeyOf(r) \in Keys
    BY <1>2 DEF Load, IInv, TypeOK, MayBeAt
  <2> QED BY <1>2, <2>1 DEF Load, Miss!Next, Miss!Step
<1>3. ASSUME NEW r \in Requests, Loaded(r)
      PROVE  Miss!Next
  BY <1>3 DEF Loaded, Miss!Next, Miss!Step
<1>4. ASSUME NEW r \in Requests,
             Read(r) \/ WriteBack(r) \/ Protect(r) \/ Reload(r)
               \/ Reloaded(r) \/ Rewrite(r) \/ Leave(r) \/ Share(r) \/ Write(r)
      PROVE  UNCHANGED Miss!vars
  BY <1>4 DEF Read, WriteBack, Protect, Reload, Reloaded, Rewrite, Leave,
              Share, Write
<1>5. ASSUME NEW r \in Requests, Cancel(r)
      PROVE  Miss!Next
  BY <1>5 DEF Cancel, Miss!Next, Miss!Cancel, Miss!flightVars
<1>6. ASSUME NEW f \in Requests, MissLoader(f)
      PROVE  Miss!Next
  <2>1. SourceReturns(missFlight[f].key) \subseteq LoaderResults
    BY <1>6, FlightKeys, SourceReturnsResults DEF MissLoader, IInv, TypeOK
  <2> QED BY <1>6, <2>1 DEF MissLoader, Miss!Next, Miss!Step
<1>7. ASSUME NEW f \in Requests, RefreshLoader(f)
      PROVE  UNCHANGED Miss!vars
  BY <1>7 DEF RefreshLoader
<1>8. ASSUME NEW k \in Keys, Update(k) \/ Age(k)
      PROVE  UNCHANGED Miss!vars
  BY <1>8 DEF Update, Age
<1>9. CASE Finished
  BY <1>9 DEF Finished, vars
<1> QED
  BY <1>1, <1>2, <1>3, <1>4, <1>5, <1>6, <1>7, <1>8, <1>9 DEF Next, Proceed

\* And of the logic-expire loader.
LEMMA RefreshSteps == IInv /\ [Next]_vars => [Refresh!Next]_(Refresh!vars)
<1> SUFFICES ASSUME IInv, Next PROVE [Refresh!Next]_(Refresh!vars)
  BY DEF vars, refreshVars, Refresh!vars
<1> USE DEF Refresh!vars, refreshVars, context
<1>1. ASSUME NEW r \in Requests, Begin(r)
      PROVE  UNCHANGED Refresh!vars
  BY <1>1 DEF Begin, Lead, Follow, BeginWrite, Begins
<1>2. ASSUME NEW r \in Requests, Reload(r)
      PROVE  Refresh!Next
  <2>1. KeyOf(r) \in Keys
    BY <1>2 DEF Reload, IInv, TypeOK, MayBeAt
  <2> QED BY <1>2, <2>1 DEF Reload, Refresh!Next, Refresh!Step
<1>3. ASSUME NEW r \in Requests, Reloaded(r)
      PROVE  Refresh!Next
  BY <1>3 DEF Reloaded, Refresh!Next, Refresh!Step
<1>4. ASSUME NEW r \in Requests,
             Read(r) \/ Load(r) \/ Loaded(r) \/ WriteBack(r) \/ Protect(r)
               \/ Rewrite(r) \/ Leave(r) \/ Share(r) \/ Write(r)
      PROVE  UNCHANGED Refresh!vars
  BY <1>4 DEF Read, Load, Loaded, WriteBack, Protect, Rewrite, Leave, Share,
              Write
<1>5. ASSUME NEW r \in Requests, Cancel(r)
      PROVE  Refresh!Next
  BY <1>5 DEF Cancel, Refresh!Next, Refresh!Cancel, Refresh!flightVars
<1>6. ASSUME NEW f \in Requests, RefreshLoader(f)
      PROVE  Refresh!Next
  <2>1. SourceReturns(refreshFlight[f].key) \subseteq LoaderResults
    BY <1>6, FlightKeys, SourceReturnsResults DEF RefreshLoader, IInv, TypeOK
  <2> QED BY <1>6, <2>1 DEF RefreshLoader, Refresh!Next, Refresh!Step
<1>7. ASSUME NEW f \in Requests, MissLoader(f)
      PROVE  UNCHANGED Refresh!vars
  BY <1>7 DEF MissLoader
<1>8. ASSUME NEW k \in Keys, Update(k) \/ Age(k)
      PROVE  UNCHANGED Refresh!vars
  BY <1>8 DEF Update, Age
<1>9. CASE Finished
  BY <1>9 DEF Finished, vars
<1> QED
  BY <1>1, <1>2, <1>3, <1>4, <1>5, <1>6, <1>7, <1>8, <1>9 DEF Next, Proceed

\* Both loaders stay in states that LoaderFlight can reach.
LEMMA StepFlights == IInv /\ [Next]_vars => FlightsOK' /\ Miss!TypeOK' /\ Refresh!TypeOK'
<1> SUFFICES ASSUME IInv, [Next]_vars
             PROVE  FlightsOK' /\ Miss!TypeOK' /\ Refresh!TypeOK'
  OBVIOUS
<1>1. MissFlight!IInv'
  BY MissSteps, MissIsFlight, MissFlight!StepIInv, NoneAssumption,
     CtxErrIsResult DEF IInv, FlightsOK
<1>2. RefreshFlight!IInv'
  BY RefreshSteps, RefreshIsFlight, RefreshFlight!StepIInv, NoneAssumption,
     CtxErrIsResult DEF IInv, FlightsOK
<1>3. Miss!TypeOK'
  <2>1. MissFlight!TypeOK'
    BY <1>1 DEF MissFlight!IInv
  <2> QED BY <2>1 DEF Miss!TypeOK, Miss!Flight, Miss!Call,
         MissFlight!TypeOK, MissFlight!Flight, MissFlight!Call
<1>4. Refresh!TypeOK'
  <2>1. RefreshFlight!TypeOK'
    BY <1>2 DEF RefreshFlight!IInv
  <2> QED BY <2>1 DEF Refresh!TypeOK, Refresh!Flight, Refresh!Call,
         RefreshFlight!TypeOK, RefreshFlight!Flight, RefreshFlight!Call
<1> QED BY <1>1, <1>2, <1>3, <1>4 DEF FlightsOK

-----------------------------------------------------------------------------
(***************************************************************************)
(* Types                                                                   *)
(***************************************************************************)

\* The constant answers and entries have their types.
LEMMA AnswerTypes ==
    /\ 0 \in Versions
    /\ \A t \in Tags, v \in Versions : Answer(t, v) \in Outcome
    /\ LoaderResults \subseteq Outcome
    /\ NoAnswer \in Outcome /\ Err \in Outcome /\ CtxErr \in Outcome
<1>1. 0 \in Versions
  BY VersionAssumption DEF Versions
<1>2. \A t \in Tags, v \in Versions : Answer(t, v) \in Outcome
  BY DEF Answer, Outcome
<1>3. NoAnswer \in Outcome /\ Err \in Outcome /\ CtxErr \in Outcome
  BY <1>1, <1>2 DEF NoAnswer, Err, CtxErr, Tags
<1>4. LoaderResults \subseteq Outcome
  BY <1>2, <1>3 DEF LoaderResults, Tags
<1> QED BY <1>1, <1>2, <1>3, <1>4

\* A request that goes on at a step of its build keeps the types.
LEMMA GoesTypes ==
    ASSUME TypeOK, NEW r \in Requests, NEW p \in Steps, NEW x \in Outcome,
           Goes(r, p, x), MayBeAt(r, p), UNCHANGED <<features, req, joined>>
    PROVE  /\ pc' \in [Requests -> Steps]
           /\ res' \in [Requests -> Outcome]
           /\ \A s \in Requests : MayBeAt(s, pc[s])'
<1>1. pc' \in [Requests -> Steps] /\ res' \in [Requests -> Outcome]
  BY DEF TypeOK, Goes
<1>2. ASSUME NEW s \in Requests PROVE MayBeAt(s, pc[s])'
  <2>1. CASE s = r
    BY <2>1 DEF TypeOK, Goes, MayBeAt, KeyOf, Has
  <2>2. CASE s # r
    <3>1. pc'[s] = pc[s] /\ MayBeAt(s, pc[s])
      BY <2>2 DEF TypeOK, Goes
    <3> QED BY <3>1 DEF MayBeAt, KeyOf, Has
  <2> QED BY <2>1, <2>2
<1> QED BY <1>1, <1>2

\* What a decorator makes of an answer is a step of the build.
LEMMA StageTypes ==
    ASSUME NEW r \in Requests, NEW x \in Outcome,
           req[r].op \in Ops, KeyOf(r) \in Keys
    PROVE  /\ NilCacheGet(x).pc \in Steps /\ NilCacheGet(x).res \in Outcome
           /\ MayBeAt(r, NilCacheGet(x).pc)
           /\ MissedLoaderGet(x).pc \in Steps
           /\ MissedLoaderGet(x).res \in Outcome
           /\ MayBeAt(r, MissedLoaderGet(x).pc)
<1>1. /\ NilCacheGet(x).pc \in Steps /\ NilCacheGet(x).res \in Outcome
      /\ MayBeAt(r, NilCacheGet(x).pc)
  BY DEF NilCacheGet, Then, Steps, MayBeAt
<1>2. CASE x.tag = "notfound" /\ Has("missLoader")
  BY <1>1, <1>2 DEF MissedLoaderGet, Then, Steps, MayBeAt
<1>3. CASE ~(x.tag = "notfound" /\ Has("missLoader"))
  BY <1>1, <1>3 DEF MissedLoaderGet
<1> QED BY <1>1, <1>2, <1>3

\* Also what the innermost decorator makes of an entry of the store.
LEMMA EntryTypes ==
    ASSUME NEW r \in Requests, NEW e, Answer(e.tag, e.ver) \in Outcome,
           req[r].op \in Ops, KeyOf(r) \in Keys
    PROVE  /\ LogicTTLGet(r, e).pc \in Steps
           /\ LogicTTLGet(r, e).res \in Outcome
           /\ MayBeAt(r, LogicTTLGet(r, e).pc)
<1> DEFINE x == Answer(e.tag, e.ver)
           expired == /\ IsHit(x) /\ e.stale /\ req[r].op = "Get"
                      /\ Has("logicExpire") /\ Has("logicLoader")
<1>1. LogicTTLGet(r, e) = IF expired THEN Then("refresh", x)
                                     ELSE MissedLoaderGet(x)
  BY DEF LogicTTLGet
<1>2. CASE expired
  BY <1>1, <1>2 DEF Then, Steps, MayBeAt
<1>3. CASE ~expired
  <2> HIDE DEF x, expired
  <2>1. x \in Outcome
    BY DEF x
  <2> QED BY <1>1, <1>3, <2>1, StageTypes
<1> QED BY <1>2, <1>3

\* A store that is written to keeps its type.
LEMMA StoresTypes ==
    ASSUME TypeOK, NEW r \in Requests, NEW e \in StoreEntry, Stores(r, e)
    PROVE  store' \in [Keys -> StoreEntry]
  BY DEF TypeOK, Stores

\* What is written to the store has the type of an entry.
LEMMA EntriesAreTyped ==
    /\ \A v \in Versions : Entry("value", v) \in StoreEntry
    /\ \A v \in Versions : Entry("placeholder", v) \in StoreEntry
    /\ Empty \in StoreEntry
  BY AnswerTypes DEF Entry, Empty, StoreEntry

\* A request that begins: the types of what it is asked to do.
LEMMA BeginsTypes ==
    ASSUME TypeOK, NEW r \in Requests, NEW o \in Ops, NEW k \in Keys,
           NEW p \in Steps, Begins(r, o, k), Goes(r, p, NoAnswer),
           \/ p = "read"
           \/ p = "write" /\ o \in Writes
           \/ p = "follow" /\ Has("singleflight") /\ joined'[r] \in Requests,
           \A s \in Requests : s # r => joined'[s] = joined[s]
    PROVE  /\ req' \in [Requests -> Request]
           /\ pc' \in [Requests -> Steps]
           /\ res' \in [Requests -> Outcome]
           /\ floor' \in [Keys -> Versions]
           /\ floorAt' \in [Requests -> Versions]
           /\ \A s \in Requests : MayBeAt(s, pc[s])'
<1>1. [op |-> o, key |-> k, ver |-> IF o = "Set" THEN source[k] ELSE 0]
        \in Request
  BY AnswerTypes DEF TypeOK, SourceTypeOK, Request
<1>2. req' \in [Requests -> Request]
  BY <1>1 DEF Begins, TypeOK
<1>3. pc' \in [Requests -> Steps] /\ res' \in [Requests -> Outcome]
  BY AnswerTypes DEF TypeOK, Goes
<1>4. floor' \in [Keys -> Versions]
  BY DEF Begins, TypeOK, SourceTypeOK
<1>5. floorAt' \in [Requests -> Versions]
  BY <1>4 DEF Begins, TypeOK
<1>6. ASSUME NEW s \in Requests PROVE MayBeAt(s, pc[s])'
  <2>1. CASE s = r
    <3>1. req'[r].op = o /\ req'[r].key = k /\ pc'[r] = p
      BY DEF Begins, Goes, TypeOK
    <3> QED BY <2>1, <3>1 DEF MayBeAt, KeyOf, Has, Begins
  <2>2. CASE s # r
    <3>1. pc'[s] = pc[s] /\ req'[s] = req[s] /\ joined'[s] = joined[s]
      BY <2>2 DEF Begins, Goes, TypeOK
    <3> QED BY <3>1 DEF TypeOK, MayBeAt, KeyOf, Has, Begins
  <2> QED BY <2>1, <2>2
<1> QED BY <1>2, <1>3, <1>4, <1>5, <1>6

\* Every step keeps the types.
LEMMA StepTypes == IInv /\ [Next]_vars => TypeOK'
<1> SUFFICES ASSUME IInv, [Next]_vars PROVE TypeOK'
  OBVIOUS
<1>a. TypeOK
  BY DEF IInv
<1>b. Miss!TypeOK' /\ Refresh!TypeOK'
  BY StepFlights
<1>c. \A r \in Requests : MayBeAt(r, pc[r]) /\ pc[r] \in Steps /\ res[r] \in Outcome
  BY <1>a DEF TypeOK
<1>d. \A r \in Requests : pc[r] # "idle" => req[r].op \in Ops /\ KeyOf(r) \in Keys
  BY <1>c DEF MayBeAt
<1> USE DEF context
<1>1. ASSUME NEW r \in Requests, NEW o \in Ops, NEW k \in Keys,
             Lead(r, o, k) \/ (o \in Writes /\ BeginWrite(r, o, k))
      PROVE  TypeOK'
  <2>1. PICK p \in Steps : /\ Goes(r, p, NoAnswer)
                           /\ p = "read" \/ (p = "write" /\ o \in Writes)
    BY <1>1 DEF Lead, BeginWrite, Steps
  <2>2. /\ Begins(r, o, k) /\ UNCHANGED joined
        /\ \A s \in Requests : s # r => joined'[s] = joined[s]
    BY <1>1 DEF Lead, BeginWrite, mergeVars
  <2>3. /\ req' \in [Requests -> Request]
        /\ pc' \in [Requests -> Steps]
        /\ res' \in [Requests -> Outcome]
        /\ floor' \in [Keys -> Versions]
        /\ floorAt' \in [Requests -> Versions]
        /\ \A s \in Requests : MayBeAt(s, pc[s])'
    BY <1>a, <2>1, <2>2, BeginsTypes
  <2>4. leader' \in [Keys -> Requests \cup {None}]
    BY <1>1, <1>a DEF TypeOK, Lead, BeginWrite, mergeVars
  <2> QED BY <1>a, <1>b, <2>2, <2>3, <2>4
          DEF TypeOK, Begins, SourceTypeOK, sourceVars
<1>2. ASSUME NEW r \in Requests, NEW o \in Ops, NEW k \in Keys,
             Follow(r, o, k)
      PROVE  TypeOK'
  <2>1. leader[k] \in Requests /\ Has("singleflight")
    BY <1>2, <1>a DEF Follow, TypeOK, IInv, LeadersLead
  <2>2. joined' \in [Requests -> Requests \cup {None}]
    BY <1>2, <1>a, <2>1 DEF Follow, TypeOK
  <2>3. /\ joined'[r] \in Requests
        /\ \A s \in Requests : s # r => joined'[s] = joined[s]
    BY <1>2, <1>a, <2>1 DEF Follow, TypeOK
  <2>4. Begins(r, o, k) /\ Goes(r, "follow", NoAnswer) /\ UNCHANGED leader
    BY <1>2 DEF Follow
  <2>5. /\ req' \in [Requests -> Request]
        /\ pc' \in [Requests -> Steps]
        /\ res' \in [Requests -> Outcome]
        /\ floor' \in [Keys -> Versions]
        /\ floorAt' \in [Requests -> Versions]
        /\ \A s \in Requests : MayBeAt(s, pc[s])'
    <3>1. "follow" \in Steps
      BY DEF Steps
    <3> QED BY <1>a, <2>1, <2>3, <2>4, <3>1, BeginsTypes
  <2> QED BY <1>a, <1>b, <2>2, <2>4, <2>5
          DEF TypeOK, Begins, SourceTypeOK, sourceVars
\* A request that goes on: all but pc, res and the store is as it was.
<1>3. ASSUME NEW r \in Requests, NEW p \in Steps, NEW x \in Outcome,
             Goes(r, p, x), MayBeAt(r, p),
             UNCHANGED <<context, joined>>,
             leader' \in [Keys -> Requests \cup {None}],
             store' \in [Keys -> StoreEntry]
      PROVE  TypeOK'
  <2>1. /\ pc' \in [Requests -> Steps]
        /\ res' \in [Requests -> Outcome]
        /\ \A s \in Requests : MayBeAt(s, pc[s])'
    BY <1>3, <1>a, GoesTypes
  <2> QED BY <1>3, <1>a, <1>b, <2>1
          DEF TypeOK, SourceTypeOK, sourceVars, historyVars
<1>e. leader \in [Keys -> Requests \cup {None}] /\ store \in [Keys -> StoreEntry]
  BY <1>a DEF TypeOK
<1>4. ASSUME NEW r \in Requests, Read(r) PROVE TypeOK'
  <2>1. req[r].op \in Ops /\ KeyOf(r) \in Keys
    BY <1>4, <1>d DEF Read
  <2>2. PICK e \in StoreReturns(r) : Continues(r, LogicTTLGet(r, e))
    BY <1>4 DEF Read
  <2>3. Answer(e.tag, e.ver) \in Outcome
    <3>1. CASE e = store[KeyOf(r)]
      BY <2>1, <3>1, <1>a DEF TypeOK, StoreEntry, Answer, Outcome, Tags
    <3>2. CASE e = Entry("err", 0) \/ e = Entry("ctx", 0)
      BY <3>2, AnswerTypes DEF Entry, Answer, Outcome, Tags
    <3> QED BY <2>2, <3>1, <3>2 DEF StoreReturns
  <2>4. /\ LogicTTLGet(r, e).pc \in Steps
        /\ LogicTTLGet(r, e).res \in Outcome
        /\ MayBeAt(r, LogicTTLGet(r, e).pc)
    BY <2>1, <2>3, EntryTypes
  <2> QED BY <1>3, <1>4, <1>e, <2>2, <2>4 DEF Read, Continues, mergeVars
<1>5. ASSUME NEW r \in Requests, Load(r) \/ Reload(r) PROVE TypeOK'
  <2>1. PICK p \in {"awaitLoad", "awaitRefresh"} : Goes(r, p, res[r]) /\ MayBeAt(r, p)
    BY <1>5, <1>c DEF Load, Reload, MayBeAt
  <2> QED BY <1>3, <1>5, <1>c, <1>e, <2>1 DEF Load, Reload, mergeVars, Steps
<1>6. ASSUME NEW r \in Requests, Loaded(r) PROVE TypeOK'
  <2> DEFINE x == missCall'[r].res
             t == IF IsError(x) THEN NilCacheGet(x) ELSE Then("writeBack", x)
  <2>1. x \in Outcome
    <3>1. missCall \in [Requests -> Miss!Call]
      BY <1>a DEF TypeOK, Miss!TypeOK
    <3>2. PICK y : missCall' = [missCall EXCEPT ![r].st = "returned",
                                                ![r].res = y]
      BY <1>6 DEF Loaded, Miss!Receive, Miss!GiveUp, Miss!Returns
    <3>3. missCall'[r].st = "returned"
      BY <3>1, <3>2 DEF Miss!Call
    <3> QED BY <1>b, <3>3, AnswerTypes DEF Miss!TypeOK
  <2>2. t.pc \in Steps /\ t.res \in Outcome /\ MayBeAt(r, t.pc)
    <3>1. Has("missLoader") /\ req[r].op \in Ops /\ KeyOf(r) \in Keys
      BY <1>6, <1>c DEF Loaded, MayBeAt
    <3> HIDE DEF x
    <3> QED BY <2>1, <3>1, StageTypes DEF Then, Steps, MayBeAt
  <2>3. Goes(r, t.pc, t.res)
    BY <1>6 DEF Loaded, Continues
  <2> HIDE DEF t
  <2> QED BY <1>3, <1>6, <1>e, <2>2, <2>3 DEF Loaded, mergeVars
<1>7. ASSUME NEW r \in Requests, WriteBack(r) \/ Protect(r) \/ Rewrite(r)
      PROVE  TypeOK'
  <2>1. PICK x \in Outcome : Goes(r, "leave", x)
    <3>1. Answer("placeholder", res[r].ver) \in Outcome
      BY <1>c, AnswerTypes DEF Outcome, Tags
    <3> QED BY <1>7, <1>c, <3>1 DEF WriteBack, Protect, Rewrite
  <2>2. PICK e \in StoreEntry : Stores(r, e)
    <3>1. res[r].ver \in Versions
      BY <1>c DEF Outcome
    <3>2. CASE WriteBack(r) \/ Protect(r)
      BY <3>1, <3>2, EntriesAreTyped DEF WriteBack, Protect
    <3>3. CASE Rewrite(r)
      <4>1. refreshCall[r].st = "returned"
        BY <3>3 DEF Rewrite, IInv, RewritesHaveResults
      <4>2. refreshCall[r].res \in Outcome
        BY <1>a, <4>1, AnswerTypes DEF TypeOK, Refresh!TypeOK
      <4> QED BY <3>3, <4>2, EntriesAreTyped DEF Rewrite, Outcome
    <3> QED BY <1>7, <3>2, <3>3
  <2>3. store' \in [Keys -> StoreEntry]
    BY <1>a, <2>2, StoresTypes
  <2>4. MayBeAt(r, "leave") /\ "leave" \in Steps
    BY <1>7, <1>d DEF WriteBack, Protect, Rewrite, MayBeAt, Steps
  <2> QED BY <1>3, <1>7, <1>e, <2>1, <2>3, <2>4
          DEF WriteBack, Protect, Rewrite, mergeVars
<1>8. ASSUME NEW r \in Requests, Reloaded(r) PROVE TypeOK'
  <2>1. PICK p \in {"leave", "rewrite"} : Goes(r, p, res[r])
    BY <1>8 DEF Reloaded
  <2>2. MayBeAt(r, p) /\ p \in Steps
    BY <1>8, <1>c DEF Reloaded, MayBeAt, Steps
  <2> QED BY <1>3, <1>8, <1>c, <1>e, <2>1, <2>2 DEF Reloaded, mergeVars
<1>9. ASSUME NEW r \in Requests, Leave(r) PROVE TypeOK'
  <2>1. leader' \in [Keys -> Requests \cup {None}]
    BY <1>9, <1>a DEF Leave, TypeOK
  <2>2. MayBeAt(r, "done") /\ "done" \in Steps
    BY <1>9, <1>d DEF Leave, MayBeAt, Steps
  <2> QED BY <1>3, <1>9, <1>c, <1>e, <2>1, <2>2 DEF Leave
<1>10. ASSUME NEW r \in Requests, Share(r) PROVE TypeOK'
  <2>1. joined[r] \in Requests
    BY <1>10, <1>c DEF Share, MayBeAt
  <2>2. res[joined[r]] \in Outcome /\ Answer("panic", 0) \in Outcome
    BY <1>c, <2>1, AnswerTypes DEF Tags
  <2>3. PICK x \in Outcome : Goes(r, "done", x)
    BY <1>10, <2>2 DEF Share
  <2>4. MayBeAt(r, "done") /\ "done" \in Steps
    BY <1>10, <1>d DEF Share, MayBeAt, Steps
  <2> QED BY <1>3, <1>10, <1>e, <2>3, <2>4 DEF Share, mergeVars
<1>11. ASSUME NEW r \in Requests, Write(r) PROVE TypeOK'
  <2>1. Written(r) \in [Keys -> StoreEntry]
    <3>1. req[r].ver \in Versions
      BY <1>a DEF TypeOK, Request
    <3>2. req[r].op \in {"Set", "Delete", "Clear"}
      BY <1>11, <1>c DEF Write, MayBeAt, Writes
    <3> QED BY <1>e, <3>1, <3>2, EntriesAreTyped DEF Written
  <2>2. store' \in [Keys -> StoreEntry]
    BY <1>11, <1>e, <2>1 DEF Write
  <2>3. PICK x \in Outcome : Goes(r, "done", x)
    BY <1>11, AnswerTypes DEF Write, WriteErrors, Tags
  <2>4. MayBeAt(r, "done") /\ "done" \in Steps
    BY <1>11, <1>d DEF Write, MayBeAt, Steps
  <2> QED BY <1>3, <1>11, <1>e, <2>2, <2>3, <2>4 DEF Write, mergeVars
\* Steps of the loaders and of the environment: no request goes on.
<1>12. ASSUME UNCHANGED <<features, pc, req, res, joined, leader, floor, floorAt>>,
              store' \in [Keys -> StoreEntry], SourceTypeOK'
       PROVE  TypeOK'
  BY <1>12, <1>a, <1>b DEF TypeOK, MayBeAt, KeyOf, Has
<1>13. ASSUME NEW f \in Requests, MissLoader(f) \/ RefreshLoader(f)
       PROVE  TypeOK'
  BY <1>12, <1>13, <1>a, <1>e
     DEF MissLoader, RefreshLoader, chainVars, mergeVars, historyVars,
         sourceVars, TypeOK, SourceTypeOK
<1>14. ASSUME NEW r \in Requests, Cancel(r) PROVE TypeOK'
  BY <1>12, <1>14, <1>a, <1>e
     DEF Cancel, chainVars, mergeVars, historyVars, sourceVars, TypeOK,
         SourceTypeOK
<1>15. ASSUME NEW k \in Keys, Update(k) PROVE TypeOK'
  <2>1. SourceTypeOK'
    BY <1>15, <1>a, VersionAssumption
       DEF Update, SourceUpdate, TypeOK, SourceTypeOK, Versions
  <2> QED BY <1>12, <1>15, <1>e, <2>1
          DEF Update, chainVars, mergeVars, historyVars
<1>16. ASSUME NEW k \in Keys, Age(k) PROVE TypeOK'
  <2>1. [store[k] EXCEPT !.stale = TRUE] \in StoreEntry
    BY <1>e DEF StoreEntry
  <2>2. store' = [store EXCEPT ![k] = [store[k] EXCEPT !.stale = TRUE]]
          \/ store' = [store EXCEPT ![k] = Empty]
    BY <1>16 DEF Age
  <2>3. store' \in [Keys -> StoreEntry]
    BY <1>e, <2>1, <2>2, EntriesAreTyped
  <2> QED BY <1>12, <1>16, <1>a, <2>3
          DEF Age, chainVars, mergeVars, historyVars, sourceVars, TypeOK,
              SourceTypeOK
<1>17. CASE UNCHANGED vars
  BY <1>12, <1>17, <1>a, <1>e
     DEF vars, sourceVars, TypeOK, SourceTypeOK
<1>18. ASSUME NEW r \in Requests, Begin(r) PROVE TypeOK'
  BY <1>1, <1>2, <1>18 DEF Begin
<1>19. ASSUME NEW r \in Requests, Proceed(r) PROVE TypeOK'
  BY <1>4, <1>5, <1>6, <1>7, <1>8, <1>9, <1>10, <1>11, <1>19 DEF Proceed
<1> QED
  BY <1>13, <1>14, <1>15, <1>16, <1>17, <1>18, <1>19 DEF Next, Finished

-----------------------------------------------------------------------------
(***************************************************************************)
(* The rest of the invariant                                               *)
(***************************************************************************)

\* The steps of the requests that are at work, but for Leave.
LEMMA StepKinds ==
    ASSUME NEW r \in Requests, Proceed(r), ~Leave(r)
    PROVE  /\ UNCHANGED <<features, req, leader, joined>>
           /\ pc[r] \in {"read", "load", "awaitLoad", "writeBack", "protect",
                         "refresh", "awaitRefresh", "rewrite", "follow", "write"}
           /\ \E p, x : Goes(r, p, x) /\ (InChain(r) \/ p = "done")
<1>1. CASE Read(r) \/ Load(r) \/ Loaded(r) \/ WriteBack(r) \/ Protect(r)
             \/ Reload(r) \/ Reloaded(r) \/ Rewrite(r)
  BY <1>1 DEF Read, Load, Loaded, WriteBack, Protect, Reload, Reloaded,
              Rewrite, Continues, context, mergeVars, InChain
<1>2. CASE Share(r) \/ Write(r)
  BY <1>2 DEF Share, Write, context, mergeVars
<1> QED BY <1>1, <1>2 DEF Proceed

\* What the loaders and the environment leave alone.
LEMMA Surroundings ==
    ASSUME \/ \E r \in Requests : Cancel(r)
           \/ \E f \in Requests : MissLoader(f) \/ RefreshLoader(f)
           \/ \E k \in Keys : Update(k) \/ Age(k)
           \/ UNCHANGED vars
    PROVE  /\ UNCHANGED <<features, pc, req, res, leader, joined>>
           /\ UNCHANGED <<missCall, refreshCall>>
  BY DEF Cancel, MissLoader, RefreshLoader, Update, Age, vars, context,
         chainVars, mergeVars, missVars, refreshVars, Miss!Load, Miss!Deliver,
         Refresh!Load, Refresh!Deliver

\* Merged reads: the read that the group registers is the one in the chain.
LEMMA StepLeaders == IInv /\ [Next]_vars => LeadersLead'
<1> SUFFICES ASSUME IInv, [Next]_vars PROVE LeadersLead'
  OBVIOUS
<1> USE NoneAssumption DEF KeyOf, Has
<1>a. /\ pc \in [Requests -> Steps] /\ req \in [Requests -> Request]
      /\ leader \in [Keys -> Requests \cup {None}]
      /\ \A r \in Requests : pc[r] # "idle" => req[r].key \in Keys
  BY DEF IInv, TypeOK, MayBeAt
<1>b. LeadersLead
  BY DEF IInv
<1>1. ASSUME NEW r \in Requests, NEW o, NEW k \in Keys, Lead(r, o, k)
      PROVE  LeadersLead'
  <2>1. /\ pc' = [pc EXCEPT ![r] = "read"] /\ req'[r].key = k
        /\ \A s \in Requests : s # r => req'[s] = req[s]
        /\ leader[k] = None /\ UNCHANGED features
        /\ leader' = IF Has("singleflight") THEN [leader EXCEPT ![k] = r] ELSE leader
    BY <1>1, <1>a DEF Lead, Begins, Goes
  <2> QED BY <1>a, <1>b, <2>1 DEF LeadersLead, InChain
<1>2. ASSUME NEW r \in Requests, NEW o, NEW k \in Keys,
             Follow(r, o, k) \/ BeginWrite(r, o, k)
      PROVE  LeadersLead'
  <2>1. /\ UNCHANGED <<features, leader>>
        /\ \A s \in Requests : s # r => req'[s] = req[s]
        /\ pc' = [pc EXCEPT ![r] = "follow"] \/ pc' = [pc EXCEPT ![r] = "write"]
    BY <1>2, <1>a DEF Follow, BeginWrite, Begins, Goes, mergeVars
  <2> QED BY <1>a, <1>b, <2>1 DEF LeadersLead, InChain
<1>3. ASSUME NEW r \in Requests, Leave(r) PROVE LeadersLead'
  <2>1. /\ UNCHANGED <<features, req>>
        /\ pc' = [pc EXCEPT ![r] = "done"]
        /\ leader' = [k \in Keys |-> IF leader[k] = r THEN None ELSE leader[k]]
    BY <1>3 DEF Leave, Goes, context
  <2> QED BY <1>a, <1>b, <2>1 DEF LeadersLead, InChain
<1>4. ASSUME NEW r \in Requests, Proceed(r), ~Leave(r) PROVE LeadersLead'
  <2>1. UNCHANGED <<features, req, leader>>
    BY <1>4, StepKinds
  <2>2. PICK p, x : Goes(r, p, x) /\ (InChain(r) \/ p = "done")
    BY <1>4, StepKinds
  <2> QED BY <1>a, <1>b, <2>1, <2>2 DEF Goes, LeadersLead, InChain
<1>5. ASSUME UNCHANGED <<features, pc, req, leader>> PROVE LeadersLead'
  BY <1>5, <1>b DEF LeadersLead, InChain
<1> QED BY <1>1, <1>2, <1>3, <1>4, <1>5, Surroundings DEF Next, Begin, Finished

\* A rewrite follows a reload that returned data.
LEMMA StepRewrites == IInv /\ [Next]_vars => RewritesHaveResults'
<1> SUFFICES ASSUME IInv, [Next]_vars PROVE RewritesHaveResults'
  OBVIOUS
<1>a. pc \in [Requests -> Steps] /\ refreshCall \in [Requests -> Refresh!Call]
  BY DEF IInv, TypeOK, Refresh!TypeOK
<1>b. RewritesHaveResults
  BY DEF IInv
<1>1. ASSUME NEW r \in Requests, Begin(r) PROVE RewritesHaveResults'
  <2>1. PICK p \in {"read", "follow", "write"} : pc' = [pc EXCEPT ![r] = p]
    BY <1>1 DEF Begin, Lead, Follow, BeginWrite, Goes
  <2>2. UNCHANGED refreshCall
    BY <1>1 DEF Begin, Lead, Follow, BeginWrite, Begins, refreshVars
  <2> QED BY <1>a, <1>b, <2>1, <2>2 DEF RewritesHaveResults
<1>2. ASSUME NEW r \in Requests, Reload(r) PROVE RewritesHaveResults'
  <2>1. /\ pc' = [pc EXCEPT ![r] = "awaitRefresh"]
        /\ \A s \in Requests : s # r => refreshCall'[s] = refreshCall[s]
    BY <1>2, <1>a DEF Reload, Goes, Refresh!Join, Refresh!Create, Refresh!Calls
  <2> QED BY <1>a, <1>b, <2>1 DEF RewritesHaveResults
<1>3. ASSUME NEW r \in Requests, Reloaded(r) PROVE RewritesHaveResults'
  <2>1. PICK y : refreshCall' = [refreshCall EXCEPT ![r].st = "returned",
                                                    ![r].res = y]
    BY <1>3 DEF Reloaded, Refresh!Receive, Refresh!GiveUp, Refresh!Returns
  <2>2. refreshCall'[r].st = "returned"
    BY <1>a, <2>1 DEF Refresh!Call
  <2>3. PICK p : pc' = [pc EXCEPT ![r] = p]
    BY <1>3 DEF Reloaded, Goes
  <2> QED BY <1>a, <1>b, <2>1, <2>2, <2>3 DEF RewritesHaveResults
<1>4. ASSUME NEW r \in Requests,
             Read(r) \/ Load(r) \/ Loaded(r) \/ WriteBack(r) \/ Protect(r)
               \/ Rewrite(r) \/ Leave(r) \/ Share(r) \/ Write(r)
      PROVE  RewritesHaveResults'
  <2>1. PICK p : pc' = [pc EXCEPT ![r] = p] /\ p # "rewrite"
    BY <1>4 DEF Read, Load, Loaded, WriteBack, Protect, Rewrite, Leave, Share,
                Write, Continues, Goes, LogicTTLGet, MissedLoaderGet,
                NilCacheGet, Then
  <2>2. UNCHANGED refreshCall
    BY <1>4 DEF Read, Load, Loaded, WriteBack, Protect, Rewrite, Leave, Share,
                Write, refreshVars
  <2> QED BY <1>a, <1>b, <2>1, <2>2 DEF RewritesHaveResults
<1>5. ASSUME UNCHANGED <<pc, refreshCall>> PROVE RewritesHaveResults'
  BY <1>5, <1>b DEF RewritesHaveResults
<1> QED
  BY <1>1, <1>2, <1>3, <1>4, <1>5, Surroundings DEF Next, Proceed, Finished

\* What a decorator passes up as data leads to its answer.
LEMMA StagesKeepHits ==
    ASSUME NEW r, NEW e,
           IsHit(LogicTTLGet(r, e).res)
    PROVE  LogicTTLGet(r, e).pc \in {"refresh", "leave"}
  BY DEF IsHit, LogicTTLGet, MissedLoaderGet, NilCacheGet, Then

\* Data that a read has got is what it answers, and nothing takes it away.
LEMMA StepHits ==
    IInv /\ [Next]_vars =>
        /\ HitsAreAnswers'
        /\ \A r \in Requests : IsHit(res[r]) => res'[r] = res[r]
<1> DEFINE Kept == \A r \in Requests : IsHit(res[r]) => res'[r] = res[r]
<1> SUFFICES ASSUME IInv, [Next]_vars PROVE HitsAreAnswers' /\ Kept
  OBVIOUS
<1>a. pc \in [Requests -> Steps] /\ res \in [Requests -> Outcome]
  BY DEF IInv, TypeOK
<1>b. HitsAreAnswers
  BY DEF IInv
\* A step after which r has data only where it may.
<1>1. ASSUME NEW r \in Requests, NEW p, NEW x, Goes(r, p, x),
             IsHit(x) => p \in {"writeBack", "refresh", "awaitRefresh",
                                "rewrite", "leave", "done"},
             IsHit(res[r]) => x = res[r]
      PROVE  HitsAreAnswers' /\ Kept
  <2>1. \A s \in Requests : IF s = r THEN pc'[s] = p /\ res'[s] = x
                                     ELSE pc'[s] = pc[s] /\ res'[s] = res[s]
    BY <1>1, <1>a DEF Goes
  <2>2. Kept
    BY <1>1, <2>1
  <2>3. ASSUME NEW s \in Requests, IsHit(res'[s])
        PROVE  pc'[s] \in {"writeBack", "refresh", "awaitRefresh", "rewrite",
                           "leave", "done"}
    BY <1>1, <1>b, <2>1, <2>3 DEF HitsAreAnswers
  <2> QED BY <2>2, <2>3 DEF HitsAreAnswers, IsHit
<1>2. ASSUME NEW r \in Requests, Begin(r) PROVE HitsAreAnswers' /\ Kept
  <2>1. PICK p : Goes(r, p, NoAnswer) /\ pc[r] = "idle"
    BY <1>2 DEF Begin, Lead, Follow, BeginWrite, Begins
  <2>2. ~IsHit(NoAnswer) /\ ~IsHit(res[r])
    BY <1>b, <2>1 DEF HitsAreAnswers, IsHit, NoAnswer, Answer
  <2> QED BY <1>1, <2>1, <2>2
<1>3. ASSUME NEW r \in Requests, Read(r) PROVE HitsAreAnswers' /\ Kept
  <2>1. PICK e : Goes(r, LogicTTLGet(r, e).pc, LogicTTLGet(r, e).res)
    BY <1>3 DEF Read, Continues
  <2>2. ~IsHit(res[r])
    BY <1>3, <1>b DEF Read, HitsAreAnswers
  <2> QED BY <1>1, <2>1, <2>2, StagesKeepHits
<1>4. ASSUME NEW r \in Requests, Loaded(r) PROVE HitsAreAnswers' /\ Kept
  <2> DEFINE x == missCall'[r].res
  <2>1. IF IsError(x) THEN Goes(r, NilCacheGet(x).pc, NilCacheGet(x).res)
                      ELSE Goes(r, "writeBack", x)
    BY <1>4 DEF Loaded, Continues, Then
  <2>2. ~IsHit(res[r])
    BY <1>4, <1>b DEF Loaded, HitsAreAnswers
  <2>3. IsError(x) => NilCacheGet(x).res = x /\ ~IsHit(x)
    BY DEF NilCacheGet, Then, IsError, IsHit
  <2> HIDE DEF x
  <2> QED BY <1>1, <2>1, <2>2, <2>3
<1>5. ASSUME NEW r \in Requests, Protect(r) PROVE HitsAreAnswers' /\ Kept
  <2>1. ~IsHit(res[r])
    BY <1>5, <1>b DEF Protect, HitsAreAnswers
  <2> QED BY <1>1, <1>5, <2>1 DEF Protect
<1>6. ASSUME NEW r \in Requests,
             Load(r) \/ WriteBack(r) \/ Reload(r) \/ Reloaded(r) \/ Rewrite(r)
               \/ Leave(r)
      PROVE  HitsAreAnswers' /\ Kept
  <2>1. PICK p : Goes(r, p, res[r]) /\ (pc[r] # "load" =>
                   p \in {"awaitRefresh", "rewrite", "leave", "done"})
    BY <1>6 DEF Load, WriteBack, Reload, Reloaded, Rewrite, Leave
  <2>2. IsHit(res[r]) => pc[r] # "load"
    BY <1>b DEF HitsAreAnswers
  <2> QED BY <1>1, <2>1, <2>2
<1>7. ASSUME NEW r \in Requests, Share(r) \/ Write(r)
      PROVE  HitsAreAnswers' /\ Kept
  <2>1. PICK x : Goes(r, "done", x)
    BY <1>7 DEF Share, Write
  <2>2. ~IsHit(res[r])
    BY <1>7, <1>b DEF Share, Write, HitsAreAnswers
  <2> QED BY <1>1, <2>1, <2>2
<1>8. ASSUME UNCHANGED <<pc, res>> PROVE HitsAreAnswers' /\ Kept
  BY <1>8, <1>b DEF HitsAreAnswers
<1> QED
  BY <1>2, <1>3, <1>4, <1>5, <1>6, <1>7, <1>8, Surroundings
     DEF Next, Proceed, Finished

-----------------------------------------------------------------------------
(***************************************************************************)
(* Theorems                                                                *)
(***************************************************************************)

\* The invariant holds before any request begins.
LEMMA InitIInv == Init => IInv
<1> SUFFICES ASSUME Init PROVE IInv
  OBVIOUS
<1>1. FlightsOK
  BY MissIsFlight, RefreshIsFlight, MissFlight!InitIInv,
     RefreshFlight!InitIInv, NoneAssumption, CtxErrIsResult DEF Init, FlightsOK
<1>2. Miss!TypeOK /\ Refresh!TypeOK
  BY <1>1, MissIsFlight, RefreshIsFlight
     DEF FlightsOK, MissFlight!IInv, RefreshFlight!IInv
<1>3. SourceTypeOK
  BY AnswerTypes DEF Init, SourceInit, SourceTypeOK
<1>4. TypeOK
  BY <1>2, <1>3, AnswerTypes, EntriesAreTyped
     DEF Init, TypeOK, Steps, Request, MayBeAt
<1>5. LeadersLead /\ RewritesHaveResults /\ HitsAreAnswers
  BY DEF Init, LeadersLead, RewritesHaveResults, HitsAreAnswers, InChain,
         IsHit, NoAnswer, Answer
<1> QED BY <1>1, <1>4, <1>5 DEF IInv

\* Every step keeps it.
LEMMA StepIInv == IInv /\ [Next]_vars => IInv'
  BY StepTypes, StepFlights, StepLeaders, StepRewrites, StepHits DEF IInv

\* The invariant holds in every reachable state.
THEOREM Invariance == Spec => []IInv
  BY InitIInv, StepIInv, PTL DEF Spec

\* Every variable keeps its type, and no request gets into a decorator that
\* its build does not have.
THEOREM TypeCorrect == Spec => []TypeOK
<1>1. IInv => TypeOK
  BY DEF IInv
<1> QED BY <1>1, Invariance, PTL

\* With singleflight one read of a key at most is in the chain: it is the one
\* that the group registers.
THEOREM ReadsAreMerged == Spec => []ReadsMerged
<1>1. IInv => ReadsMerged
  BY DEF IInv, LeadersLead, ReadsMerged
<1> QED BY <1>1, Invariance, PTL

\* No later failure takes away the data that a read has got.
THEOREM AnswersAreKept == Spec => AnswerKept
<1> DEFINE A == \A r \in Requests : IsHit(res[r]) => res'[r] = res[r]
<1>1. IInv /\ [Next]_vars => [A]_vars
  BY StepHits
<1> QED BY <1>1, Invariance, PTL DEF Spec, AnswerKept

\* The chain implements LoaderFlight, twice.
THEOREM LoadersImplementFlights == Spec => LoadersAreFlights
<1>1. Init => Miss!Init /\ Refresh!Init
  BY DEF Init
<1> QED BY <1>1, MissSteps, RefreshSteps, Invariance, PTL
        DEF Spec, LoadersAreFlights, Miss!Spec, Refresh!Spec

\* So neither loader is ever called twice at a time for a key.
THEOREM LoadsAreMerged ==
    Spec => [](Miss!LoadsExclusive /\ Refresh!LoadsExclusive)
<1>1. IInv => Miss!LoadsExclusive
  BY DEF IInv, FlightsOK, MissFlight!IInv, MissFlight!Registered,
         MissFlight!InFlight, Miss!LoadsExclusive, Miss!InFlight
<1>2. IInv => Refresh!LoadsExclusive
  BY DEF IInv, FlightsOK, RefreshFlight!IInv, RefreshFlight!Registered,
         RefreshFlight!InFlight, Refresh!LoadsExclusive, Refresh!InFlight
<1> QED BY <1>1, <1>2, Invariance, PTL

-----------------------------------------------------------------------------
(***************************************************************************)
(* What answers are worth: context errors have a cause, data was once true *)
(* of the source, and invalidation is effective.  The invariant follows    *)
(* data on its way from the source over the flights, the calls and the     *)
(* requests into the store and back.                                       *)
(***************************************************************************)

\* Who others join goes through the chain itself, for the same key.
LeadsFor(s, k) ==
    /\ pc[s] \notin {"idle", "follow"} /\ joined[s] = None
    /\ KeyOf(s) = k

\* A request joins one that joins nobody, and is answered when that one is.
GroupsLinked ==
    /\ \A k \in Keys : leader[k] # None =>
         LeadsFor(leader[k], k) /\ InChain(leader[k])
    /\ \A r \in Requests : joined[r] # None =>
         /\ pc[r] \in {"follow", "done"}
         /\ LeadsFor(joined[r], KeyOf(r))
         /\ pc[r] = "done" => pc[joined[r]] = "done"

\* A call of a loader is the one that its request waits for.
CallsLinked ==
    \A r \in Requests :
        /\ missCall[r].st = "waiting" <=> pc[r] = "awaitLoad"
        /\ pc[r] = "awaitLoad" => missCall[r].key = KeyOf(r)
        /\ refreshCall[r].st = "waiting" <=> pc[r] = "awaitRefresh"
        /\ pc[r] = "awaitRefresh" => refreshCall[r].key = KeyOf(r)

\* There is one entry that says that there is none.
EmptyIsEmpty == \A k \in Keys : store[k].tag = "notfound" => store[k] = Empty

\* What a request is about to do is right for what it has got.
StagesHaveData ==
    \A r \in Requests :
        /\ pc[r] \in {"load", "awaitLoad", "protect"} => res[r].tag = "notfound"
        /\ pc[r] = "writeBack" => res[r].tag = "value"
        /\ pc[r] = "rewrite" => refreshCall[r].res.tag = "value"

\* Whose context made the chain of r fail: its own, or that of the request
\* whose load it waited for.
OwnCause(r) == cancelled[r] \/ (missCall[r].on # None /\ cancelled[missCall[r].on])

\* A context error is the answer of the chain, and is passed on as it is.
ContextErrors ==
    \A r \in Requests : res[r].tag = "ctx" =>
        /\ pc[r] \in {"leave", "done"}
        /\ IF joined[r] = None THEN OwnCause(r) ELSE res[joined[r]] = res[r]

LinkIInv ==
    /\ IInv
    /\ GroupsLinked
    /\ CallsLinked
    /\ EmptyIsEmpty
    /\ StagesHaveData
    /\ ContextErrors

\* x says of k what was once true of it, and is not from the future.
True(k, x) ==
    /\ x.tag = "value" => x.ver <= source[k] /\ x.ver \notin absent[k]
    /\ x.tag \in {"placeholder", "notfound"} =>
         x.ver <= source[k] /\ x.ver \in absent[k]

\* x is not older than the last time at which nothing was left of k.
Fresh(k, x) ==
    x.tag \in {"value", "placeholder", "notfound"} => x.ver >= floor[k]

Sound(k, x) == True(k, x) /\ Fresh(k, x)

FloorsBounded ==
    /\ \A k \in Keys : floor[k] <= source[k]
    /\ \A r \in Requests : pc[r] # "idle" => floorAt[r] <= floor[KeyOf(r)]

StoreSound == \A k \in Keys : store[k].tag # "notfound" => Sound(k, store[k])

\* What a flight has got, until it is over, and what a call will get.
MissSound ==
    /\ \A f \in Requests : missFlight[f].st = "loaded" =>
         Sound(missFlight[f].key, missFlight[f].res)
    /\ \A r \in Requests :
         missCall[r].st = "waiting" /\ missFlight[missCall[r].on].st = "done" =>
             Sound(KeyOf(r), missFlight[missCall[r].on].res)

RefreshSound ==
    /\ \A f \in Requests : refreshFlight[f].st = "loaded" =>
         Sound(refreshFlight[f].key, refreshFlight[f].res)
    /\ \A r \in Requests :
         refreshCall[r].st = "waiting" /\ refreshFlight[refreshCall[r].on].st = "done" =>
             Sound(KeyOf(r), refreshFlight[refreshCall[r].on].res)

\* What a reload has returned is about to be stored.
RewritesSound ==
    \A r \in Requests : pc[r] = "rewrite" => Sound(KeyOf(r), refreshCall[r].res)

\* That the store has no entry is not what the source says; it is not passed
\* on but asked of the loader.
Missed(p) == p \in {"load", "awaitLoad"}

\* Who is done has what was fresh when it began, and what is fresh as long as
\* somebody is still to share it.
AnswersSound ==
    \A r \in Requests : pc[r] # "idle" /\ ~Missed(pc[r]) =>
        /\ True(KeyOf(r), res[r])
        /\ pc[r] # "done" => Fresh(KeyOf(r), res[r])
        /\ pc[r] = "done" /\ IsHit(res[r]) => res[r].ver >= floorAt[r]

SharesSound ==
    \A r \in Requests : pc[r] = "follow" /\ pc[joined[r]] = "done" =>
        Fresh(KeyOf(r), res[joined[r]])

\* What a Set is about to write.
SetsSound ==
    \A r \in Requests : pc[r] = "write" /\ req[r].op = "Set" =>
        Sound(KeyOf(r), Answer("value", req[r].ver))

DataSound ==
    /\ StoreSound
    /\ MissSound
    /\ RefreshSound
    /\ RewritesSound
    /\ AnswersSound
    /\ SharesSound
    /\ SetsSound

DataIInv ==
    /\ LinkIInv
    /\ FloorsBounded
    /\ Has("missLoader") => DataSound
-----------------------------------------------------------------------------
(***************************************************************************)
(* Requests, groups and calls                                              *)
(***************************************************************************)

\* The typing facts that the steps below need.
LEMMA Typed ==
    ASSUME IInv
    PROVE  /\ pc \in [Requests -> Steps] /\ res \in [Requests -> Outcome]
           /\ req \in [Requests -> Request] /\ store \in [Keys -> StoreEntry]
           /\ leader \in [Keys -> Requests \cup {None}]
           /\ joined \in [Requests -> Requests \cup {None}]
           /\ missCall \in [Requests -> Miss!Call]
           /\ refreshCall \in [Requests -> Refresh!Call]
           /\ \A r \in Requests : pc[r] # "idle" => KeyOf(r) \in Keys
  BY DEF IInv, TypeOK, MayBeAt, Miss!TypeOK, Refresh!TypeOK

\* A request that begins has not joined anybody and is nobody's leader.
LEMMA BeginsFresh ==
    ASSUME NEW r \in Requests, Begin(r)
    PROVE  /\ pc[r] = "idle" /\ UNCHANGED <<features, store, cancelled>>
           /\ UNCHANGED <<missVars, refreshVars, sourceVars>>
           /\ \E p \in {"read", "follow", "write"} : Goes(r, p, NoAnswer)
           /\ \E q : req' = [req EXCEPT ![r] = q]
  BY DEF Begin, Lead, Follow, BeginWrite, Begins

\* A request that goes on, but for one that shares an answer, goes through
\* the chain or writes.
LEMMA ChainSteps ==
    ASSUME NEW r \in Requests, Proceed(r), ~Share(r)
    PROVE  /\ UNCHANGED <<features, req, joined>>
           /\ pc[r] \notin {"idle", "follow", "done"}
           /\ \E p \in Steps \ {"idle", "follow", "write"} :
                (\E x : Goes(r, p, x)) /\ (p # "done" \/ Leave(r) \/ pc[r] = "write")
<1>1. CASE Read(r) \/ Load(r) \/ Loaded(r) \/ WriteBack(r) \/ Protect(r)
             \/ Reload(r) \/ Reloaded(r) \/ Rewrite(r)
  BY <1>1 DEF Read, Load, Loaded, WriteBack, Protect, Reload, Reloaded,
              Rewrite, Continues, context, mergeVars, LogicTTLGet,
              MissedLoaderGet, NilCacheGet, Then, Steps
<1>2. CASE Leave(r) \/ Write(r)
  BY <1>2 DEF Leave, Write, context, mergeVars, Steps
<1> QED BY <1>1, <1>2 DEF Proceed

\* Who is joined by others goes on and does not join anybody itself.
LEMMA StepGroups == LinkIInv /\ [Next]_vars => GroupsLinked'
<1> SUFFICES ASSUME LinkIInv, [Next]_vars PROVE GroupsLinked'
  OBVIOUS
<1> USE NoneAssumption DEF KeyOf, InChain
<1>a. /\ pc \in [Requests -> Steps] /\ req \in [Requests -> Request]
      /\ leader \in [Keys -> Requests \cup {None}]
      /\ joined \in [Requests -> Requests \cup {None}]
  BY Typed DEF LinkIInv
<1>b. GroupsLinked
  BY DEF LinkIInv
<1>1. ASSUME NEW r \in Requests, NEW o, NEW k \in Keys, Lead(r, o, k)
      PROVE  GroupsLinked'
  <2>1. /\ pc[r] = "idle" /\ pc' = [pc EXCEPT ![r] = "read"]
        /\ req'[r].key = k /\ \A s \in Requests : s # r => req'[s] = req[s]
        /\ leader' = leader \/ leader' = [leader EXCEPT ![k] = r]
        /\ UNCHANGED joined
    BY <1>1, <1>a DEF Lead, Begins, Goes
  <2> QED BY <1>a, <1>b, <2>1 DEF GroupsLinked, LeadsFor
<1>2. ASSUME NEW r \in Requests, NEW o, NEW k \in Keys, Follow(r, o, k)
      PROVE  GroupsLinked'
  <2>1. /\ pc[r] = "idle" /\ pc' = [pc EXCEPT ![r] = "follow"]
        /\ req'[r].key = k /\ \A s \in Requests : s # r => req'[s] = req[s]
        /\ leader[k] # None /\ UNCHANGED leader
        /\ joined' = [joined EXCEPT ![r] = leader[k]]
    BY <1>2, <1>a DEF Follow, Begins, Goes
  <2>2. leader[k] \in Requests \ {r} /\ LeadsFor(leader[k], k)
    BY <1>a, <1>b, <2>1 DEF GroupsLinked, LeadsFor
  <2> QED BY <1>a, <1>b, <2>1, <2>2 DEF GroupsLinked, LeadsFor
<1>3. ASSUME NEW r \in Requests, NEW o, NEW k \in Keys, BeginWrite(r, o, k)
      PROVE  GroupsLinked'
  <2>1. /\ pc[r] = "idle" /\ pc' = [pc EXCEPT ![r] = "write"]
        /\ \A s \in Requests : s # r => req'[s] = req[s]
        /\ UNCHANGED <<leader, joined>>
    BY <1>3, <1>a DEF BeginWrite, Begins, Goes, mergeVars
  <2> QED BY <1>a, <1>b, <2>1 DEF GroupsLinked, LeadsFor
<1>4. ASSUME NEW r \in Requests, Share(r) PROVE GroupsLinked'
  <2>1. /\ pc[r] = "follow" /\ pc[joined[r]] = "done"
        /\ pc' = [pc EXCEPT ![r] = "done"]
        /\ UNCHANGED <<req, leader, joined>>
    BY <1>4 DEF Share, Goes, context, mergeVars
  <2> QED BY <1>a, <1>b, <2>1 DEF GroupsLinked, LeadsFor
<1>5. ASSUME NEW r \in Requests, Proceed(r), ~Share(r) PROVE GroupsLinked'
  <2>1. UNCHANGED <<req, joined>> /\ pc[r] \notin {"idle", "follow", "done"}
    BY <1>5, ChainSteps
  <2>2. PICK p \in Steps \ {"idle", "follow", "write"} :
          (\E x : Goes(r, p, x)) /\ (p # "done" \/ Leave(r) \/ pc[r] = "write")
    BY <1>5, ChainSteps
  <2>3. \A k \in Keys : leader'[k] # None => leader'[k] = leader[k]
    BY <1>5, <1>a DEF Proceed, Read, Load, Loaded, WriteBack, Protect, Reload,
          Reloaded, Rewrite, Leave, Write, mergeVars
  <2>4. \A s \in Requests : pc'[s] = IF s = r THEN p ELSE pc[s]
    BY <1>a, <2>2 DEF Goes
  <2>5. ASSUME NEW k \in Keys, leader'[k] # None
        PROVE  LeadsFor(leader[k], k)' /\ InChain(leader[k])'
    <3>1. leader[k] \in Requests /\ LeadsFor(leader[k], k) /\ InChain(leader[k])
      BY <1>a, <1>b, <2>3, <2>5 DEF GroupsLinked
    <3>2. leader[k] = r => p # "done"
      BY <1>a, <2>2, <2>5, <3>1 DEF Leave
    <3>3. p \in Steps \ {"idle", "follow", "write"}
      OBVIOUS
    <3> QED BY <2>1, <2>3, <2>4, <2>5, <3>1, <3>2, <3>3 DEF LeadsFor, Steps
  <2>6. ASSUME NEW s \in Requests, joined'[s] # None
        PROVE  /\ pc'[s] \in {"follow", "done"}
               /\ LeadsFor(joined[s], KeyOf(s))'
               /\ pc'[s] = "done" => pc'[joined'[s]] = "done"
    BY <1>a, <1>b, <2>1, <2>4, <2>6 DEF GroupsLinked, LeadsFor
  <2> QED BY <2>5, <2>6 DEF GroupsLinked
<1>6. ASSUME UNCHANGED <<pc, req, leader, joined>> PROVE GroupsLinked'
  BY <1>6, <1>b DEF GroupsLinked, LeadsFor
<1> QED
  BY <1>1, <1>2, <1>3, <1>4, <1>5, <1>6, Surroundings DEF Next, Begin, Finished

\* A request waits for a loader exactly as long as its call of it does.
LEMMA StepCalls == LinkIInv /\ [Next]_vars => CallsLinked'
<1> SUFFICES ASSUME LinkIInv, [Next]_vars PROVE CallsLinked'
  OBVIOUS
<1> USE DEF KeyOf
<1>a. /\ pc \in [Requests -> Steps] /\ req \in [Requests -> Request]
      /\ missCall \in [Requests -> Miss!Call]
      /\ refreshCall \in [Requests -> Refresh!Call]
  BY Typed DEF LinkIInv
<1>b. CallsLinked
  BY DEF LinkIInv
<1>1. ASSUME NEW r \in Requests, Begin(r) PROVE CallsLinked'
  <2>1. pc[r] = "idle" /\ UNCHANGED <<missCall, refreshCall>>
    BY <1>1, BeginsFresh DEF missVars, refreshVars
  <2>2. PICK p \in {"read", "follow", "write"} : Goes(r, p, NoAnswer)
    BY <1>1, BeginsFresh
  <2>3. PICK q : req' = [req EXCEPT ![r] = q]
    BY <1>1, BeginsFresh
  <2> QED BY <1>a, <1>b, <2>1, <2>2, <2>3 DEF Goes, CallsLinked
<1>2. ASSUME NEW r \in Requests, Load(r) PROVE CallsLinked'
  <2>1. /\ pc[r] = "load" /\ pc' = [pc EXCEPT ![r] = "awaitLoad"]
        /\ UNCHANGED <<req, refreshCall>>
    BY <1>2 DEF Load, Goes, context, refreshVars
  <2>2. PICK f : missCall' = [missCall EXCEPT ![r] =
                   [st |-> "waiting", key |-> KeyOf(r), on |-> f, res |-> None]]
    BY <1>2 DEF Load, Miss!Join, Miss!Create, Miss!Calls
  <2> QED BY <1>a, <1>b, <2>1, <2>2 DEF CallsLinked
<1>3. ASSUME NEW r \in Requests, Reload(r) PROVE CallsLinked'
  <2>1. /\ pc[r] = "refresh" /\ pc' = [pc EXCEPT ![r] = "awaitRefresh"]
        /\ UNCHANGED <<req, missCall>>
    BY <1>3 DEF Reload, Goes, context, missVars
  <2>2. PICK f : refreshCall' = [refreshCall EXCEPT ![r] =
                   [st |-> "waiting", key |-> KeyOf(r), on |-> f, res |-> None]]
    BY <1>3 DEF Reload, Refresh!Join, Refresh!Create, Refresh!Calls
  <2> QED BY <1>a, <1>b, <2>1, <2>2 DEF CallsLinked
<1>4. ASSUME NEW r \in Requests, Loaded(r) PROVE CallsLinked'
  <2>1. pc[r] = "awaitLoad" /\ UNCHANGED <<req, refreshCall>>
    BY <1>4 DEF Loaded, context, refreshVars
  <2>2. PICK p : pc' = [pc EXCEPT ![r] = p] /\ p \in {"protect", "leave", "writeBack"}
    BY <1>4 DEF Loaded, Continues, Goes, NilCacheGet, Then
  <2>3. PICK y : missCall' = [missCall EXCEPT ![r].st = "returned", ![r].res = y]
    BY <1>4 DEF Loaded, Miss!Receive, Miss!GiveUp, Miss!Returns
  <2>4. /\ missCall'[r].st = "returned"
        /\ \A s \in Requests : s # r => missCall'[s] = missCall[s]
    BY <1>a, <2>3 DEF Miss!Call
  <2> QED BY <1>a, <1>b, <2>1, <2>2, <2>4 DEF CallsLinked
<1>5. ASSUME NEW r \in Requests, Reloaded(r) PROVE CallsLinked'
  <2>1. pc[r] = "awaitRefresh" /\ UNCHANGED <<req, missCall>>
    BY <1>5 DEF Reloaded, context, missVars
  <2>2. PICK p : pc' = [pc EXCEPT ![r] = p] /\ p \in {"leave", "rewrite"}
    BY <1>5 DEF Reloaded, Goes
  <2>3. PICK y : refreshCall' = [refreshCall EXCEPT ![r].st = "returned", ![r].res = y]
    BY <1>5 DEF Reloaded, Refresh!Receive, Refresh!GiveUp, Refresh!Returns
  <2>4. /\ refreshCall'[r].st = "returned"
        /\ \A s \in Requests : s # r => refreshCall'[s] = refreshCall[s]
    BY <1>a, <2>3 DEF Refresh!Call
  <2> QED BY <1>a, <1>b, <2>1, <2>2, <2>4 DEF CallsLinked
<1>6. ASSUME NEW r \in Requests,
             Read(r) \/ WriteBack(r) \/ Protect(r) \/ Rewrite(r) \/ Leave(r)
               \/ Share(r) \/ Write(r)
      PROVE  CallsLinked'
  <2>1. /\ pc[r] \notin {"awaitLoad", "awaitRefresh"}
        /\ UNCHANGED <<req, missCall, refreshCall>>
    BY <1>6 DEF Read, WriteBack, Protect, Rewrite, Leave, Share, Write, context,
                missVars, refreshVars
  <2>2. PICK p : pc' = [pc EXCEPT ![r] = p] /\ p \notin {"awaitLoad", "awaitRefresh"}
    BY <1>6 DEF Read, WriteBack, Protect, Rewrite, Leave, Share, Write, Continues,
                Goes, LogicTTLGet, MissedLoaderGet, NilCacheGet, Then
  <2> QED BY <1>a, <1>b, <2>1, <2>2 DEF CallsLinked
<1>7. ASSUME UNCHANGED <<pc, req, missCall, refreshCall>> PROVE CallsLinked'
  BY <1>7, <1>b DEF CallsLinked
<1> QED
  BY <1>1, <1>2, <1>3, <1>4, <1>5, <1>6, <1>7, Surroundings
     DEF Next, Proceed, Finished

\* What a request or the environment does to the store.
LEMMA StoreSteps ==
    ASSUME Next, store' # store
    PROVE  \/ \E r \in Requests :
                \/ /\ pc[r] = "writeBack"
                   /\ store' = [store EXCEPT ![KeyOf(r)] = Entry("value", res[r].ver)]
                \/ /\ pc[r] = "protect"
                   /\ store' = [store EXCEPT ![KeyOf(r)] = Entry("placeholder", res[r].ver)]
                \/ /\ pc[r] = "rewrite"
                   /\ store' = [store EXCEPT ![KeyOf(r)] =
                                  Entry("value", refreshCall[r].res.ver)]
                \/ pc[r] = "write" /\ store' = Written(r)
           \/ \E k \in Keys : Age(k)
<1>1. ASSUME NEW r \in Requests, Proceed(r), store' # store
      PROVE  \/ WriteBack(r) /\ pc[r] = "writeBack"
             \/ Protect(r) /\ pc[r] = "protect"
             \/ Rewrite(r) /\ pc[r] = "rewrite"
             \/ pc[r] = "write" /\ store' = Written(r)
  BY <1>1 DEF Proceed, Read, Load, Loaded, WriteBack, Protect, Reload, Reloaded,
              Rewrite, Leave, Share, Write
<1>2. ASSUME \/ \E r \in Requests : Begin(r) \/ Cancel(r)
             \/ \E f \in Requests : MissLoader(f) \/ RefreshLoader(f)
             \/ \E k \in Keys : Update(k)
             \/ Finished
      PROVE  UNCHANGED store
  BY <1>2, BeginsFresh DEF Cancel, MissLoader, RefreshLoader, Update, Finished, vars
<1> QED BY <1>1, <1>2 DEF Next, WriteBack, Protect, Rewrite, Stores

\* There is still one entry that says that there is none.
LEMMA StepEmpty == LinkIInv /\ [Next]_vars => EmptyIsEmpty'
<1> SUFFICES ASSUME LinkIInv, [Next]_vars, store' # store PROVE EmptyIsEmpty'
  BY DEF LinkIInv, EmptyIsEmpty
<1>a. /\ EmptyIsEmpty /\ store \in [Keys -> StoreEntry]
      /\ \A r \in Requests : pc[r] = "write" => req[r].op \in Writes
  BY Typed DEF LinkIInv, IInv, TypeOK, MayBeAt
<1>1. ASSUME NEW k, NEW e, store' = [store EXCEPT ![k] = e],
             e.tag = "notfound" => e = Empty
      PROVE  EmptyIsEmpty'
  BY <1>1, <1>a DEF EmptyIsEmpty
<1>2. \A v : /\ Entry("value", v).tag = "value"
             /\ Entry("placeholder", v).tag = "placeholder"
  BY DEF Entry
<1>3. ASSUME NEW r \in Requests, pc[r] = "write", store' = Written(r)
      PROVE  EmptyIsEmpty'
  BY <1>1, <1>2, <1>3, <1>a DEF Written, Writes, EmptyIsEmpty
<1>4. ASSUME NEW k \in Keys, Age(k) PROVE EmptyIsEmpty'
  <2>1. CASE store' = [store EXCEPT ![k] = Empty]
    BY <1>1, <2>1
  <2>2. CASE store' = [store EXCEPT ![k].stale = TRUE]
    <3>1. store[k].tag # "notfound"
      BY <1>4, <1>a DEF Age, EmptyIsEmpty
    <3>2. store'[k].tag = store[k].tag
      BY <1>a, <2>2 DEF StoreEntry
    <3> QED BY <1>a, <2>2, <3>1, <3>2 DEF EmptyIsEmpty
  <2> QED BY <1>4, <2>1, <2>2 DEF Age
<1> QED BY <1>1, <1>2, <1>3, <1>4, StoreSteps DEF vars

\* What the loader of a call that returns has answered is a loader's result,
\* and a context error has its cause.
LEMMA LoadedResult ==
    ASSUME LinkIInv, [Next]_vars, NEW r \in Requests, Loaded(r)
    PROVE  /\ missCall'[r].res \in LoaderResults
           /\ missCall'[r].on \in Requests
           /\ missCall'[r].res = CtxErr =>
                cancelled'[r] \/ cancelled'[missCall'[r].on]
<1>1. MissFlight!IInv'
  BY StepFlights DEF LinkIInv, FlightsOK
<1>2. missCall'[r].st = "returned"
  <2>1. PICK y : missCall' = [missCall EXCEPT ![r].st = "returned", ![r].res = y]
    BY DEF Loaded, Miss!Receive, Miss!GiveUp, Miss!Returns
  <2> QED BY <2>1, Typed DEF LinkIInv, Miss!Call
<1>3. /\ MissFlight!TypeOK' /\ MissFlight!CallsHaveFlights'
      /\ MissFlight!CtxErrorHasCause'
  BY <1>1 DEF MissFlight!IInv
<1> QED BY <1>2, <1>3 DEF MissFlight!TypeOK, MissFlight!CallsHaveFlights,
                          MissFlight!CtxErrorHasCause

\* So is that of the logic-expire loader.
LEMMA ReloadedResult ==
    ASSUME LinkIInv, [Next]_vars, NEW r \in Requests, Reloaded(r)
    PROVE  refreshCall'[r].res \in LoaderResults
<1>1. RefreshFlight!TypeOK'
  BY StepFlights DEF LinkIInv, FlightsOK, RefreshFlight!IInv
<1>2. refreshCall'[r].st = "returned"
  <2>1. PICK y : refreshCall' = [refreshCall EXCEPT ![r].st = "returned", ![r].res = y]
    BY DEF Reloaded, Refresh!Receive, Refresh!GiveUp, Refresh!Returns
  <2> QED BY <2>1, Typed DEF LinkIInv, Refresh!Call
<1> QED BY <1>1, <1>2 DEF RefreshFlight!TypeOK

\* What a loader returns is data or an error.
LEMMA ResultKinds ==
    \A x \in LoaderResults :
        /\ x.tag \in {"value", "notfound", "err", "ctx"}
        /\ ~IsError(x) => x.tag = "value"
        /\ x.tag = "ctx" => x = CtxErr
  BY DEF LoaderResults, Answer, Err, CtxErr, IsError

\* Every step leads on with the right thing.
LEMMA StepStages == LinkIInv /\ [Next]_vars => StagesHaveData'
<1> SUFFICES ASSUME LinkIInv, [Next]_vars PROVE StagesHaveData'
  OBVIOUS
<1>a. /\ pc \in [Requests -> Steps] /\ res \in [Requests -> Outcome]
      /\ refreshCall \in [Requests -> Refresh!Call]
  BY Typed DEF LinkIInv
<1>b. StagesHaveData
  BY DEF LinkIInv
\* A step after which r has what it needs, and no other's reload has ended.
<1>1. ASSUME NEW r \in Requests, NEW p, NEW x, Goes(r, p, x),
             \A s \in Requests : s # r => refreshCall'[s] = refreshCall[s],
             p \in {"load", "awaitLoad", "protect"} => x.tag = "notfound",
             p = "writeBack" => x.tag = "value",
             p = "rewrite" => refreshCall'[r].res.tag = "value"
      PROVE  StagesHaveData'
  BY <1>1, <1>a, <1>b DEF Goes, StagesHaveData
<1>2. ASSUME NEW r \in Requests, Begin(r) PROVE StagesHaveData'
  <2>1. PICK p \in {"read", "follow", "write"} : Goes(r, p, NoAnswer)
    BY <1>2, BeginsFresh
  <2>2. UNCHANGED refreshCall
    BY <1>2, BeginsFresh DEF refreshVars
  <2> QED BY <1>1, <2>1, <2>2
<1>3. ASSUME NEW r \in Requests, Read(r) PROVE StagesHaveData'
  <2>1. PICK e : Goes(r, LogicTTLGet(r, e).pc, LogicTTLGet(r, e).res)
    BY <1>3 DEF Read, Continues
  <2>2. LogicTTLGet(r, e).pc \in {"refresh", "load", "protect", "leave"}
    BY DEF LogicTTLGet, MissedLoaderGet, NilCacheGet, Then
  <2>3. LogicTTLGet(r, e).pc \in {"load", "protect"} =>
          LogicTTLGet(r, e).res.tag = "notfound"
    BY DEF LogicTTLGet, MissedLoaderGet, NilCacheGet, Then
  <2> QED BY <1>1, <1>3, <2>1, <2>2, <2>3 DEF Read, refreshVars
<1>4. ASSUME NEW r \in Requests, Load(r) PROVE StagesHaveData'
  BY <1>1, <1>4, <1>b DEF Load, refreshVars, StagesHaveData
<1>5. ASSUME NEW r \in Requests, Loaded(r) PROVE StagesHaveData'
  <2> DEFINE x == missCall'[r].res
  <2>1. IF IsError(x) THEN Goes(r, NilCacheGet(x).pc, NilCacheGet(x).res)
                      ELSE Goes(r, "writeBack", x)
    BY <1>5 DEF Loaded, Continues, Then
  <2>2. UNCHANGED refreshCall
    BY <1>5 DEF Loaded, refreshVars
  <2>3. /\ NilCacheGet(x).pc \in {"protect", "leave"}
        /\ NilCacheGet(x).pc = "protect" => NilCacheGet(x).res.tag = "notfound"
    BY DEF NilCacheGet, Then
  <2>4. ~IsError(x) => x.tag = "value"
    BY <1>5, LoadedResult, ResultKinds
  <2> HIDE DEF x
  <2> QED BY <1>1, <2>1, <2>2, <2>3, <2>4
<1>6. ASSUME NEW r \in Requests, Reload(r) PROVE StagesHaveData'
  <2>1. Goes(r, "awaitRefresh", res[r])
    BY <1>6 DEF Reload
  <2>2. \A s \in Requests : s # r => refreshCall'[s] = refreshCall[s]
    BY <1>6, <1>a DEF Reload, Refresh!Join, Refresh!Create, Refresh!Calls
  <2> QED BY <1>1, <2>1, <2>2
<1>7. ASSUME NEW r \in Requests, Reloaded(r) PROVE StagesHaveData'
  <2>1. Goes(r, IF IsError(refreshCall'[r].res) THEN "leave" ELSE "rewrite", res[r])
    BY <1>7 DEF Reloaded
  <2>2. \A s \in Requests : s # r => refreshCall'[s] = refreshCall[s]
    BY <1>7, <1>a DEF Reloaded, Refresh!Receive, Refresh!GiveUp, Refresh!Returns
  <2>3. ~IsError(refreshCall'[r].res) => refreshCall'[r].res.tag = "value"
    BY <1>7, ReloadedResult, ResultKinds
  <2> QED BY <1>1, <2>1, <2>2, <2>3
<1>8. ASSUME NEW r \in Requests,
             WriteBack(r) \/ Protect(r) \/ Rewrite(r) \/ Leave(r) \/ Share(r)
               \/ Write(r)
      PROVE  StagesHaveData'
  <2>1. PICK p \in {"leave", "done"} : \E x : Goes(r, p, x)
    BY <1>8 DEF WriteBack, Protect, Rewrite, Leave, Share, Write
  <2>2. UNCHANGED refreshCall
    BY <1>8 DEF WriteBack, Protect, Rewrite, Leave, Share, Write, refreshVars
  <2> QED BY <1>1, <2>1, <2>2
<1>9. ASSUME UNCHANGED <<pc, res, refreshCall>> PROVE StagesHaveData'
  BY <1>9, <1>b DEF StagesHaveData
<1>10. ASSUME NEW r \in Requests, Proceed(r) PROVE StagesHaveData'
  BY <1>3, <1>4, <1>5, <1>6, <1>7, <1>8, <1>10 DEF Proceed
<1> QED
  BY <1>2, <1>9, <1>10, Surroundings DEF Next, Finished

\* Every context error keeps its cause, and a new one has one.
LEMMA StepContext == LinkIInv /\ [Next]_vars => ContextErrors'
<1> SUFFICES ASSUME LinkIInv, [Next]_vars PROVE ContextErrors'
  OBVIOUS
<1> USE NoneAssumption
<1>a. /\ pc \in [Requests -> Steps] /\ res \in [Requests -> Outcome]
      /\ joined \in [Requests -> Requests \cup {None}]
      /\ store \in [Keys -> StoreEntry]
      /\ missCall \in [Requests -> Miss!Call]
      /\ \A r \in Requests : pc[r] # "idle" => KeyOf(r) \in Keys
      /\ cancelled \in [Requests -> BOOLEAN]
  BY Typed DEF LinkIInv, IInv, TypeOK, Miss!TypeOK
<1>b. ContextErrors /\ GroupsLinked /\ GroupsLinked'
  BY StepGroups DEF LinkIInv
\* A step of r, which was at work: others do not depend on it, unless it is a
\* request that they wait for.
<1>1. ASSUME NEW r \in Requests, NEW p, NEW x, Goes(r, p, x),
             pc[r] # "done",
             \A s \in Requests : s # r => joined'[s] = joined[s],
             \A s \in Requests : s # r => missCall'[s] = missCall[s],
             UNCHANGED cancelled,
             x.tag = "ctx" =>
                 /\ p \in {"leave", "done"}
                 /\ IF joined'[r] = None THEN OwnCause(r)'
                                         ELSE joined'[r] # r /\ res[joined'[r]] = x
      PROVE  ContextErrors'
  <2>1. \A s \in Requests : IF s = r THEN pc'[s] = p /\ res'[s] = x
                                     ELSE pc'[s] = pc[s] /\ res'[s] = res[s]
    BY <1>1, <1>a DEF Goes
  <2>2. ASSUME NEW s \in Requests, s # r, res'[s].tag = "ctx"
        PROVE  /\ pc'[s] \in {"leave", "done"}
               /\ IF joined'[s] = None THEN OwnCause(s)'
                                       ELSE res'[joined'[s]] = res'[s]
    <3>1. /\ pc[s] \in {"leave", "done"}
          /\ IF joined[s] = None THEN OwnCause(s) ELSE res[joined[s]] = res[s]
      BY <1>b, <2>1, <2>2 DEF ContextErrors
    <3>2. joined[s] # None => joined[s] \in Requests /\ joined[s] # r
      BY <1>1, <1>a, <1>b, <3>1 DEF GroupsLinked
    <3>3. OwnCause(s) => OwnCause(s)'
      BY <1>1, <2>2 DEF OwnCause
    <3> QED BY <1>1, <2>1, <2>2, <3>1, <3>2, <3>3
  <2>3. ASSUME res'[r].tag = "ctx"
        PROVE  /\ pc'[r] \in {"leave", "done"}
               /\ IF joined'[r] = None THEN OwnCause(r)'
                                       ELSE res'[joined'[r]] = res'[r]
    <3>1. joined'[r] # None => joined'[r] \in Requests
      BY <1>b, <1>a, StepTypes DEF LinkIInv, TypeOK
    <3> QED BY <1>1, <2>1, <2>3, <3>1
  <2> QED BY <2>2, <2>3 DEF ContextErrors
\* In the chain there is no context error before the end, nor another's.
<1>2. \A r \in Requests : pc[r] \notin {"follow", "done"} => joined[r] = None
  BY <1>b DEF GroupsLinked
<1>3. \A r \in Requests : pc[r] \notin {"leave", "done"} => res[r].tag # "ctx"
  BY <1>b DEF ContextErrors
<1>4. ASSUME NEW r \in Requests, Begin(r) PROVE ContextErrors'
  <2>1. pc[r] = "idle" /\ UNCHANGED <<missCall, cancelled>>
    BY <1>4, BeginsFresh DEF missVars
  <2>2. PICK p : Goes(r, p, NoAnswer)
    BY <1>4, BeginsFresh
  <2>3. \A s \in Requests : s # r => joined'[s] = joined[s]
    BY <1>4, <1>a DEF Begin, Lead, Follow, BeginWrite, mergeVars
  <2>4. NoAnswer.tag # "ctx"
    BY DEF NoAnswer, Answer
  <2> QED BY <1>1, <2>1, <2>2, <2>3, <2>4
<1>5. ASSUME NEW r \in Requests, Read(r) PROVE ContextErrors'
  <2>1. PICK e \in StoreReturns(r) :
          Goes(r, LogicTTLGet(r, e).pc, LogicTTLGet(r, e).res)
    BY <1>5 DEF Read, Continues
  <2>2. /\ pc[r] = "read" /\ UNCHANGED <<joined, missCall, cancelled>>
    BY <1>5 DEF Read, context, mergeVars, missVars
  <2>3. ASSUME LogicTTLGet(r, e).res.tag = "ctx"
        PROVE  LogicTTLGet(r, e).pc = "leave" /\ cancelled[r]
    <3>1. e.tag = "ctx" /\ LogicTTLGet(r, e).pc = "leave"
      BY <2>3 DEF LogicTTLGet, MissedLoaderGet, NilCacheGet, Then, Answer, IsHit
    <3>2. store[KeyOf(r)].tag # "ctx"
      BY <1>a, <2>2 DEF StoreEntry
    <3> QED BY <3>1, <3>2 DEF StoreReturns, Entry
  <2> QED BY <1>1, <1>2, <2>1, <2>2, <2>3 DEF OwnCause
<1>6. ASSUME NEW r \in Requests, Loaded(r) PROVE ContextErrors'
  <2> DEFINE x == missCall'[r].res
  <2>1. pc[r] = "awaitLoad" /\ UNCHANGED <<joined, cancelled>>
    BY <1>6 DEF Loaded, context, mergeVars
  <2>2. \A s \in Requests : s # r => missCall'[s] = missCall[s]
    BY <1>6, <1>a DEF Loaded, Miss!Receive, Miss!GiveUp, Miss!Returns
  <2>3. PICK p : Goes(r, p, x) /\ (x.tag = "ctx" => p = "leave")
    BY <1>6 DEF Loaded, Continues, NilCacheGet, Then, IsError
  <2>4. x.tag = "ctx" => OwnCause(r)'
    BY <1>6, LoadedResult, ResultKinds DEF OwnCause
  <2> HIDE DEF x
  <2> QED BY <1>1, <1>2, <2>1, <2>2, <2>3, <2>4
<1>7. ASSUME NEW r \in Requests, Load(r) PROVE ContextErrors'
  <2>1. /\ pc[r] = "load" /\ Goes(r, "awaitLoad", res[r])
        /\ UNCHANGED <<joined, cancelled>>
    BY <1>7 DEF Load, context, mergeVars
  <2>2. \A s \in Requests : s # r => missCall'[s] = missCall[s]
    BY <1>7, <1>a DEF Load, Miss!Join, Miss!Create, Miss!Calls
  <2> QED BY <1>1, <1>3, <2>1, <2>2
<1>8. ASSUME NEW r \in Requests,
             WriteBack(r) \/ Protect(r) \/ Reload(r) \/ Reloaded(r) \/ Rewrite(r)
      PROVE  ContextErrors'
  <2>1. pc[r] \notin {"leave", "done"} /\ UNCHANGED <<joined, missCall, cancelled>>
    BY <1>8 DEF WriteBack, Protect, Reload, Reloaded, Rewrite, context, mergeVars,
                missVars
  <2>2. PICK p, x : Goes(r, p, x) /\ (x = res[r] \/ x.tag = "placeholder")
    BY <1>8 DEF WriteBack, Protect, Reload, Reloaded, Rewrite, Answer
  <2> QED BY <1>1, <1>3, <2>1, <2>2
<1>9. ASSUME NEW r \in Requests, Leave(r) PROVE ContextErrors'
  <2>1. /\ pc[r] = "leave" /\ Goes(r, "done", res[r])
        /\ UNCHANGED <<joined, missCall, cancelled>>
    BY <1>9 DEF Leave, context, missVars
  <2>2. res[r].tag = "ctx" => OwnCause(r)'
    BY <1>b, <1>2, <2>1 DEF ContextErrors, OwnCause
  <2> QED BY <1>1, <1>2, <2>1, <2>2
<1>10. ASSUME NEW r \in Requests, Share(r) PROVE ContextErrors'
  <2>1. /\ pc[r] = "follow" /\ pc[joined[r]] = "done" /\ joined[r] # r
        /\ UNCHANGED <<joined, missCall, cancelled>>
    BY <1>10 DEF Share, context, mergeVars, missVars
  <2>2. PICK x : Goes(r, "done", x) /\ (x = res[joined[r]] \/ x.tag = "panic")
    BY <1>10 DEF Share, Answer
  <2>3. joined[r] \in Requests
    BY <2>1 DEF LinkIInv, IInv, TypeOK, MayBeAt
  <2> QED BY <1>1, <2>1, <2>2, <2>3
<1>11. ASSUME NEW r \in Requests, Write(r) PROVE ContextErrors'
  <2>1. pc[r] = "write" /\ UNCHANGED <<joined, missCall, cancelled>>
    BY <1>11 DEF Write, context, mergeVars, missVars
  <2>2. PICK x : Goes(r, "done", x) /\ (x.tag = "ctx" => cancelled[r])
    BY <1>11 DEF Write, WriteErrors, Answer, Err, CtxErr
  <2> QED BY <1>1, <1>2, <2>1, <2>2 DEF OwnCause
<1>12. ASSUME UNCHANGED <<pc, res, joined, missCall>>,
              \A s \in Requests : cancelled[s] => cancelled'[s]
       PROVE  ContextErrors'
  <2>1. \A s \in Requests : missCall[s].on \in Requests \cup {None}
    BY <1>a DEF Miss!Call
  <2> QED BY <1>12, <1>b, <2>1 DEF ContextErrors, OwnCause
<1>13. ASSUME \/ \E r \in Requests : Cancel(r)
              \/ \E f \in Requests : MissLoader(f) \/ RefreshLoader(f)
              \/ \E k \in Keys : Update(k) \/ Age(k)
              \/ UNCHANGED vars
       PROVE  ContextErrors'
  <2>1. UNCHANGED <<pc, res, joined, missCall>>
    BY <1>13, Surroundings
  <2>2. \A s \in Requests : cancelled[s] => cancelled'[s]
    BY <1>13, <1>a DEF Cancel, MissLoader, RefreshLoader, Update, Age, vars, context
  <2> QED BY <1>12, <2>1, <2>2
<1>14. ASSUME NEW r \in Requests, Proceed(r) PROVE ContextErrors'
  BY <1>5, <1>6, <1>7, <1>8, <1>9, <1>10, <1>11, <1>14 DEF Proceed
<1> QED BY <1>4, <1>13, <1>14 DEF Next, Finished

\* The invariant holds before any request begins.
LEMMA InitLink == Init => LinkIInv
<1> SUFFICES ASSUME Init PROVE LinkIInv
  OBVIOUS
<1>1. IInv
  BY InitIInv
<1>2. GroupsLinked
  BY DEF Init, GroupsLinked
<1>3. CallsLinked
  BY DEF Init, Miss!Init, Refresh!Init, CallsLinked
<1>4. EmptyIsEmpty
  BY DEF Init, EmptyIsEmpty
<1>5. StagesHaveData /\ ContextErrors
  BY DEF Init, StagesHaveData, ContextErrors, NoAnswer, Answer
<1> QED BY <1>1, <1>2, <1>3, <1>4, <1>5 DEF LinkIInv

\* Every step keeps it.
LEMMA StepLink == LinkIInv /\ [Next]_vars => LinkIInv'
  BY StepIInv, StepGroups, StepCalls, StepEmpty, StepStages, StepContext
     DEF LinkIInv

\* A read that fails with a context error has a context that ended, or joined
\* a read or a load whose context ended: there are never more hops than that.
THEOREM ContextErrorsHaveCauses == Spec => []CtxErrorHasCause
<1>1. LinkIInv => CtxErrorHasCause
  <2> SUFFICES ASSUME LinkIInv, NEW r \in Requests, pc[r] = "done", res[r] = CtxErr
               PROVE  \E c \in Causes(r) : cancelled[c]
    BY DEF CtxErrorHasCause
  <2> USE NoneAssumption
  <2>1. /\ ContextErrors /\ GroupsLinked
        /\ joined \in [Requests -> Requests \cup {None}]
    BY Typed DEF LinkIInv
  <2>2. CtxErr.tag = "ctx"
    BY DEF CtxErr, Answer
  <2>3. CASE joined[r] = None
    <3>1. OwnCause(r)
      BY <2>1, <2>2, <2>3 DEF ContextErrors
    <3> QED BY <2>3, <3>1 DEF OwnCause, Causes
  <2>4. CASE joined[r] # None
    <3>1. joined[r] \in Requests /\ joined[joined[r]] = None
      BY <2>1, <2>4 DEF GroupsLinked, LeadsFor
    <3>2. OwnCause(joined[r])
      BY <2>1, <2>2, <2>4, <3>1 DEF ContextErrors
    <3> QED BY <2>4, <3>1, <3>2 DEF OwnCause, Causes
  <2> QED BY <2>3, <2>4
<1> QED BY <1>1, InitLink, StepLink, PTL DEF Spec

\* A request that has begun remains what it was.
LEMMA RequestsKept ==
    ASSUME IInv, [Next]_vars
    PROVE  /\ UNCHANGED features
           /\ \A r \in Requests : pc[r] # "idle" => req'[r] = req[r]
<1>1. req \in [Requests -> Request]
  BY Typed
<1>2. ASSUME NEW r \in Requests, Begin(r)
      PROVE  /\ pc[r] = "idle" /\ UNCHANGED features
             /\ \A s \in Requests : s # r => req'[s] = req[s]
  BY <1>1, <1>2, BeginsFresh
<1>3. ASSUME \/ \E r \in Requests : Proceed(r) \/ Cancel(r)
             \/ \E f \in Requests : MissLoader(f) \/ RefreshLoader(f)
             \/ \E k \in Keys : Update(k) \/ Age(k)
             \/ UNCHANGED vars
      PROVE  UNCHANGED <<features, req>>
  BY <1>3 DEF Proceed, Read, Load, Loaded, WriteBack, Protect, Reload, Reloaded,
         Rewrite, Leave, Share, Write, Cancel, MissLoader, RefreshLoader, Age,
         Update, vars, context
<1> QED BY <1>2, <1>3 DEF Next, Finished

\* A request that is no longer idle has begun.
LEMMA Beginners ==
    ASSUME IInv, [Next]_vars, NEW r \in Requests, pc[r] = "idle", pc'[r] # "idle"
    PROVE  \E k \in Keys : \E o \in Ops :
             Lead(r, o, k) \/ Follow(r, o, k) \/ BeginWrite(r, o, k)
<1>1. pc \in [Requests -> Steps]
  BY Typed
<1>2. ASSUME NEW s \in Requests, Begin(s) PROVE s = r
  BY <1>1, <1>2, BeginsFresh DEF Goes
<1>3. ASSUME NEW s \in Requests, Proceed(s) PROVE FALSE
  <2>1. pc[s] # "idle"
    BY <1>3 DEF Proceed, Read, Load, Loaded, WriteBack, Protect, Reload, Reloaded,
         Rewrite, Leave, Share, Write
  <2>2. \E p, x : Goes(s, p, x)
    BY <1>3 DEF Proceed, Read, Load, Loaded, WriteBack, Protect, Reload, Reloaded,
         Rewrite, Leave, Share, Write, Continues
  <2> QED BY <1>1, <2>1, <2>2 DEF Goes
<1> QED BY <1>2, <1>3, Surroundings DEF Next, Finished, Begin

-----------------------------------------------------------------------------
(***************************************************************************)
(* The source and the floors                                               *)
(***************************************************************************)

\* Something is left of k, or somebody is at work on it.
Busy(k) == ~(Quiet(k) /\ store[k] = Empty)

\* Only an update changes the source, and only to add a version.
LEMMA SourceGrows ==
    ASSUME IInv, [Next]_vars, NEW k \in Keys
    PROVE  /\ source[k] <= source'[k]
           /\ \A v \in Versions :
                v <= source[k] => (v \in absent'[k] <=> v \in absent[k])
<1>1. source \in [Keys -> Versions] /\ absent \in [Keys -> SUBSET Versions]
  BY DEF IInv, TypeOK, SourceTypeOK
<1>2. CASE \E j \in Keys : Update(j)
  BY <1>1, <1>2, VersionAssumption DEF Update, SourceUpdate, Versions
<1>3. CASE UNCHANGED sourceVars
  BY <1>1, <1>3, VersionAssumption DEF sourceVars, Versions
<1>4. (\A j \in Keys : ~Update(j)) => UNCHANGED sourceVars
  BY BeginsFresh
     DEF Next, Proceed, Read, Load, Loaded, WriteBack, Protect, Reload, Reloaded,
         Rewrite, Leave, Share, Write, Cancel, MissLoader, RefreshLoader, Age,
         Finished, vars, context
<1> QED BY <1>2, <1>3, <1>4

\* Only a request that begins moves a floor, up to the source, and only when
\* nothing is left of the key and nobody is at work on it.
LEMMA FloorMoves ==
    ASSUME IInv, FloorsBounded, [Next]_vars
    PROVE  /\ \A k \in Keys : /\ floor[k] <= floor'[k] /\ floor'[k] <= source'[k]
                              /\ Busy(k) => floor'[k] = floor[k]
           /\ \A r \in Requests : pc[r] # "idle" => floorAt'[r] = floorAt[r]
<1>1. /\ source \in [Keys -> Versions] /\ floor \in [Keys -> Versions]
      /\ floorAt \in [Requests -> Versions]
  BY DEF IInv, TypeOK, SourceTypeOK
<1>2. \A k \in Keys : source[k] <= source'[k] /\ source'[k] \in Versions
  BY SourceGrows, StepTypes DEF TypeOK, SourceTypeOK
<1>3. ASSUME NEW r \in Requests, NEW o, NEW k \in Keys, Begins(r, o, k)
      PROVE  /\ \A j \in Keys : /\ floor'[j] \in {floor[j], source[j]}
                                /\ Busy(j) => floor'[j] = floor[j]
             /\ \A s \in Requests : pc[s] # "idle" => floorAt'[s] = floorAt[s]
  BY <1>1, <1>3 DEF Begins, Busy
<1>4. CASE \E r \in Requests : Begin(r)
  <2>1. PICK r \in Requests : \E k \in Keys : \E o : Begins(r, o, k)
    BY <1>4 DEF Begin, Lead, Follow, BeginWrite
  <2>2. /\ \A j \in Keys : /\ floor'[j] \in {floor[j], source[j]}
                           /\ Busy(j) => floor'[j] = floor[j]
        /\ \A s \in Requests : pc[s] # "idle" => floorAt'[s] = floorAt[s]
    BY <1>3, <2>1
  <2> QED BY <1>1, <1>2, <2>2, VersionAssumption DEF Versions, FloorsBounded
<1>5. CASE UNCHANGED historyVars
  BY <1>1, <1>2, <1>5, VersionAssumption DEF historyVars, Versions, FloorsBounded
<1>6. (\A r \in Requests : ~Begin(r)) => UNCHANGED historyVars
  BY DEF Next, Proceed, Read, Load, Loaded, WriteBack, Protect, Reload, Reloaded,
         Rewrite, Leave, Share, Write, Cancel, MissLoader, RefreshLoader, Age,
         Update, Finished, vars, context, historyVars
<1> QED BY <1>4, <1>5, <1>6

\* Where data is, or may still come from, the floor stays.
LEMMA BusyKeys ==
    ASSUME LinkIInv
    PROVE  /\ \A k \in Keys : store[k].tag # "notfound" => Busy(k)
           /\ \A r \in Requests : pc[r] \notin {"idle", "done"} => Busy(KeyOf(r))
           /\ \A f \in Requests : missFlight[f].st = "loaded" =>
                Busy(missFlight[f].key)
           /\ \A f \in Requests : refreshFlight[f].st = "loaded" =>
                Busy(refreshFlight[f].key)
  BY DEF Busy, Quiet, Empty, Entry, Miss!InFlight, Refresh!InFlight

\* What the source returns is sound at that moment.
LEMMA SourceIsSound ==
    ASSUME IInv, FloorsBounded, NEW k \in Keys, NEW x \in SourceReturns(k)
    PROVE  Sound(k, x)
<1>1. /\ source[k] \in Versions /\ floor[k] <= source[k]
  BY DEF IInv, TypeOK, SourceTypeOK, FloorsBounded
<1> QED BY <1>1, VersionAssumption
        DEF Sound, True, Fresh, SourceReturns, Current, Answer, Err, CtxErr, Versions

\* Every step keeps the floors below the source, and the floor at which a
\* request began below that of its key.
LEMMA StepFloors == IInv /\ FloorsBounded /\ [Next]_vars => FloorsBounded'
<1> SUFFICES ASSUME IInv, FloorsBounded, [Next]_vars PROVE FloorsBounded'
  OBVIOUS
<1>1. /\ \A k \in Keys : floor[k] \in Versions /\ floor'[k] \in Versions
      /\ \A r \in Requests : floorAt[r] \in Versions /\ floorAt'[r] \in Versions
      /\ \A r \in Requests : pc[r] # "idle" => KeyOf(r) \in Keys
  BY StepTypes DEF IInv, TypeOK, MayBeAt
<1>2. ASSUME NEW r \in Requests, pc'[r] # "idle"
      PROVE  floorAt'[r] <= floor'[KeyOf(r)']
  <2>1. CASE pc[r] # "idle"
    <3>1. KeyOf(r)' = KeyOf(r)
      BY <2>1, RequestsKept DEF KeyOf
    <3> QED BY <1>1, <2>1, <3>1, FloorMoves, VersionAssumption
            DEF FloorsBounded, Versions
  <2>2. CASE pc[r] = "idle"
    <3>1. PICK k \in Keys : \E o \in Ops : Begins(r, o, k)
      BY <1>2, <2>2, Beginners DEF Lead, Follow, BeginWrite
    <3>2. KeyOf(r)' = k /\ floorAt'[r] = floor'[k]
      BY <3>1 DEF Begins, KeyOf, IInv, TypeOK
    <3> QED BY <1>1, <3>1, <3>2, VersionAssumption DEF Versions
  <2> QED BY <2>1, <2>2
<1> QED BY <1>2, FloorMoves DEF FloorsBounded

-----------------------------------------------------------------------------
(***************************************************************************)
(* Data on its way                                                         *)
(***************************************************************************)

\* What is sound of a key stays so as long as the key is busy, and what was
\* true of it remains true.
LEMMA SoundHeld ==
    ASSUME IInv, FloorsBounded, [Next]_vars, NEW k \in Keys, NEW x,
           x.ver \in Versions
    PROVE  /\ x.tag = "value" /\ x.ver <= source[k] /\ x.ver \notin absent[k]
                => x.ver <= source'[k] /\ x.ver \notin absent'[k]
           /\ x.ver <= source[k] /\ x.ver \in absent[k]
                => x.ver <= source'[k] /\ x.ver \in absent'[k]
           /\ Busy(k) /\ x.ver >= floor[k] => x.ver >= floor'[k]
<1>1. source[k] \in Versions /\ source'[k] \in Versions
  BY StepTypes DEF IInv, TypeOK, SourceTypeOK
<1> QED BY <1>1, SourceGrows, FloorMoves, VersionAssumption DEF Versions

\* What is stored has come from the source.
LEMMA StepStoreSound ==
    ASSUME DataIInv, Has("missLoader"), [Next]_vars
    PROVE  StoreSound'
<1>a. /\ LinkIInv /\ IInv /\ FloorsBounded /\ DataSound
      /\ store \in [Keys -> StoreEntry] /\ res \in [Requests -> Outcome]
      /\ \A r \in Requests : pc[r] # "idle" => KeyOf(r) \in Keys
      /\ \A r \in Requests : req[r].ver \in Versions
  BY Typed DEF DataIInv, LinkIInv, Request
\* An entry that is sound for its key remains so.
<1>1. ASSUME NEW k \in Keys, NEW e, e.ver \in Versions, Sound(k, e), Busy(k),
             e.tag \in {"value", "placeholder"}, store'[k].tag = e.tag,
             store'[k].ver = e.ver
      PROVE  Sound(k, store[k])'
  BY <1>1, <1>a, SoundHeld DEF Sound, True, Fresh
\* One that is left as it was is.
<1>2. ASSUME NEW k \in Keys, store'[k].tag # "notfound", store[k].tag # "notfound",
             store'[k].tag = store[k].tag, store'[k].ver = store[k].ver
      PROVE  Sound(k, store[k])'
  <2>1. store[k].ver \in Versions /\ store[k].tag \in {"value", "placeholder"}
    BY <1>2, <1>a DEF StoreEntry
  <2>2. Busy(k) /\ Sound(k, store[k])
    BY <1>2, <1>a, BusyKeys DEF DataSound, StoreSound
  <2> QED BY <1>1, <1>2, <2>1, <2>2
\* So is one that a request writes.
<1>3. ASSUME NEW r \in Requests, NEW e, NEW f, pc[r] \notin {"idle", "done"},
             store' = [store EXCEPT ![KeyOf(r)] = e],
             e.tag \in {"value", "placeholder"}, e.tag = f.tag, e.ver = f.ver,
             f.ver \in Versions, Sound(KeyOf(r), f)
      PROVE  StoreSound'
  <2>1. KeyOf(r) \in Keys /\ Busy(KeyOf(r))
    BY <1>3, <1>a, BusyKeys
  <2>2. \A k \in Keys : store'[k] = IF k = KeyOf(r) THEN e ELSE store[k]
    BY <1>3, <1>a
  <2>3. Sound(KeyOf(r), store[KeyOf(r)])'
    <3>1. store'[KeyOf(r)] = e
      BY <2>1, <2>2
    <3> QED BY <1>3, <2>1, <3>1, <1>a, SoundHeld, RequestsKept
            DEF Sound, True, Fresh, KeyOf
  <2>4. ASSUME NEW k \in Keys, k # KeyOf(r), store'[k].tag # "notfound"
        PROVE  Sound(k, store[k])'
    BY <1>2, <2>2, <2>4
  <2>5. KeyOf(r)' = KeyOf(r)
    BY <1>3, <1>a, RequestsKept DEF KeyOf
  <2> QED BY <2>3, <2>4, <2>5 DEF StoreSound
<1>4. \A v : /\ Entry("value", v).tag = "value" /\ Entry("value", v).ver = v
             /\ Entry("placeholder", v).tag = "placeholder"
             /\ Entry("placeholder", v).ver = v
             /\ Empty.tag = "notfound"
  BY DEF Entry, Empty
<1>5. ASSUME NEW r \in Requests, pc[r] = "writeBack",
             store' = [store EXCEPT ![KeyOf(r)] = Entry("value", res[r].ver)]
      PROVE  StoreSound'
  <2>1. /\ Sound(KeyOf(r), res[r]) /\ res[r].tag = "value"
        /\ res[r].ver \in Versions
    BY <1>5, <1>a DEF DataSound, AnswersSound, Missed, LinkIInv, StagesHaveData,
                      Sound, Outcome
  <2> QED BY <1>3, <1>4, <1>5, <2>1
<1>6. ASSUME NEW r \in Requests, pc[r] = "protect",
             store' = [store EXCEPT ![KeyOf(r)] = Entry("placeholder", res[r].ver)]
      PROVE  StoreSound'
  <2>1. /\ Sound(KeyOf(r), res[r]) /\ res[r].tag = "notfound"
        /\ res[r].ver \in Versions
    BY <1>6, <1>a DEF DataSound, AnswersSound, Missed, LinkIInv, StagesHaveData,
                      Sound, Outcome
  <2>2. Sound(KeyOf(r), Entry("placeholder", res[r].ver))
    BY <1>4, <2>1 DEF Sound, True, Fresh
  <2> QED BY <1>3, <1>4, <1>6, <2>1, <2>2
<1>7. ASSUME NEW r \in Requests, pc[r] = "rewrite",
             store' = [store EXCEPT ![KeyOf(r)] = Entry("value", refreshCall[r].res.ver)]
      PROVE  StoreSound'
  <2>1. Sound(KeyOf(r), refreshCall[r].res) /\ refreshCall[r].res.tag = "value"
    BY <1>7, <1>a DEF DataSound, RewritesSound, LinkIInv, StagesHaveData
  <2>2. refreshCall[r].res \in LoaderResults
    BY <1>7, <1>a DEF IInv, RewritesHaveResults, TypeOK, Refresh!TypeOK
  <2>3. refreshCall[r].res.ver \in Versions
    BY <2>2, AnswerTypes DEF Outcome
  <2> QED BY <1>3, <1>4, <1>7, <2>1, <2>3
<1>8. ASSUME NEW r \in Requests, pc[r] = "write", store' = Written(r)
      PROVE  StoreSound'
  <2>1. req[r].op \in Writes
    BY <1>8, <1>a DEF IInv, TypeOK, MayBeAt
  <2>2. CASE req[r].op = "Set"
    <3>1. store' = [store EXCEPT ![KeyOf(r)] = Entry("value", req[r].ver)]
      BY <1>8, <2>2 DEF Written
    <3>2. Sound(KeyOf(r), Entry("value", req[r].ver))
      BY <1>8, <1>a, <1>4, <2>2
         DEF DataSound, SetsSound, Sound, True, Fresh, Answer
    <3>3. req[r].ver \in Versions /\ pc[r] \notin {"idle", "done"}
      BY <1>8, <1>a
    <3> QED BY <1>3, <1>4, <3>1, <3>2, <3>3
  <2>3. CASE req[r].op \in {"Delete", "Clear"}
    <3>1. \A k \in Keys : store'[k] = store[k] \/ store'[k] = Empty
      BY <1>8, <1>a, <2>3 DEF Written
    <3> QED BY <1>2, <1>4, <3>1 DEF StoreSound
  <2> QED BY <2>1, <2>2, <2>3 DEF Writes
<1>9. ASSUME NEW k \in Keys, Age(k) PROVE StoreSound'
  <2>1. \A j \in Keys : \/ store'[j] = Empty
                        \/ store'[j].tag = store[j].tag /\ store'[j].ver = store[j].ver
    BY <1>9, <1>a DEF Age, StoreEntry
  <2> QED BY <1>2, <1>4, <2>1 DEF StoreSound
<1>10. CASE UNCHANGED store
  BY <1>2, <1>10 DEF StoreSound
<1> QED BY <1>5, <1>6, <1>7, <1>8, <1>9, <1>10, StoreSteps DEF vars

\* What a loader has returned comes from the source, and what the flight hands
\* over is what the loader returned.
LEMMA StepMissSound ==
    ASSUME DataIInv, Has("missLoader"), [Next]_vars
    PROVE  MissSound'
<1>a. /\ LinkIInv /\ IInv /\ FloorsBounded /\ MissSound /\ CallsLinked
      /\ CallsLinked' /\ MissFlight!IInv /\ MissFlight!IInv'
      /\ Miss!TypeOK /\ Miss!TypeOK'
  BY StepCalls, StepFlights
     DEF DataIInv, LinkIInv, DataSound, IInv, TypeOK, FlightsOK
<1>b. \A r \in Requests : pc[r] # "idle" => KeyOf(r) \in Keys
  BY <1>a, Typed
\* A result that has been there remains sound.
<1>1. ASSUME NEW k \in Keys, NEW x \in LoaderResults, Sound(k, x), Busy(k)
      PROVE  /\ x.tag = "value" => x.ver <= source'[k] /\ x.ver \notin absent'[k]
             /\ x.tag = "notfound" => x.ver <= source'[k] /\ x.ver \in absent'[k]
             /\ x.tag \in {"value", "notfound"} => x.ver >= floor'[k]
  <2>1. x.ver \in Versions
    BY AnswerTypes DEF Outcome
  <2> QED BY <1>1, <1>a, <2>1, SoundHeld DEF Sound, True, Fresh
<1>2. \A x \in LoaderResults : x.tag # "placeholder"
  BY ResultKinds
<1>3. \A f \in Requests :
        /\ missFlight[f].st \in {"loaded", "done"} =>
             missFlight[f].res \in LoaderResults
        /\ missFlight[f].st = "loaded" => missFlight[f].key \in Keys
  BY <1>a DEF MissFlight!IInv, MissFlight!FlightErrorHasCause,
              MissFlight!Registered, MissFlight!InFlight
\* A call in progress is that of a request that has begun.
<1>4. \A r \in Requests : missCall[r].st = "waiting" =>
        /\ pc[r] = "awaitLoad" /\ KeyOf(r) \in Keys /\ KeyOf(r)' = KeyOf(r)
        /\ missCall[r].key = KeyOf(r) /\ Busy(KeyOf(r))
        /\ missCall[r].on \in Requests
        /\ missFlight[missCall[r].on].key = KeyOf(r)
  BY <1>a, <1>b, RequestsKept, BusyKeys
     DEF CallsLinked, KeyOf, MissFlight!IInv, MissFlight!CallsHaveFlights
<1>5. ASSUME NEW f \in Requests, missFlight[f].st = "loaded",
             missFlight'[f].key = missFlight[f].key,
             missFlight'[f].res = missFlight[f].res
      PROVE  Sound(missFlight[f].key, missFlight[f].res)'
  <2>1. Sound(missFlight[f].key, missFlight[f].res) /\ Busy(missFlight[f].key)
    BY <1>5, <1>a, BusyKeys DEF MissSound
  <2> QED BY <1>1, <1>2, <1>3, <1>5, <2>1 DEF Sound, True, Fresh
<1>6. ASSUME NEW r \in Requests, missCall[r].st = "waiting",
             missFlight[missCall[r].on].st \in {"loaded", "done"},
             missCall'[r] = missCall[r],
             missFlight'[missCall[r].on].res = missFlight[missCall[r].on].res
      PROVE  Sound(KeyOf(r), missFlight[missCall[r].on].res)'
  <2>1. Sound(KeyOf(r), missFlight[missCall[r].on].res)
    BY <1>4, <1>6, <1>a DEF MissSound
  <2> QED BY <1>1, <1>2, <1>3, <1>4, <1>6, <2>1 DEF Sound, True, Fresh
<1>7. ASSUME UNCHANGED missFlight,
             \A r \in Requests : \/ missCall'[r] = missCall[r]
                                \/ missCall'[r].st # "waiting"
      PROVE  MissSound'
  BY <1>4, <1>5, <1>6, <1>7 DEF MissSound
<1>8. ASSUME NEW r \in Requests, Load(r) PROVE MissSound'
  <2>1. /\ missCall[r].st = "idle" /\ missFlight[r].st = "none"
        /\ \A s \in Requests : s # r => /\ missCall'[s] = missCall[s]
                                       /\ missFlight'[s] = missFlight[s]
        /\ missFlight'[r].st \in {"none", "running"}
    BY <1>8, <1>a DEF Load, Miss!Join, Miss!Create, Miss!Calls, Miss!TypeOK,
                      MissFlight!IInv, MissFlight!CreatedByCall
  <2>2. missFlight'[missCall'[r].on].st # "done"
    BY <1>8, <1>a, <1>b DEF Load, Miss!Join, Miss!Create, Miss!Calls, Miss!TypeOK,
               MissFlight!IInv, MissFlight!Registered, MissFlight!InFlight
  <2> QED BY <1>4, <1>5, <1>6, <2>1, <2>2 DEF MissSound
<1>9. ASSUME NEW f \in Requests, MissLoader(f) PROVE MissSound'
  <2>1. missFlight[f].key \in Keys /\ UNCHANGED <<missCall, sourceVars, floor>>
    BY <1>9, <1>a, FlightKeys DEF MissLoader, Miss!Load, Miss!Deliver, context,
                                  historyVars, IInv
  <2>2. CASE Miss!Deliver(f)
    <3>1. /\ missFlight[f].st = "loaded"
          /\ \A g \in Requests : /\ missFlight'[g].key = missFlight[g].key
                                 /\ missFlight'[g].res = missFlight[g].res
                                 /\ g # f => missFlight'[g] = missFlight[g]
      BY <2>2, <1>a DEF Miss!Deliver, Miss!TypeOK, Miss!Flight
    <3> QED BY <1>4, <1>5, <1>6, <2>1, <3>1 DEF MissSound
  <2>3. ASSUME NEW x \in SourceReturns(missFlight[f].key), Miss!Load(f, x)
        PROVE  MissSound'
    <3>1. /\ missFlight'[f].st = "loaded" /\ missFlight'[f].res = x
          /\ missFlight'[f].key = missFlight[f].key
          /\ \A g \in Requests : g # f => missFlight'[g] = missFlight[g]
      BY <2>3, <1>a DEF Miss!Load, Miss!TypeOK, Miss!Flight
    <3>2. Sound(missFlight[f].key, x)
      BY <1>a, <2>1, SourceIsSound
    <3>3. Sound(missFlight[f].key, missFlight[f].res)'
      BY <2>1, <3>1, <3>2 DEF Sound, True, Fresh, sourceVars
    <3> QED BY <1>4, <1>5, <1>6, <2>1, <3>1, <3>3 DEF MissSound
  <2> QED BY <1>9, <2>2, <2>3 DEF MissLoader
<1>10. ASSUME NEW r \in Requests, Loaded(r) PROVE MissSound'
  <2>1. PICK y : missCall' = [missCall EXCEPT ![r].st = "returned", ![r].res = y]
    BY <1>10 DEF Loaded, Miss!Receive, Miss!GiveUp, Miss!Returns
  <2>2. UNCHANGED missFlight
    BY <1>10 DEF Loaded, Miss!Receive, Miss!GiveUp
  <2>3. /\ missCall'[r].st = "returned"
        /\ \A s \in Requests : s # r => missCall'[s] = missCall[s]
    BY <1>a, <2>1 DEF Miss!TypeOK, Miss!Call
  <2> QED BY <1>7, <2>2, <2>3
<1>11. CASE \/ \E r \in Requests :
                 \/ Begin(r) \/ Cancel(r)
                 \/ Proceed(r) /\ ~Load(r) /\ ~Loaded(r)
            \/ \E f \in Requests : RefreshLoader(f)
            \/ \E k \in Keys : Update(k) \/ Age(k)
            \/ UNCHANGED vars
  <2>1. UNCHANGED <<missFlight, missCall>>
    BY <1>11, BeginsFresh
       DEF Proceed, Read, WriteBack, Protect, Reload, Reloaded, Rewrite, Leave,
           Share, Write, Cancel, RefreshLoader, Update, Age, vars, context, missVars
  <2> QED BY <1>7, <2>1
<1> QED BY <1>8, <1>9, <1>10, <1>11 DEF Next, Finished

\* The same of the logic-expire loader.
LEMMA StepRefreshSound ==
    ASSUME DataIInv, Has("missLoader"), [Next]_vars
    PROVE  RefreshSound'
<1>a. /\ LinkIInv /\ IInv /\ FloorsBounded /\ RefreshSound /\ CallsLinked
      /\ CallsLinked' /\ RefreshFlight!IInv /\ RefreshFlight!IInv'
      /\ Refresh!TypeOK /\ Refresh!TypeOK'
  BY StepCalls, StepFlights
     DEF DataIInv, LinkIInv, DataSound, IInv, TypeOK, FlightsOK
<1>b. \A r \in Requests : pc[r] # "idle" => KeyOf(r) \in Keys
  BY <1>a, Typed
\* A result that has been there remains sound.
<1>1. ASSUME NEW k \in Keys, NEW x \in LoaderResults, Sound(k, x), Busy(k)
      PROVE  /\ x.tag = "value" => x.ver <= source'[k] /\ x.ver \notin absent'[k]
             /\ x.tag = "notfound" => x.ver <= source'[k] /\ x.ver \in absent'[k]
             /\ x.tag \in {"value", "notfound"} => x.ver >= floor'[k]
  <2>1. x.ver \in Versions
    BY AnswerTypes DEF Outcome
  <2> QED BY <1>1, <1>a, <2>1, SoundHeld DEF Sound, True, Fresh
<1>2. \A x \in LoaderResults : x.tag # "placeholder"
  BY ResultKinds
<1>3. \A f \in Requests :
        /\ refreshFlight[f].st \in {"loaded", "done"} =>
             refreshFlight[f].res \in LoaderResults
        /\ refreshFlight[f].st = "loaded" => refreshFlight[f].key \in Keys
  BY <1>a DEF RefreshFlight!IInv, RefreshFlight!FlightErrorHasCause,
              RefreshFlight!Registered, RefreshFlight!InFlight
\* A call in progress is that of a request that has begun.
<1>4. \A r \in Requests : refreshCall[r].st = "waiting" =>
        /\ pc[r] = "awaitRefresh" /\ KeyOf(r) \in Keys /\ KeyOf(r)' = KeyOf(r)
        /\ refreshCall[r].key = KeyOf(r) /\ Busy(KeyOf(r))
        /\ refreshCall[r].on \in Requests
        /\ refreshFlight[refreshCall[r].on].key = KeyOf(r)
  BY <1>a, <1>b, RequestsKept, BusyKeys
     DEF CallsLinked, KeyOf, RefreshFlight!IInv, RefreshFlight!CallsHaveFlights
<1>5. ASSUME NEW f \in Requests, refreshFlight[f].st = "loaded",
             refreshFlight'[f].key = refreshFlight[f].key,
             refreshFlight'[f].res = refreshFlight[f].res
      PROVE  Sound(refreshFlight[f].key, refreshFlight[f].res)'
  <2>1. Sound(refreshFlight[f].key, refreshFlight[f].res) /\ Busy(refreshFlight[f].key)
    BY <1>5, <1>a, BusyKeys DEF RefreshSound
  <2> QED BY <1>1, <1>2, <1>3, <1>5, <2>1 DEF Sound, True, Fresh
<1>6. ASSUME NEW r \in Requests, refreshCall[r].st = "waiting",
             refreshFlight[refreshCall[r].on].st \in {"loaded", "done"},
             refreshCall'[r] = refreshCall[r],
             refreshFlight'[refreshCall[r].on].res = refreshFlight[refreshCall[r].on].res
      PROVE  Sound(KeyOf(r), refreshFlight[refreshCall[r].on].res)'
  <2>1. Sound(KeyOf(r), refreshFlight[refreshCall[r].on].res)
    BY <1>4, <1>6, <1>a DEF RefreshSound
  <2> QED BY <1>1, <1>2, <1>3, <1>4, <1>6, <2>1 DEF Sound, True, Fresh
<1>7. ASSUME UNCHANGED refreshFlight,
             \A r \in Requests : \/ refreshCall'[r] = refreshCall[r]
                                \/ refreshCall'[r].st # "waiting"
      PROVE  RefreshSound'
  BY <1>4, <1>5, <1>6, <1>7 DEF RefreshSound
<1>8. ASSUME NEW r \in Requests, Reload(r) PROVE RefreshSound'
  <2>1. /\ refreshCall[r].st = "idle" /\ refreshFlight[r].st = "none"
        /\ \A s \in Requests : s # r => /\ refreshCall'[s] = refreshCall[s]
                                       /\ refreshFlight'[s] = refreshFlight[s]
        /\ refreshFlight'[r].st \in {"none", "running"}
    BY <1>8, <1>a DEF Reload, Refresh!Join, Refresh!Create, Refresh!Calls,
                      Refresh!TypeOK, RefreshFlight!IInv, RefreshFlight!CreatedByCall
  <2>2. refreshFlight'[refreshCall'[r].on].st # "done"
    BY <1>8, <1>a, <1>b
       DEF Reload, Refresh!Join, Refresh!Create, Refresh!Calls, Refresh!TypeOK,
           RefreshFlight!IInv, RefreshFlight!Registered, RefreshFlight!InFlight
  <2> QED BY <1>4, <1>5, <1>6, <2>1, <2>2 DEF RefreshSound
<1>9. ASSUME NEW f \in Requests, RefreshLoader(f) PROVE RefreshSound'
  <2>1. refreshFlight[f].key \in Keys /\ UNCHANGED <<refreshCall, sourceVars, floor>>
    BY <1>9, <1>a, FlightKeys DEF RefreshLoader, Refresh!Load, Refresh!Deliver, context,
                                  historyVars, IInv
  <2>2. CASE Refresh!Deliver(f)
    <3>1. /\ refreshFlight[f].st = "loaded"
          /\ \A g \in Requests : /\ refreshFlight'[g].key = refreshFlight[g].key
                                 /\ refreshFlight'[g].res = refreshFlight[g].res
                                 /\ g # f => refreshFlight'[g] = refreshFlight[g]
      BY <2>2, <1>a DEF Refresh!Deliver, Refresh!TypeOK, Refresh!Flight
    <3> QED BY <1>4, <1>5, <1>6, <2>1, <3>1 DEF RefreshSound
  <2>3. ASSUME NEW x \in SourceReturns(refreshFlight[f].key), Refresh!Load(f, x)
        PROVE  RefreshSound'
    <3>1. /\ refreshFlight'[f].st = "loaded" /\ refreshFlight'[f].res = x
          /\ refreshFlight'[f].key = refreshFlight[f].key
          /\ \A g \in Requests : g # f => refreshFlight'[g] = refreshFlight[g]
      BY <2>3, <1>a DEF Refresh!Load, Refresh!TypeOK, Refresh!Flight
    <3>2. Sound(refreshFlight[f].key, x)
      BY <1>a, <2>1, SourceIsSound
    <3>3. Sound(refreshFlight[f].key, refreshFlight[f].res)'
      BY <2>1, <3>1, <3>2 DEF Sound, True, Fresh, sourceVars
    <3> QED BY <1>4, <1>5, <1>6, <2>1, <3>1, <3>3 DEF RefreshSound
  <2> QED BY <1>9, <2>2, <2>3 DEF RefreshLoader
<1>10. ASSUME NEW r \in Requests, Reloaded(r) PROVE RefreshSound'
  <2>1. PICK y :
          refreshCall' = [refreshCall EXCEPT ![r].st = "returned", ![r].res = y]
    BY <1>10 DEF Reloaded, Refresh!Receive, Refresh!GiveUp, Refresh!Returns
  <2>2. UNCHANGED refreshFlight
    BY <1>10 DEF Reloaded, Refresh!Receive, Refresh!GiveUp
  <2>3. /\ refreshCall'[r].st = "returned"
        /\ \A s \in Requests : s # r => refreshCall'[s] = refreshCall[s]
    BY <1>a, <2>1 DEF Refresh!TypeOK, Refresh!Call
  <2> QED BY <1>7, <2>2, <2>3
<1>11. CASE \/ \E r \in Requests :
                 \/ Begin(r) \/ Cancel(r)
                 \/ Proceed(r) /\ ~Reload(r) /\ ~Reloaded(r)
            \/ \E f \in Requests : MissLoader(f)
            \/ \E k \in Keys : Update(k) \/ Age(k)
            \/ UNCHANGED vars
  <2>1. UNCHANGED <<refreshFlight, refreshCall>>
    BY <1>11, BeginsFresh
       DEF Proceed, Read, Load, Loaded, WriteBack, Protect, Rewrite, Leave,
           Share, Write, Cancel, MissLoader, Update, Age, vars, context, refreshVars
  <2> QED BY <1>7, <2>1
<1> QED BY <1>8, <1>9, <1>10, <1>11 DEF Next, Finished

\* What a reload returned is sound when it is about to be stored.
LEMMA StepRewritesSound ==
    ASSUME DataIInv, Has("missLoader"), [Next]_vars
    PROVE  RewritesSound'
<1>a. /\ LinkIInv /\ IInv /\ FloorsBounded /\ RewritesSound /\ RefreshSound
      /\ CallsLinked /\ RefreshFlight!IInv /\ Refresh!TypeOK
      /\ pc \in [Requests -> Steps]
  BY DEF DataIInv, LinkIInv, DataSound, IInv, TypeOK, FlightsOK
<1>b. \A r \in Requests : pc[r] # "idle" => KeyOf(r) \in Keys
  BY <1>a, Typed
<1>1. ASSUME NEW r \in Requests, pc[r] \notin {"idle", "done"},
             NEW x \in LoaderResults, Sound(KeyOf(r), x), refreshCall'[r].res = x
      PROVE  Sound(KeyOf(r), refreshCall[r].res)'
  <2>1. /\ KeyOf(r) \in Keys /\ Busy(KeyOf(r)) /\ KeyOf(r)' = KeyOf(r)
        /\ x.ver \in Versions /\ x.tag # "placeholder"
    BY <1>1, <1>a, <1>b, BusyKeys, RequestsKept, AnswerTypes, ResultKinds
       DEF KeyOf, Outcome
  <2> QED BY <1>1, <1>a, <2>1, SoundHeld DEF Sound, True, Fresh
<1>2. ASSUME NEW r \in Requests, Reloaded(r), pc'[r] = "rewrite"
      PROVE  Sound(KeyOf(r), refreshCall[r].res)'
  <2>1. pc[r] = "awaitRefresh" /\ refreshCall'[r].res.tag \notin {"err", "ctx"}
    BY <1>2, <1>a DEF Reloaded, Goes, IsError
  <2>2. refreshCall[r].st = "waiting" /\ refreshCall[r].on \in Requests
    BY <1>2, <1>a DEF Reloaded, Refresh!Receive, Refresh!GiveUp,
                      RefreshFlight!IInv, RefreshFlight!CallsHaveFlights
  <2>3. CASE Refresh!Receive(r)
    <3>1. /\ refreshFlight[refreshCall[r].on].st = "done"
          /\ refreshCall'[r].res = refreshFlight[refreshCall[r].on].res
      BY <2>3, <1>a DEF Refresh!Receive, Refresh!Returns, Refresh!TypeOK, Refresh!Call
    <3>2. refreshFlight[refreshCall[r].on].res \in LoaderResults
      BY <1>a, <2>2, <3>1
         DEF RefreshFlight!IInv, RefreshFlight!FlightErrorHasCause
    <3>3. Sound(KeyOf(r), refreshFlight[refreshCall[r].on].res)
      BY <1>a, <2>2, <3>1 DEF RefreshSound
    <3> QED BY <1>1, <2>1, <3>1, <3>2, <3>3
  <2>4. CASE Refresh!GiveUp(r)
    <3>1. refreshCall'[r].res = CtxErr
      BY <2>4, <1>a DEF Refresh!GiveUp, Refresh!Returns, Refresh!TypeOK, Refresh!Call
    <3> QED BY <2>1, <3>1 DEF CtxErr, Answer
  <2> QED BY <1>2, <2>3, <2>4 DEF Reloaded
<1>3. ASSUME NEW r \in Requests, pc'[r] = "rewrite", pc[r] = "rewrite",
             refreshCall'[r] = refreshCall[r]
      PROVE  Sound(KeyOf(r), refreshCall[r].res)'
  <2>1. Sound(KeyOf(r), refreshCall[r].res)
    BY <1>3, <1>a DEF RewritesSound
  <2>2. refreshCall[r].res \in LoaderResults
    BY <1>3, <1>a DEF IInv, RewritesHaveResults, Refresh!TypeOK
  <2> QED BY <1>1, <1>3, <2>1, <2>2
\* Only a reload leads to a rewrite.
<1>4. ASSUME NEW r \in Requests, Begin(r)
      PROVE  /\ UNCHANGED refreshCall
             /\ \A s \in Requests : pc'[s] = "rewrite" => pc[s] = "rewrite"
  <2>1. PICK p \in {"read", "follow", "write"} : Goes(r, p, NoAnswer)
    BY <1>4, BeginsFresh
  <2> QED BY <1>4, <1>a, <2>1, BeginsFresh DEF Goes, refreshVars
<1>5. ASSUME NEW r \in Requests, Proceed(r), ~Reloaded(r)
      PROVE  \A s \in Requests :
               pc'[s] = "rewrite" => /\ pc[s] = "rewrite"
                                     /\ refreshCall'[s] = refreshCall[s]
  <2>1. PICK p : pc' = [pc EXCEPT ![r] = p] /\ p # "rewrite"
    BY <1>5 DEF Proceed, Read, Load, Loaded, WriteBack, Protect, Reload, Rewrite,
          Leave, Share, Write, Continues, Goes, LogicTTLGet, MissedLoaderGet,
          NilCacheGet, Then
  <2>2. \A s \in Requests : s # r => refreshCall'[s] = refreshCall[s]
    BY <1>5, <1>a DEF Proceed, Read, Load, Loaded, WriteBack, Protect, Reload,
          Rewrite, Leave, Share, Write, refreshVars, Refresh!Join, Refresh!Create,
          Refresh!Calls, Refresh!TypeOK
  <2> QED BY <1>a, <2>1, <2>2
<1>6. ASSUME NEW r \in Requests, Reloaded(r)
      PROVE  \A s \in Requests : s # r =>
               pc'[s] = pc[s] /\ refreshCall'[s] = refreshCall[s]
  BY <1>6, <1>a DEF Reloaded, Goes, Refresh!Receive, Refresh!GiveUp,
                    Refresh!Returns, Refresh!TypeOK
<1>7. ASSUME NEW s \in Requests, pc'[s] = "rewrite"
      PROVE  Sound(KeyOf(s), refreshCall[s].res)'
  BY <1>2, <1>3, <1>4, <1>5, <1>6, <1>7, Surroundings DEF Next, Finished
<1> QED BY <1>7 DEF RewritesSound

\* The chain passes on what the store or the loader says of the key, but for a
\* miss that it asks the loader about.
LEMMA StagesPassOn ==
    ASSUME NEW r, NEW e, e.tag # "notfound"
    PROVE  /\ LogicTTLGet(r, e).res = Answer(e.tag, e.ver)
           /\ LogicTTLGet(r, e).pc # "done"
  BY DEF LogicTTLGet, MissedLoaderGet, NilCacheGet, Then, Answer

\* What a request has got is what it was told by the store, by a loader or by
\* the request that it joined.
LEMMA StepAnswersSound ==
    ASSUME DataIInv, Has("missLoader"), [Next]_vars
    PROVE  AnswersSound'
<1>a. /\ LinkIInv /\ IInv /\ FloorsBounded /\ AnswersSound /\ StoreSound
      /\ MissSound /\ SharesSound /\ CallsLinked /\ GroupsLinked
      /\ StagesHaveData /\ EmptyIsEmpty /\ MissFlight!IInv /\ Miss!TypeOK
      /\ pc \in [Requests -> Steps] /\ res \in [Requests -> Outcome]
      /\ store \in [Keys -> StoreEntry]
      /\ joined \in [Requests -> Requests \cup {None}]
      /\ pc' \in [Requests -> Steps] /\ res' \in [Requests -> Outcome]
      /\ \A r \in Requests : floorAt[r] \in Versions /\ floorAt'[r] \in Versions
      /\ \A k \in Keys : floor[k] \in Versions /\ floor'[k] \in Versions
  BY Typed, StepTypes
     DEF DataIInv, LinkIInv, DataSound, IInv, TypeOK, FlightsOK
<1>b. \A r \in Requests : pc[r] # "idle" => KeyOf(r) \in Keys /\ KeyOf(r)' = KeyOf(r)
  BY <1>a, Typed, RequestsKept DEF KeyOf
\* What r must have got when it goes on.
<1> DEFINE Right(r, p, x) ==
              /\ True(KeyOf(r), x)
              /\ p # "done" => Fresh(KeyOf(r), x)
              /\ p = "done" /\ IsHit(x) => x.ver >= floorAt[r]
           Told(r) == /\ True(KeyOf(r), res[r])'
                      /\ pc'[r] # "done" => Fresh(KeyOf(r), res[r])'
                      /\ pc'[r] = "done" /\ IsHit(res'[r]) =>
                           res'[r].ver >= floorAt'[r]
\* A request that has it already keeps it.
<1>1. ASSUME NEW r \in Requests, pc[r] # "idle", Right(r, pc'[r], res'[r]),
             pc[r] # "done" \/ pc'[r] = "done"
      PROVE  Told(r)
  <2>1. /\ KeyOf(r) \in Keys /\ KeyOf(r)' = KeyOf(r) /\ res'[r].ver \in Versions
        /\ floorAt'[r] = floorAt[r]
    BY <1>1, <1>a, <1>b, FloorMoves DEF Outcome
  <2>2. True(KeyOf(r), res[r])'
    BY <1>1, <1>a, <2>1, SoundHeld DEF True
  <2>3. pc'[r] # "done" => Fresh(KeyOf(r), res[r])'
    <3>1. pc'[r] # "done" => Busy(KeyOf(r))
      BY <1>1, <1>a, BusyKeys
    <3> QED BY <1>1, <1>a, <2>1, <3>1, SoundHeld DEF Fresh
  <2> QED BY <1>1, <2>1, <2>2, <2>3
\* What is sound is right.
<1>2. ASSUME NEW r \in Requests, pc[r] # "idle", NEW p, NEW x,
             x.ver \in Versions, Sound(KeyOf(r), x)
      PROVE  Right(r, p, x)
  <2>1. floorAt[r] <= floor[KeyOf(r)] /\ KeyOf(r) \in Keys
    BY <1>2, <1>a, <1>b DEF FloorsBounded
  <2> QED BY <1>2, <1>a, <2>1, VersionAssumption
          DEF Sound, Fresh, IsHit, Versions
<1>3. ASSUME NEW r \in Requests, NEW x, x.tag \notin {"value", "placeholder", "notfound"}
      PROVE  Sound(KeyOf(r), x)
  BY <1>3 DEF Sound, True, Fresh
\* A step of r that makes it go on with what is right.
<1>4. ASSUME NEW r \in Requests, pc[r] \notin {"idle", "done"}, NEW p, NEW x,
             Goes(r, p, x), ~Missed(p) => Right(r, p, x)
      PROVE  AnswersSound'
  <2> SUFFICES ASSUME NEW s \in Requests, pc'[s] # "idle", ~Missed(pc'[s])
               PROVE  Told(s)
    BY DEF AnswersSound
  <2>1. CASE s = r
    <3>1. pc'[r] = p /\ res'[r] = x
      BY <1>4, <1>a DEF Goes
    <3> QED BY <1>1, <1>4, <2>1, <3>1
  <2>2. CASE s # r
    <3>1. pc'[s] = pc[s] /\ res'[s] = res[s]
      BY <1>4, <1>a, <2>2 DEF Goes
    <3>2. Right(s, pc'[s], res'[s])
      BY <1>a, <3>1 DEF AnswersSound
    <3> QED BY <1>1, <3>1, <3>2
  <2> QED BY <2>1, <2>2
<1>5. ASSUME NEW r \in Requests, pc[r] \notin {"idle", "done"}, NEW p, NEW x,
             Goes(r, p, x), ~Missed(p) => x.ver \in Versions /\ Sound(KeyOf(r), x)
      PROVE  AnswersSound'
  <2>1. ~Missed(p) => Right(r, p, x)
    BY <1>2, <1>5
  <2> HIDE DEF Right, Told
  <2> QED BY <1>4, <1>5, <2>1
\* What r has got in the chain is sound.
<1>6. ASSUME NEW r \in Requests, pc[r] \notin {"idle", "done"}, ~Missed(pc[r])
      PROVE  res[r].ver \in Versions /\ Sound(KeyOf(r), res[r])
  BY <1>6, <1>a DEF AnswersSound, Sound, Outcome
<1> HIDE DEF Right, Told
<1>7. ASSUME NEW r \in Requests, Read(r) PROVE AnswersSound'
  <2>1. PICK e \in StoreReturns(r) :
          Goes(r, LogicTTLGet(r, e).pc, LogicTTLGet(r, e).res)
    BY <1>7 DEF Read, Continues
  <2>2. pc[r] = "read" /\ KeyOf(r) \in Keys
    BY <1>7, <1>b DEF Read
  <2>3. e.ver \in Versions
    BY <1>a, <2>2, AnswerTypes DEF StoreReturns, Entry, StoreEntry
  <2>4. CASE e.tag = "notfound"
    <3>1. LogicTTLGet(r, e).pc = "load"
      BY <2>4 DEF LogicTTLGet, MissedLoaderGet, Then, Answer, IsHit
    <3> QED BY <1>5, <2>1, <2>2, <3>1 DEF Missed
  <2>5. CASE e.tag # "notfound"
    <3>1. LogicTTLGet(r, e).res = Answer(e.tag, e.ver)
      BY <2>5, StagesPassOn
    <3>2. Sound(KeyOf(r), e)
      BY <1>3, <1>a, <2>2, <2>5 DEF StoreReturns, Entry, StoreSound
    <3>3. /\ Sound(KeyOf(r), Answer(e.tag, e.ver))
          /\ Answer(e.tag, e.ver).ver \in Versions
      BY <2>3, <3>2 DEF Sound, True, Fresh, Answer
    <3> QED BY <1>5, <2>1, <2>2, <3>1, <3>3
  <2> QED BY <2>4, <2>5
<1>8. ASSUME NEW r \in Requests, Load(r) PROVE AnswersSound'
  BY <1>5, <1>8 DEF Load, Missed
<1>9. ASSUME NEW r \in Requests, Loaded(r) PROVE AnswersSound'
  <2> DEFINE x == missCall'[r].res
  <2>1. pc[r] = "awaitLoad" /\ missCall[r].st = "waiting"
    BY <1>9, <1>a DEF Loaded, CallsLinked
  <2>2. PICK p : Goes(r, p, x)
    BY <1>9 DEF Loaded, Continues, NilCacheGet, Then
  <2>3. x.ver \in Versions
    BY <1>9, <1>a, LoadedResult, AnswerTypes DEF Outcome
  <2>4. CASE Miss!Receive(r)
    <3>1. /\ missFlight[missCall[r].on].st = "done"
          /\ x = missFlight[missCall[r].on].res
      BY <2>4, <1>a DEF Miss!Receive, Miss!Returns, Miss!TypeOK, Miss!Call
    <3>2. Sound(KeyOf(r), x)
      BY <1>a, <2>1, <3>1 DEF MissSound
    <3> HIDE DEF x
    <3> QED BY <1>5, <2>1, <2>2, <2>3, <3>2
  <2>5. CASE Miss!GiveUp(r)
    <3>1. x = CtxErr
      BY <2>5, <1>a DEF Miss!GiveUp, Miss!Returns, Miss!TypeOK, Miss!Call
    <3> HIDE DEF x
    <3>2. Sound(KeyOf(r), x)
      BY <1>3, <3>1 DEF CtxErr, Answer
    <3> QED BY <1>5, <2>1, <2>2, <2>3, <3>2
  <2> QED BY <1>9, <2>4, <2>5 DEF Loaded
<1>10. ASSUME NEW r \in Requests,
              \/ WriteBack(r) \/ Reload(r) \/ Reloaded(r) \/ Rewrite(r)
              \/ Leave(r)
       PROVE  AnswersSound'
  <2>1. pc[r] \in {"writeBack", "refresh", "awaitRefresh", "rewrite", "leave"}
    BY <1>10 DEF WriteBack, Reload, Reloaded, Rewrite, Leave
  <2>2. PICK p : Goes(r, p, res[r])
    BY <1>10 DEF WriteBack, Reload, Reloaded, Rewrite, Leave
  <2>3. res[r].ver \in Versions /\ Sound(KeyOf(r), res[r])
    BY <1>6, <2>1 DEF Missed
  <2> QED BY <1>5, <2>1, <2>2, <2>3
<1>11. ASSUME NEW r \in Requests, Protect(r) PROVE AnswersSound'
  <2>1. /\ pc[r] = "protect"
        /\ Goes(r, "leave", Answer("placeholder", res[r].ver))
    BY <1>11 DEF Protect
  <2>2. /\ res[r].ver \in Versions /\ Sound(KeyOf(r), res[r])
        /\ res[r].tag = "notfound"
    BY <1>6, <1>a, <2>1 DEF Missed, StagesHaveData
  <2>3. /\ Sound(KeyOf(r), Answer("placeholder", res[r].ver))
        /\ Answer("placeholder", res[r].ver).ver \in Versions
    BY <2>2 DEF Sound, True, Fresh, Answer
  <2> QED BY <1>5, <2>1, <2>3
\* The answer that r shares was fresh when r joined, and is still.
<1>12. ASSUME NEW r \in Requests, Share(r) PROVE AnswersSound'
  <2>1. /\ pc[r] = "follow" /\ joined[r] \in Requests /\ pc[joined[r]] = "done"
        /\ KeyOf(joined[r]) = KeyOf(r)
    BY <1>12, <1>a, NoneAssumption
       DEF Share, IInv, TypeOK, MayBeAt, GroupsLinked, LeadsFor
  <2>2. PICK x : Goes(r, "done", x) /\ (x = res[joined[r]] \/ x = Answer("panic", 0))
    BY <1>12 DEF Share
  <2>3. CASE x = res[joined[r]]
    <3>1. Sound(KeyOf(r), x)
      BY <1>a, <2>1, <2>3 DEF AnswersSound, SharesSound, Missed, Sound
    <3>2. x.ver \in Versions
      BY <1>a, <2>1, <2>3 DEF Outcome
    <3> QED BY <1>5, <2>1, <2>2, <3>1, <3>2
  <2>4. CASE x = Answer("panic", 0)
    <3>1. Sound(KeyOf(r), x) /\ x.ver \in Versions
      BY <1>3, <2>4, AnswerTypes DEF Answer
    <3> QED BY <1>5, <2>1, <2>2, <3>1
  <2> QED BY <2>2, <2>3, <2>4
<1>13. ASSUME NEW r \in Requests, Write(r) PROVE AnswersSound'
  <2>1. pc[r] = "write"
    BY <1>13 DEF Write
  <2>2. PICK x \in {Answer("ok", 0), Err, CtxErr} : Goes(r, "done", x)
    BY <1>13 DEF Write, WriteErrors
  <2>3. x.ver \in Versions /\ Sound(KeyOf(r), x)
    BY <1>3, <2>2, AnswerTypes DEF Answer, Err, CtxErr
  <2> QED BY <1>5, <2>1, <2>2, <2>3
\* A request that begins has no answer.
<1>14. ASSUME NEW r \in Requests, Begin(r) PROVE AnswersSound'
  <2>1. PICK p \in {"read", "follow", "write"} : Goes(r, p, NoAnswer)
    BY <1>14, BeginsFresh
  <2>2. Told(r)
    <3>1. /\ res'[r] = NoAnswer
          /\ NoAnswer.tag \notin {"value", "placeholder", "notfound"}
      BY <1>a, <2>1 DEF Goes, NoAnswer, Answer
    <3> QED BY <3>1 DEF Told, True, Fresh, IsHit
  <2>3. ASSUME NEW s \in Requests, s # r, pc'[s] # "idle", ~Missed(pc'[s])
        PROVE  Told(s)
    <3>1. pc'[s] = pc[s] /\ res'[s] = res[s]
      BY <1>a, <2>1, <2>3 DEF Goes
    <3>2. Right(s, pc'[s], res'[s])
      BY <1>a, <2>3, <3>1 DEF AnswersSound, Right
    <3> QED BY <1>1, <2>3, <3>1, <3>2
  <2> QED BY <2>2, <2>3 DEF AnswersSound, Told
<1>15. ASSUME UNCHANGED <<pc, res>> PROVE AnswersSound'
  <2> SUFFICES ASSUME NEW s \in Requests, pc'[s] # "idle", ~Missed(pc'[s])
               PROVE  Told(s)
    BY DEF AnswersSound, Told
  <2>1. Right(s, pc'[s], res'[s])
    BY <1>15, <1>a DEF AnswersSound, Right
  <2> QED BY <1>1, <1>15, <2>1
<1>16. ASSUME NEW r \in Requests, Proceed(r) PROVE AnswersSound'
  BY <1>7, <1>8, <1>9, <1>10, <1>11, <1>12, <1>13, <1>16 DEF Proceed
<1> QED BY <1>14, <1>15, <1>16, Surroundings DEF Next, Finished

\* A request writes only what it began with.
LEMMA WritesBegin ==
    ASSUME IInv, [Next]_vars, NEW r \in Requests, pc'[r] = "write",
           pc[r] # "write"
    PROVE  pc[r] = "idle"
<1>1. pc \in [Requests -> Steps]
  BY Typed
<1>2. ASSUME NEW s \in Requests, Begin(s) PROVE pc[r] = "idle"
  BY <1>1, <1>2, BeginsFresh DEF Goes
<1>3. ASSUME NEW s \in Requests, Proceed(s) PROVE FALSE
  <2>1. CASE Share(s)
    BY <1>1, <2>1 DEF Share, Goes
  <2>2. CASE ~Share(s)
    BY <1>1, <1>3, <2>2, ChainSteps DEF Goes
  <2> QED BY <2>1, <2>2
<1> QED BY <1>2, <1>3, Surroundings DEF Next, Finished

\* The answer of a read that is over stays fresh for those that joined it.
LEMMA StepSharesSound ==
    ASSUME DataIInv, Has("missLoader"), [Next]_vars
    PROVE  SharesSound'
<1>a. /\ LinkIInv /\ IInv /\ FloorsBounded /\ AnswersSound /\ SharesSound
      /\ GroupsLinked /\ pc \in [Requests -> Steps] /\ res \in [Requests -> Outcome]
      /\ joined \in [Requests -> Requests \cup {None}]
      /\ leader \in [Keys -> Requests \cup {None}]
  BY Typed DEF DataIInv, LinkIInv, DataSound
<1>b. \A r \in Requests : pc[r] # "idle" => KeyOf(r) \in Keys /\ KeyOf(r)' = KeyOf(r)
  BY <1>a, Typed, RequestsKept DEF KeyOf
<1>c. \A r \in Requests : pc[r] = "follow" =>
        /\ joined[r] \in Requests /\ KeyOf(joined[r]) = KeyOf(r)
        /\ pc[joined[r]] \notin {"idle", "follow"}
  BY <1>a, NoneAssumption DEF IInv, TypeOK, MayBeAt, GroupsLinked, LeadsFor
\* What was fresh of a key that somebody still waits for remains so.
<1>1. ASSUME NEW r \in Requests, pc[r] = "follow", NEW x \in Outcome,
             Fresh(KeyOf(r), x), res'[joined[r]] = x, joined'[r] = joined[r]
      PROVE  Fresh(KeyOf(r), res[joined[r]])'
  <2>1. /\ KeyOf(r) \in Keys /\ KeyOf(r)' = KeyOf(r) /\ Busy(KeyOf(r))
        /\ x.ver \in Versions
    BY <1>1, <1>a, <1>b, BusyKeys DEF Outcome
  <2> QED BY <1>1, <1>a, <2>1, SoundHeld DEF Fresh
<1>2. ASSUME NEW r \in Requests, pc[r] = "follow", pc[joined[r]] = "done",
             res'[joined[r]] = res[joined[r]], joined'[r] = joined[r]
      PROVE  Fresh(KeyOf(r), res[joined[r]])'
  BY <1>1, <1>2, <1>a, <1>c DEF SharesSound
<1>3. ASSUME UNCHANGED <<pc, res, joined>> PROVE SharesSound'
  BY <1>2, <1>3 DEF SharesSound
<1>4. ASSUME NEW r \in Requests, Begin(r) PROVE SharesSound'
  <2>1. PICK p \in {"read", "follow", "write"} : Goes(r, p, NoAnswer)
    BY <1>4, BeginsFresh
  <2>2. /\ pc[r] = "idle"
        /\ \A s \in Requests : s # r => /\ pc'[s] = pc[s] /\ res'[s] = res[s]
                                       /\ joined'[s] = joined[s]
    BY <1>4, <1>a, <2>1, BeginsFresh
       DEF Goes, Begin, Lead, Follow, BeginWrite, mergeVars
  <2>3. ASSUME pc'[r] = "follow" PROVE pc'[joined'[r]] # "done"
    <3>1. PICK k \in Keys : \E o : Follow(r, o, k)
      BY <1>4, <1>a, <2>3 DEF Begin, Lead, BeginWrite, Goes
    <3>2. joined'[r] = leader[k] /\ leader[k] \in Requests /\ InChain(leader[k])
      BY <1>a, <3>1 DEF Follow, GroupsLinked
    <3> QED BY <2>2, <3>2 DEF InChain
  <2>4. ASSUME NEW s \in Requests, s # r, pc'[s] = "follow",
               pc'[joined'[s]] = "done"
        PROVE  Fresh(KeyOf(s), res[joined[s]])'
    BY <1>2, <1>c, <2>2, <2>4
  <2> QED BY <2>3, <2>4 DEF SharesSound
\* A read that ends has an answer that is fresh.
<1>5. ASSUME NEW r \in Requests, Leave(r) PROVE SharesSound'
  <2>1. /\ pc[r] = "leave" /\ Goes(r, "done", res[r]) /\ UNCHANGED joined
    BY <1>5 DEF Leave
  <2>2. UNCHANGED res /\ \A s \in Requests : s # r => pc'[s] = pc[s]
    BY <1>a, <2>1 DEF Goes
  <2>3. Fresh(KeyOf(r), res[r])
    BY <1>a, <2>1 DEF AnswersSound, Missed
  <2>4. ASSUME NEW s \in Requests, pc'[s] = "follow", pc'[joined'[s]] = "done"
        PROVE  Fresh(KeyOf(s), res[joined[s]])'
    <3>1. pc[s] = "follow"
      BY <1>a, <2>1, <2>4 DEF Goes
    <3>2. CASE joined[s] = r
      BY <1>1, <1>a, <1>c, <2>1, <2>2, <2>3, <3>1, <3>2
    <3>3. CASE joined[s] # r
      BY <1>2, <1>c, <2>1, <2>2, <2>4, <3>1, <3>3
    <3> QED BY <3>2, <3>3
  <2> QED BY <2>4 DEF SharesSound
\* Nobody waits for a write, and nobody else ends.
<1>6. ASSUME NEW r \in Requests, Proceed(r), ~Leave(r) PROVE SharesSound'
  <2>1. UNCHANGED joined /\ pc[r] \notin {"idle", "done"}
    BY <1>6, StepKinds
  <2>2. PICK p, x : Goes(r, p, x) /\ (InChain(r) \/ p = "done")
    BY <1>6, StepKinds
  <2>3. /\ pc'[r] = p /\ res'[r] = x
        /\ \A s \in Requests : s # r => pc'[s] = pc[s] /\ res'[s] = res[s]
    BY <1>a, <2>2 DEF Goes
  <2>4. p # "follow"
    BY <1>6, <1>a, <2>3, ChainSteps DEF Share, Goes, Steps
  <2>5. InChain(r) => p # "done"
    BY <1>6, <1>a, <2>3, ChainSteps DEF Share, Goes, InChain
  <2>6. pc[r] = "write" => x.tag \in {"ok", "err", "ctx"}
    BY <1>6, <1>a, <2>3 DEF Proceed, Read, Load, Loaded, WriteBack, Protect, Reload,
          Reloaded, Rewrite, Share, Write, Goes, WriteErrors, Answer, Err, CtxErr
  <2>7. ASSUME NEW s \in Requests, pc'[s] = "follow", pc'[joined'[s]] = "done"
        PROVE  Fresh(KeyOf(s), res[joined[s]])'
    <3>1. s # r /\ pc[s] = "follow"
      BY <2>3, <2>4, <2>7
    <3>2. CASE joined[s] = r
      <4>1. pc[r] = "write"
        BY <1>c, <2>1, <2>2, <2>3, <2>5, <2>7, <3>1, <3>2, StepKinds, <1>6 DEF InChain
      <4> QED BY <2>1, <2>3, <2>6, <3>2, <4>1 DEF Fresh
    <3>3. CASE joined[s] # r
      BY <1>2, <1>c, <2>1, <2>3, <2>7, <3>1, <3>3
    <3> QED BY <3>2, <3>3
  <2> QED BY <2>7 DEF SharesSound
<1> QED BY <1>3, <1>4, <1>5, <1>6, Surroundings DEF Next, Finished

\* What a Set is about to write was read from the source when it began.
LEMMA StepSetsSound ==
    ASSUME DataIInv, Has("missLoader"), [Next]_vars
    PROVE  SetsSound'
<1>a. /\ LinkIInv /\ IInv /\ FloorsBounded /\ SetsSound
      /\ pc \in [Requests -> Steps] /\ req \in [Requests -> Request]
      /\ SourceTypeOK /\ SourceTypeOK'
  BY Typed, StepTypes DEF DataIInv, LinkIInv, DataSound, IInv, TypeOK
<1> SUFFICES ASSUME NEW r \in Requests, pc'[r] = "write", req'[r].op = "Set"
             PROVE  Sound(KeyOf(r), Answer("value", req[r].ver))'
  BY DEF SetsSound
<1> DEFINE v == req'[r].ver
<1>1. CASE pc[r] = "write"
  <2>1. req'[r] = req[r] /\ KeyOf(r) \in Keys /\ KeyOf(r)' = KeyOf(r)
    BY <1>1, <1>a, Typed, RequestsKept DEF KeyOf
  <2>2. Busy(KeyOf(r)) /\ v \in Versions
    BY <1>1, <1>a, <2>1, BusyKeys DEF Request
  <2>3. Sound(KeyOf(r), Answer("value", v))
    BY <1>1, <1>a, <2>1 DEF SetsSound
  <2>4. /\ v <= source'[KeyOf(r)] /\ v \notin absent'[KeyOf(r)]
        /\ v >= floor'[KeyOf(r)]
    <3>1. Answer("value", v).ver = v /\ Answer("value", v).tag = "value"
      BY DEF Answer
    <3> HIDE DEF v
    <3> QED BY <1>a, <2>1, <2>2, <2>3, <3>1, SoundHeld DEF Sound, True, Fresh
  <2> QED BY <2>1, <2>4 DEF Sound, True, Fresh, Answer
<1>2. CASE pc[r] # "write"
  <2>1. pc[r] = "idle"
    BY <1>2, <1>a, WritesBegin
  <2>2. PICK k \in Keys, o \in Ops : BeginWrite(r, o, k)
    BY <1>a, <2>1, Beginners DEF Lead, Follow, Goes
  <2>3. /\ req'[r].key = k /\ req'[r].op = o
        /\ o = "Set" => v = source[k] /\ source[k] \notin absent[k]
    BY <1>a, <2>2 DEF BeginWrite, Begins
  <2>4. UNCHANGED sourceVars /\ floor'[k] <= source[k]
    BY <1>a, <2>2, FloorMoves DEF BeginWrite, Begins, sourceVars
  <2>5. source[k] \in Versions /\ floor'[k] \in Versions
    BY <1>a, StepTypes DEF SourceTypeOK, TypeOK
  <2> QED BY <2>3, <2>4, <2>5, VersionAssumption
          DEF Sound, True, Fresh, Answer, KeyOf, sourceVars, Versions
<1> QED BY <1>1, <1>2

\* Nothing is on its way before any request begins.
LEMMA InitData == Init => DataIInv
<1> SUFFICES ASSUME Init PROVE DataIInv
  OBVIOUS
<1>1. FloorsBounded
  BY DEF Init, SourceInit, FloorsBounded
<1>2. StoreSound
  BY DEF Init, StoreSound, Empty, Entry
<1>3. MissSound /\ RefreshSound
  BY DEF Init, Miss!Init, Refresh!Init, MissSound, RefreshSound
<1>4. RewritesSound /\ AnswersSound /\ SharesSound /\ SetsSound
  BY DEF Init, RewritesSound, AnswersSound, SharesSound, SetsSound
<1> QED BY <1>1, <1>2, <1>3, <1>4, InitLink DEF DataIInv, DataSound

\* Every step keeps what is on its way sound.
LEMMA StepData == DataIInv /\ [Next]_vars => DataIInv'
<1> SUFFICES ASSUME DataIInv, [Next]_vars PROVE DataIInv'
  OBVIOUS
<1>1. LinkIInv' /\ FloorsBounded'
  BY StepLink, StepFloors DEF DataIInv, LinkIInv
<1>2. ASSUME Has("missLoader")' PROVE DataSound'
  <2>1. Has("missLoader")
    BY <1>2, RequestsKept DEF Has, DataIInv, LinkIInv
  <2> QED BY <2>1, StepStoreSound, StepMissSound, StepRefreshSound,
             StepRewritesSound, StepAnswersSound, StepSharesSound, StepSetsSound
          DEF DataSound
<1> QED BY <1>1, <1>2 DEF DataIInv

\* The invariant holds in every reachable state.
THEOREM DataInvariance == Spec => []DataIInv
  BY InitData, StepData, PTL DEF Spec

\* With a miss loader, whatever is answered or stored was once true of the
\* source: an error or a cancelled load is never cached as the absence of the
\* key, and nothing absent is answered as a value.
THEOREM AnswersAreTrue == Spec => []AnswersTrue
<1>1. DataIInv => AnswersTrue
  BY DEF DataIInv, DataSound, AnswersSound, StoreSound, Missed, Sound, True,
         AnswersTrue
<1> QED BY <1>1, DataInvariance, PTL

\* Once a key is gone while nobody is at work on it, nothing older than the
\* source was at that moment is ever stored or answered again.
THEOREM InvalidationIsEffective == Spec => []FreshAfterInvalidation
<1>1. DataIInv => FreshAfterInvalidation
  <2> SUFFICES ASSUME DataIInv, Has("missLoader") PROVE FreshAfterInvalidation
    BY DEF FreshAfterInvalidation
  <2>1. /\ StoreSound /\ AnswersSound /\ EmptyIsEmpty
        /\ store \in [Keys -> StoreEntry]
    BY Typed DEF DataIInv, LinkIInv, DataSound
  <2>2. \A k \in Keys : store[k] # Empty => store[k].ver >= floor[k]
    BY <2>1 DEF StoreSound, Sound, Fresh, EmptyIsEmpty, StoreEntry
  <2>3. \A r \in Requests : pc[r] = "done" /\ IsHit(res[r]) =>
          res[r].ver >= floorAt[r]
    BY <2>1 DEF AnswersSound, Missed
  <2> QED BY <2>2, <2>3 DEF FreshAfterInvalidation
<1> QED BY <1>1, DataInvariance, PTL
=============================================================================
