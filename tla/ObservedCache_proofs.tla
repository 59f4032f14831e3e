------------------------- MODULE ObservedCache_proofs -------------------------
(***************************************************************************)
(* Theorems about ObservedCache, for any number of requests, keys and      *)
(* versions and any set of builds. Observing a cache changes nothing of    *)
(* it, so that what is proved about SingleCache holds. The invariant adds  *)
(* what the event of a call has so far, and what was recorded of it.       *)
(***************************************************************************)
EXTENDS ObservedCache, SingleCache_proofs, SequenceTheorems

-----------------------------------------------------------------------------
(***************************************************************************)
(* The inductive invariant                                                 *)
(***************************************************************************)

Fields == {"shared", "not shared", "loaded", "reloaded"}
Records == [result : {"hit", "miss", "fail", "none"}, fields : SUBSET Fields]

TelemetryTypes ==
    /\ event \in [Requests -> SUBSET Fields]
    /\ record \in [Requests -> Seq(Records)]

\* Who begins a flight waits for it, and leaves before its end only with its
\* context.
CreatorsWait ==
    \A r \in Requests :
        /\ missFlight[r].st # "none" =>
             /\ missCall[r].on = r
             /\ missCall[r].st = "returned" /\ ~cancelled[r] =>
                  missFlight[r].st = "done"
        /\ refreshFlight[r].st # "none" =>
             /\ refreshCall[r].on = r
             /\ refreshCall[r].st = "returned" /\ ~cancelled[r] =>
                  refreshFlight[r].st = "done"

HasResult(flight, r) == flight[r].st \in {"loaded", "done"}

\* An event has what loaders have added, and nothing of merged reads before
\* its call returns.
EventsTrue ==
    \A r \in Requests :
        /\ "loaded" \in event[r] <=> HasResult(missFlight, r)
        /\ "reloaded" \in event[r] <=> HasResult(refreshFlight, r)
        /\ pc[r] # "done" => event[r] \cap {"shared", "not shared"} = {}

\* A call that has returned has one record, and another has none.
RecordedOnce ==
    \A r \in Requests : /\ record[r] # <<>> <=> pc[r] = "done"
                        /\ Len(record[r]) <= 1

\* Who r shared its read with.
Others(r) == {s \in Requests : joined[s] = r \/ joined[r] = s}

Recording(r) == record[r][1].fields

RecordsTrue ==
    \A r \in Requests : pc[r] = "done" =>
        /\ Has("singleflight") /\ req[r].op \in Reads =>
             /\ "shared" \in Recording(r) <=> Others(r) # {}
             /\ "not shared" \in Recording(r) <=> Others(r) = {}
        /\ "loaded" \in Recording(r) => HasResult(missFlight, r)
        /\ "reloaded" \in Recording(r) => HasResult(refreshFlight, r)
        /\ ~cancelled[r] =>
             /\ missFlight[r].st # "none" => "loaded" \in Recording(r)
             /\ refreshFlight[r].st # "none" => "reloaded" \in Recording(r)

ObservedIInv ==
    /\ LinkIInv
    /\ CreatorsWait
    /\ TelemetryTypes
    /\ EventsTrue
    /\ RecordedOnce
    /\ RecordsTrue

-----------------------------------------------------------------------------
(***************************************************************************)
(* The cache under observation                                             *)
(***************************************************************************)

\* Every step of the observed cache is one of the cache.
LEMMA ObservedSteps == [ObservedNext]_observedVars => [Next]_vars
<1>1. ObservedNext => Next
  BY DEF ObservedNext, ObservedProceed, ObservedLoader, Next
<1> QED BY <1>1 DEF observedVars

\* Observing a cache changes nothing of it: it is still the chain that
\* SingleCache specifies, whatever its users do with events.
THEOREM ObservationChangesNothing == ObservedSpec => Spec
<1>1. ObservedInit => Init
  BY DEF ObservedInit
<1> QED BY <1>1, ObservedSteps, PTL DEF ObservedSpec, Spec

\* Who goes on, and where to.
LEMMA Movers ==
    ASSUME IInv, [Next]_vars, NEW r \in Requests, pc'[r] # pc[r]
    PROVE  \/ Begin(r) /\ pc[r] = "idle" /\ pc'[r] \in {"read", "follow", "write"}
           \/ Proceed(r) /\ pc[r] \notin {"idle", "done"}
<1>a. pc \in [Requests -> Steps]
  BY Typed
<1>1. ASSUME NEW s \in Requests, Begin(s)
      PROVE  s = r /\ pc[r] = "idle" /\ pc'[r] \in {"read", "follow", "write"}
  BY <1>a, <1>1, BeginsFresh DEF Goes
<1>2. ASSUME NEW s \in Requests, Proceed(s)
      PROVE  s = r /\ pc[r] \notin {"idle", "done"}
  <2>1. pc[s] \notin {"idle", "done"}
    BY <1>2 DEF Proceed, Read, Load, Loaded, WriteBack, Protect, Reload, Reloaded,
         Rewrite, Leave, Share, Write
  <2>2. \E p, x : Goes(s, p, x)
    BY <1>2 DEF Proceed, Read, Load, Loaded, WriteBack, Protect, Reload, Reloaded,
         Rewrite, Leave, Share, Write, Continues
  <2> QED BY <1>a, <2>1, <2>2 DEF Goes
<1> QED BY <1>1, <1>2, Surroundings DEF Next, Finished

\* Who has returned has returned for good.
LEMMA DoneStays ==
    ASSUME IInv, [Next]_vars, NEW r \in Requests, pc[r] = "done"
    PROVE  pc'[r] = "done"
  BY Movers

\* A step of a request moves nobody else.
LEMMA OneMoves ==
    ASSUME IInv, NEW r \in Requests, Proceed(r)
    PROVE  /\ pc[r] \notin {"idle", "done"} /\ UNCHANGED <<features, req, joined>>
           /\ UNCHANGED cancelled
           /\ \A s \in Requests : s # r => pc'[s] = pc[s]
<1>a. pc \in [Requests -> Steps]
  BY Typed
<1>1. pc[r] \notin {"idle", "done"} /\ UNCHANGED <<features, req, joined, cancelled>>
  BY DEF Proceed, Read, Load, Loaded, WriteBack, Protect, Reload, Reloaded,
         Rewrite, Leave, Share, Write, context, mergeVars
<1>2. \E p, x : Goes(r, p, x)
  BY DEF Proceed, Read, Load, Loaded, WriteBack, Protect, Reload, Reloaded,
         Rewrite, Leave, Share, Write, Continues
<1> QED BY <1>a, <1>1, <1>2 DEF Goes

\* Nobody joins a read that is over.
LEMMA OthersKnown ==
    ASSUME LinkIInv, [Next]_vars, NEW r \in Requests, pc[r] = "done"
    PROVE  Others(r)' = Others(r)
<1>a. /\ pc \in [Requests -> Steps] /\ joined \in [Requests -> Requests \cup {None}]
      /\ leader \in [Keys -> Requests \cup {None}]
  BY Typed DEF LinkIInv
<1>1. ASSUME NEW s \in Requests, NEW o, NEW k \in Keys, Follow(s, o, k)
      PROVE  Others(r)' = Others(r)
  <2>1. /\ pc[s] = "idle" /\ joined' = [joined EXCEPT ![s] = leader[k]]
        /\ leader[k] # None
    BY <1>1 DEF Follow, Begins
  <2>2. joined[s] = None /\ InChain(leader[k])
    BY <2>1, <1>a DEF LinkIInv, GroupsLinked
  <2>3. leader[k] # r /\ s # r
    BY <2>1, <2>2 DEF InChain
  <2>4. \A t \in Requests : (joined'[t] = r <=> joined[t] = r)
    BY <1>a, <2>1, <2>2, <2>3, NoneAssumption
  <2>5. joined'[r] = joined[r]
    BY <1>a, <2>1, <2>3
  <2> QED BY <2>4, <2>5 DEF Others
<1>2. CASE UNCHANGED joined
  BY <1>2 DEF Others
<1>3. ASSUME NEW s \in Requests, Begin(s)
      PROVE  UNCHANGED joined \/ \E o : \E k \in Keys : Follow(s, o, k)
  BY <1>3 DEF Begin, Lead, BeginWrite, mergeVars
<1> QED BY <1>1, <1>2, <1>3, OneMoves, Surroundings DEF LinkIInv, Next, Finished

-----------------------------------------------------------------------------
(***************************************************************************)
(* Flights and those who begin them                                        *)
(***************************************************************************)

\* What a flight does in a step of the cache, and who begins it.
Flies(flight, r) ==
    \/ flight'[r] = flight[r]
    \/ flight[r].st = "none" /\ flight'[r].st = "running"
    \/ flight[r].st = "running" /\ flight'[r].st = "loaded"
    \/ flight[r].st = "loaded" /\ flight'[r].st = "done"

\* Contexts end for good.
LEMMA ContextsEnd ==
    ASSUME [Next]_vars, NEW r \in Requests, cancelled \in [Requests -> BOOLEAN],
           cancelled[r]
    PROVE  cancelled'[r]
<1>1. CASE \E s \in Requests : Cancel(s)
  BY <1>1 DEF Cancel
<1>2. ASSUME NEW s \in Requests, Begin(s) PROVE UNCHANGED cancelled
  BY <1>2, BeginsFresh
<1>3. ASSUME \/ \E s \in Requests : Proceed(s)
             \/ \E f \in Requests : MissLoader(f) \/ RefreshLoader(f)
             \/ \E k \in Keys : Update(k) \/ Age(k)
             \/ UNCHANGED vars
      PROVE  UNCHANGED cancelled
  BY <1>3 DEF Proceed, Read, Load, Loaded, WriteBack, Protect, Reload, Reloaded,
         Rewrite, Leave, Share, Write, MissLoader, RefreshLoader, Age, Update,
         vars, context
<1> QED BY <1>1, <1>2, <1>3 DEF Next, Finished

LEMMA MissFlies ==
    ASSUME LinkIInv, CreatorsWait, [Next]_vars, NEW r \in Requests
    PROVE  /\ Flies(missFlight, r)
           /\ pc[r] = "done" => (missFlight[r].st = "none" => missFlight'[r].st = "none")
           /\ missFlight'[r].st # "none" =>
                /\ missCall'[r].on = r
                /\ missCall'[r].st = "returned" /\ ~cancelled'[r] =>
                     missFlight'[r].st = "done"
<1>a. /\ Miss!TypeOK /\ MissFlight!IInv /\ IInv
      /\ missFlight[r].st # "none" =>
           /\ missCall[r].on = r
           /\ missCall[r].st = "returned" /\ ~cancelled[r] =>
                missFlight[r].st = "done"
  BY DEF LinkIInv, IInv, TypeOK, FlightsOK, CreatorsWait
<1>b. /\ missFlight \in [Requests -> Miss!Flight]
      /\ missCall \in [Requests -> Miss!Call]
      /\ cancelled \in [Requests -> BOOLEAN]
  BY <1>a DEF Miss!TypeOK
<1>c. missCall[r].st = "idle" => missFlight[r].st = "none"
  BY <1>a DEF MissFlight!IInv, MissFlight!CreatedByCall
<1>d. pc[r] = "done" => missCall'[r].st # "waiting"
  <2>1. pc[r] = "done" => pc'[r] = "done"
    BY <1>a, DoneStays
  <2> QED BY <2>1, StepCalls DEF CallsLinked
<1>e. cancelled[r] => cancelled'[r]
  BY <1>b, ContextsEnd
<1>1. [Miss!Next]_(Miss!vars)
  BY <1>a, MissSteps
<1> USE DEF Miss!Flight, Miss!Call, Flies
<1>2. ASSUME NEW s \in Requests, NEW k \in Keys, Miss!Create(s, k)
      PROVE  /\ Flies(missFlight, r)
             /\ missFlight'[r].st # "none" /\ missFlight[r].st = "none" => missCall'[r].st = "waiting"
             /\ missFlight'[r].st # "none" =>
                  /\ missCall'[r].on = r
                  /\ missCall'[r].st = "returned" /\ ~cancelled'[r] =>
                       missFlight'[r].st = "done"
  <2>1. CASE s = r
    BY <1>2, <2>1, <1>b, <1>c DEF Miss!Create, Miss!Calls
  <2>2. CASE s # r
    BY <1>2, <2>2, <1>a, <1>b, <1>e DEF Miss!Create, Miss!Calls
  <2> QED BY <2>1, <2>2
<1>3. ASSUME NEW s \in Requests, NEW k \in Keys, Miss!Join(s, k)
      PROVE  /\ UNCHANGED missFlight
             /\ s = r => missFlight[r].st = "none"
             /\ s # r => missCall'[r] = missCall[r]
  BY <1>3, <1>b, <1>c DEF Miss!Join, Miss!Calls
<1>4. ASSUME NEW f \in Requests, NEW x, Miss!Load(f, x)
      PROVE  /\ UNCHANGED missCall
             /\ \/ missFlight'[r] = missFlight[r]
                \/ missFlight[r].st = "running" /\ missFlight'[r].st = "loaded"
  BY <1>4, <1>b DEF Miss!Load
<1>5. ASSUME NEW f \in Requests, Miss!Deliver(f)
      PROVE  /\ UNCHANGED missCall
             /\ \/ missFlight'[r] = missFlight[r]
                \/ missFlight[r].st = "loaded" /\ missFlight'[r].st = "done"
  BY <1>5, <1>b DEF Miss!Deliver
<1>6. ASSUME NEW s \in Requests, Miss!Receive(s) \/ Miss!GiveUp(s)
      PROVE  /\ UNCHANGED missFlight
             /\ s # r => missCall'[r] = missCall[r]
             /\ s = r => /\ missCall'[r].on = missCall[r].on
                         /\ missFlight[missCall[r].on].st = "done" \/ cancelled[r]
  BY <1>6, <1>b DEF Miss!Receive, Miss!GiveUp, Miss!Returns
<1>7. CASE UNCHANGED <<missFlight, missCall>>
  BY <1>7, <1>a, <1>e
<1>8. CASE \E s \in Requests : Miss!Receive(s) \/ Miss!GiveUp(s)
  BY <1>8, <1>6, <1>a, <1>e
<1>9. CASE \E f \in Requests : Miss!Deliver(f) \/ \E x \in LoaderResults : Miss!Load(f, x)
  BY <1>9, <1>4, <1>5, <1>a, <1>e
<1>10. CASE \E s \in Requests, k \in Keys : Miss!Join(s, k)
  BY <1>10, <1>3, <1>a, <1>e
<1>11. CASE \E s \in Requests, k \in Keys : Miss!Create(s, k)
  BY <1>11, <1>2, <1>d
<1>12. Miss!Step \/ UNCHANGED <<missFlight, missCall>>
  BY <1>1 DEF Miss!Next, Miss!Cancel, Miss!flightVars, Miss!Finished, Miss!vars
<1> QED BY <1>7, <1>8, <1>9, <1>10, <1>11, <1>12 DEF Miss!Step

LEMMA RefreshFlies ==
    ASSUME LinkIInv, CreatorsWait, [Next]_vars, NEW r \in Requests
    PROVE  /\ Flies(refreshFlight, r)
           /\ pc[r] = "done" => (refreshFlight[r].st = "none" => refreshFlight'[r].st = "none")
           /\ refreshFlight'[r].st # "none" =>
                /\ refreshCall'[r].on = r
                /\ refreshCall'[r].st = "returned" /\ ~cancelled'[r] =>
                     refreshFlight'[r].st = "done"
<1>a. /\ Refresh!TypeOK /\ RefreshFlight!IInv /\ IInv
      /\ refreshFlight[r].st # "none" =>
           /\ refreshCall[r].on = r
           /\ refreshCall[r].st = "returned" /\ ~cancelled[r] =>
                refreshFlight[r].st = "done"
  BY DEF LinkIInv, IInv, TypeOK, FlightsOK, CreatorsWait
<1>b. /\ refreshFlight \in [Requests -> Refresh!Flight]
      /\ refreshCall \in [Requests -> Refresh!Call]
      /\ cancelled \in [Requests -> BOOLEAN]
  BY <1>a DEF Refresh!TypeOK
<1>c. refreshCall[r].st = "idle" => refreshFlight[r].st = "none"
  BY <1>a DEF RefreshFlight!IInv, RefreshFlight!CreatedByCall
<1>d. pc[r] = "done" => refreshCall'[r].st # "waiting"
  <2>1. pc[r] = "done" => pc'[r] = "done"
    BY <1>a, DoneStays
  <2> QED BY <2>1, StepCalls DEF CallsLinked
<1>e. cancelled[r] => cancelled'[r]
  BY <1>b, ContextsEnd
<1>1. [Refresh!Next]_(Refresh!vars)
  BY <1>a, RefreshSteps
<1> USE DEF Refresh!Flight, Refresh!Call, Flies
<1>2. ASSUME NEW s \in Requests, NEW k \in Keys, Refresh!Create(s, k)
      PROVE  /\ Flies(refreshFlight, r)
             /\ refreshFlight'[r].st # "none" /\ refreshFlight[r].st = "none" => refreshCall'[r].st = "waiting"
             /\ refreshFlight'[r].st # "none" =>
                  /\ refreshCall'[r].on = r
                  /\ refreshCall'[r].st = "returned" /\ ~cancelled'[r] =>
                       refreshFlight'[r].st = "done"
  <2>1. CASE s = r
    BY <1>2, <2>1, <1>b, <1>c DEF Refresh!Create, Refresh!Calls
  <2>2. CASE s # r
    BY <1>2, <2>2, <1>a, <1>b, <1>e DEF Refresh!Create, Refresh!Calls
  <2> QED BY <2>1, <2>2
<1>3. ASSUME NEW s \in Requests, NEW k \in Keys, Refresh!Join(s, k)
      PROVE  /\ UNCHANGED refreshFlight
             /\ s = r => refreshFlight[r].st = "none"
             /\ s # r => refreshCall'[r] = refreshCall[r]
  BY <1>3, <1>b, <1>c DEF Refresh!Join, Refresh!Calls
<1>4. ASSUME NEW f \in Requests, NEW x, Refresh!Load(f, x)
      PROVE  /\ UNCHANGED refreshCall
             /\ \/ refreshFlight'[r] = refreshFlight[r]
                \/ refreshFlight[r].st = "running" /\ refreshFlight'[r].st = "loaded"
  BY <1>4, <1>b DEF Refresh!Load
<1>5. ASSUME NEW f \in Requests, Refresh!Deliver(f)
      PROVE  /\ UNCHANGED refreshCall
             /\ \/ refreshFlight'[r] = refreshFlight[r]
                \/ refreshFlight[r].st = "loaded" /\ refreshFlight'[r].st = "done"
  BY <1>5, <1>b DEF Refresh!Deliver
<1>6. ASSUME NEW s \in Requests, Refresh!Receive(s) \/ Refresh!GiveUp(s)
      PROVE  /\ UNCHANGED refreshFlight
             /\ s # r => refreshCall'[r] = refreshCall[r]
             /\ s = r => /\ refreshCall'[r].on = refreshCall[r].on
                         /\ refreshFlight[refreshCall[r].on].st = "done" \/ cancelled[r]
  BY <1>6, <1>b DEF Refresh!Receive, Refresh!GiveUp, Refresh!Returns
<1>7. CASE UNCHANGED <<refreshFlight, refreshCall>>
  BY <1>7, <1>a, <1>e
<1>8. CASE \E s \in Requests : Refresh!Receive(s) \/ Refresh!GiveUp(s)
  BY <1>8, <1>6, <1>a, <1>e
<1>9. CASE \E f \in Requests : Refresh!Deliver(f) \/ \E x \in LoaderResults : Refresh!Load(f, x)
  BY <1>9, <1>4, <1>5, <1>a, <1>e
<1>10. CASE \E s \in Requests, k \in Keys : Refresh!Join(s, k)
  BY <1>10, <1>3, <1>a, <1>e
<1>11. CASE \E s \in Requests, k \in Keys : Refresh!Create(s, k)
  BY <1>11, <1>2, <1>d
<1>12. Refresh!Step \/ UNCHANGED <<refreshFlight, refreshCall>>
  BY <1>1 DEF Refresh!Next, Refresh!Cancel, Refresh!flightVars, Refresh!Finished, Refresh!vars
<1> QED BY <1>7, <1>8, <1>9, <1>10, <1>11, <1>12 DEF Refresh!Step

-----------------------------------------------------------------------------
(***************************************************************************)
(* What is recorded                                                        *)
(***************************************************************************)

\* r has returned in this step, and is recorded.
Recorder(r) ==
    /\ Proceed(r) /\ pc'[r] = "done"
    /\ Events!Record(r, AddTags(r), Result(r))

\* What a step does to events and records.
LEMMA TelemetrySteps ==
    ASSUME LinkIInv, [ObservedNext]_observedVars
    PROVE  \/ \E r \in Requests : Recorder(r)
           \/ /\ UNCHANGED telemetryVars
              /\ \A r \in Requests : pc'[r] = "done" <=> pc[r] = "done"
           \/ /\ UNCHANGED record /\ UNCHANGED pc
              /\ \E f \in Requests, field \in {"loaded", "reloaded"} :
                   event' = [event EXCEPT ![f] = @ \cup {field}]
<1>a. IInv /\ [Next]_vars /\ pc \in [Requests -> Steps]
  BY ObservedSteps, Typed DEF LinkIInv
<1>1. ASSUME NEW r \in Requests, ObservedProceed(r)
      PROVE  \/ Recorder(r)
             \/ /\ UNCHANGED telemetryVars
                /\ \A s \in Requests : pc'[s] = "done" <=> pc[s] = "done"
  <2>1. Proceed(r) /\ pc[r] # "done"
        /\ \A s \in Requests : s # r => pc'[s] = pc[s]
    BY <1>1, <1>a, OneMoves DEF ObservedProceed
  <2> QED BY <1>1, <2>1 DEF ObservedProceed, Recorder
<1>2. ASSUME NEW r \in Requests, Begin(r) \/ Cancel(r)
      PROVE  \A s \in Requests : pc'[s] = "done" <=> pc[s] = "done"
  BY <1>2, <1>a, BeginsFresh, Surroundings DEF Goes
<1>3. ASSUME NEW f \in Requests, ObservedLoader(f)
      PROVE  /\ UNCHANGED pc
             /\ \/ UNCHANGED telemetryVars
                \/ /\ UNCHANGED record
                   /\ \E field \in {"loaded", "reloaded"} :
                        event' = [event EXCEPT ![f] = @ \cup {field}]
  <2>1. UNCHANGED pc
    BY <1>3, Surroundings DEF ObservedLoader
  <2> QED BY <1>3, <2>1 DEF ObservedLoader, LoaderAdds, Events!AddCustomFields
<1>4. CASE \/ \E k \in Keys : (Update(k) \/ Age(k)) /\ UNCHANGED telemetryVars
           \/ Finished /\ UNCHANGED telemetryVars
           \/ UNCHANGED observedVars
  <2>1. UNCHANGED pc /\ UNCHANGED telemetryVars
    BY <1>4, Surroundings DEF Finished, observedVars, vars
  <2> QED BY <2>1
<1> QED BY <1>1, <1>2, <1>3, <1>4 DEF ObservedNext

\* The fields that a read of its chain adds, and what it is recorded with.
LEMMA RecordTypes ==
    ASSUME NEW r \in Requests
    PROVE  AddTags(r) \in SUBSET Fields /\ Result(r) \in {"hit", "miss", "fail", "none"}
<1>1. AddTags(r) \in SUBSET Fields
  BY DEF AddTags, Fields
<1>2. \A x : Events!ResultFromErr(x) \in {"hit", "miss", "fail"}
  BY DEF Events!ResultFromErr
<1> QED BY <1>1, <1>2 DEF Result

\* The record of who returns is its first, and has the last of its event.
LEMMA FirstRecord ==
    ASSUME ObservedIInv, NEW r \in Requests, Recorder(r)
    PROVE  /\ event' = [event EXCEPT ![r] = @ \cup AddTags(r)]
           /\ record' = [record EXCEPT ![r] =
                <<[result |-> Result(r), fields |-> event[r] \cup AddTags(r)]>>]
           /\ event[r] \cup AddTags(r) \in SUBSET Fields
<1>a. /\ event \in [Requests -> SUBSET Fields]
      /\ record \in [Requests -> Seq(Records)] /\ IInv
  BY DEF ObservedIInv, TelemetryTypes, LinkIInv
<1>1. record[r] = <<>>
  BY <1>a, OneMoves DEF Recorder, ObservedIInv, RecordedOnce
<1>2. event'[r] = event[r] \cup AddTags(r)
  BY <1>a DEF Recorder, Events!Record
<1> QED BY <1>a, <1>1, <1>2, RecordTypes DEF Recorder, Events!Record

LEMMA StepTelemetryTypes ==
    ObservedIInv /\ [ObservedNext]_observedVars => TelemetryTypes'
<1> SUFFICES ASSUME ObservedIInv, [ObservedNext]_observedVars PROVE TelemetryTypes'
  OBVIOUS
<1>a. /\ event \in [Requests -> SUBSET Fields]
      /\ record \in [Requests -> Seq(Records)]
  BY DEF ObservedIInv, TelemetryTypes
<1>1. ASSUME NEW r \in Requests, Recorder(r) PROVE TelemetryTypes'
  <2> DEFINE new == [result |-> Result(r), fields |-> event[r] \cup AddTags(r)]
  <2>1. new \in Records
    BY <1>1, FirstRecord, RecordTypes DEF Records
  <2>2. record' = [record EXCEPT ![r] = <<new>>]
        /\ event' = [event EXCEPT ![r] = @ \cup AddTags(r)]
        /\ event[r] \cup AddTags(r) \in SUBSET Fields
    BY <1>1, FirstRecord
  <2> HIDE DEF new
  <2>3. <<new>> \in Seq(Records)
    BY <2>1
  <2>4. record' \in [Requests -> Seq(Records)]
    BY <1>a, <2>2, <2>3
  <2>5. event' \in [Requests -> SUBSET Fields]
    BY <1>a, <2>2
  <2> QED BY <2>4, <2>5 DEF TelemetryTypes
<1>2. CASE UNCHANGED telemetryVars
  BY <1>2, <1>a DEF telemetryVars, TelemetryTypes
<1>3. CASE UNCHANGED record /\ \E f \in Requests, field \in {"loaded", "reloaded"} :
             event' = [event EXCEPT ![f] = @ \cup {field}]
  <2>1. \A field \in {"loaded", "reloaded"} : {field} \subseteq Fields
    BY DEF Fields
  <2>2. PICK f \in Requests, field \in {"loaded", "reloaded"} :
          event' = [event EXCEPT ![f] = @ \cup {field}]
    BY <1>3
  <2>3. event[f] \cup {field} \in SUBSET Fields
    BY <1>a, <2>1, <2>2
  <2>4. event' \in [Requests -> SUBSET Fields]
    BY <1>a, <2>2, <2>3
  <2> QED BY <1>3, <1>a, <2>4 DEF TelemetryTypes
<1> QED BY <1>1, <1>2, <1>3, TelemetrySteps DEF ObservedIInv

\* Who has returned has been recorded, once, and its record stays.
LEMMA StepRecords ==
    ASSUME ObservedIInv, [ObservedNext]_observedVars
    PROVE  /\ RecordedOnce'
           /\ \A r \in Requests : record[r] # <<>> => record'[r] = record[r]
<1>a. /\ event \in [Requests -> SUBSET Fields]
      /\ record \in [Requests -> Seq(Records)] /\ LinkIInv /\ IInv /\ RecordedOnce
  BY DEF ObservedIInv, TelemetryTypes, LinkIInv
<1>1. ASSUME NEW r \in Requests, Recorder(r)
      PROVE  /\ RecordedOnce'
             /\ \A s \in Requests : record[s] # <<>> => record'[s] = record[s]
  <2>1. /\ pc[r] # "done" /\ pc'[r] = "done"
        /\ \A s \in Requests : s # r => pc'[s] = pc[s]
    BY <1>1, <1>a, OneMoves DEF Recorder
  <2>2. /\ record'[r] # <<>> /\ Len(record'[r]) = 1
        /\ \A s \in Requests : s # r => record'[s] = record[s]
    <3>1. PICK new : record' = [record EXCEPT ![r] = <<new>>]
      BY <1>1, FirstRecord
    <3>2. record'[r] = <<new>> /\ \A s \in Requests : s # r => record'[s] = record[s]
      BY <1>a, <3>1
    <3> QED BY <3>2
  <2>3. record[r] = <<>>
    BY <1>a, <2>1 DEF RecordedOnce
  <2>4. \A s \in Requests : /\ record[s] # <<>> <=> pc[s] = "done"
                             /\ Len(record[s]) <= 1
    BY <1>a DEF RecordedOnce
  <2>5. ASSUME NEW s \in Requests
        PROVE  /\ record'[s] # <<>> <=> pc'[s] = "done"
               /\ Len(record'[s]) <= 1
               /\ record[s] # <<>> => record'[s] = record[s]
    <3>1. CASE s = r
      BY <3>1, <2>1, <2>2, <2>3
    <3>2. CASE s # r
      BY <3>2, <2>1, <2>2, <2>4
    <3> QED BY <3>1, <3>2
  <2> QED BY <2>5 DEF RecordedOnce
<1>2. CASE UNCHANGED record /\ \A r \in Requests : pc'[r] = "done" <=> pc[r] = "done"
  BY <1>2, <1>a DEF RecordedOnce
<1> QED BY <1>a, <1>1, <1>2, TelemetrySteps DEF telemetryVars

\* A flight gets its result from its loader only.
LEMMA OnlyLoadersLoad ==
    ASSUME \/ \E s \in Requests : Begin(s) \/ Proceed(s) \/ Cancel(s)
           \/ \E k \in Keys : Update(k) \/ Age(k)
           \/ UNCHANGED vars,
           missFlight \in [Requests -> Miss!Flight],
           refreshFlight \in [Requests -> Refresh!Flight], NEW r \in Requests
    PROVE  /\ missFlight'[r] = missFlight[r] \/ missFlight'[r].st = "running"
           /\ refreshFlight'[r] = refreshFlight[r] \/ refreshFlight'[r].st = "running"
<1>1. ASSUME NEW s \in Requests, Begin(s)
      PROVE  UNCHANGED <<missFlight, refreshFlight>>
  BY <1>1, BeginsFresh DEF missVars, refreshVars
<1>2. ASSUME NEW s \in Requests, Proceed(s), ~Load(s), ~Reload(s)
      PROVE  UNCHANGED <<missFlight, refreshFlight>>
  BY <1>2 DEF Proceed, Read, Loaded, WriteBack, Protect, Reloaded, Rewrite, Leave,
     Share, Write, missVars, refreshVars, Miss!Receive, Miss!GiveUp,
     Refresh!Receive, Refresh!GiveUp
<1>3. ASSUME NEW s \in Requests, Load(s)
      PROVE  /\ UNCHANGED refreshFlight
             /\ missFlight'[r] = missFlight[r] \/ missFlight'[r].st = "running"
  BY <1>3 DEF Load, Miss!Join, Miss!Create, refreshVars
<1>4. ASSUME NEW s \in Requests, Reload(s)
      PROVE  /\ UNCHANGED missFlight
             /\ refreshFlight'[r] = refreshFlight[r] \/ refreshFlight'[r].st = "running"
  BY <1>4 DEF Reload, Refresh!Join, Refresh!Create, missVars
<1>5. ASSUME \/ \E s \in Requests : Cancel(s)
             \/ \E k \in Keys : Update(k) \/ Age(k)
             \/ UNCHANGED vars
      PROVE  UNCHANGED <<missFlight, refreshFlight>>
  BY <1>5 DEF Cancel, Update, Age, vars, missVars, refreshVars
<1> QED BY <1>1, <1>2, <1>3, <1>4, <1>5

\* A loader that returns has added its field, and nothing else has.
LEMMA StepLoaderFields ==
    ASSUME ObservedIInv, [ObservedNext]_observedVars, NEW r \in Requests
    PROVE  /\ "loaded" \in event'[r] <=> HasResult(missFlight, r)'
           /\ "reloaded" \in event'[r] <=> HasResult(refreshFlight, r)'
<1>a. /\ event \in [Requests -> SUBSET Fields]
      /\ record \in [Requests -> Seq(Records)] /\ LinkIInv /\ IInv /\ CreatorsWait
      /\ "loaded" \in event[r] <=> HasResult(missFlight, r)
      /\ "reloaded" \in event[r] <=> HasResult(refreshFlight, r)
  BY DEF ObservedIInv, TelemetryTypes, LinkIInv, EventsTrue
<1>b. /\ missFlight \in [Requests -> Miss!Flight]
      /\ refreshFlight \in [Requests -> Refresh!Flight]
  BY <1>a DEF IInv, TypeOK, Miss!TypeOK, Refresh!TypeOK
<1>c. Flies(missFlight, r) /\ Flies(refreshFlight, r)
  BY <1>a, ObservedSteps, MissFlies, RefreshFlies
<1>1. ASSUME NEW f \in Requests, MissLoader(f),
             LoaderAdds(f, "loaded", missFlight, missFlight')
      PROVE  /\ "loaded" \in event'[r] <=> HasResult(missFlight, r)'
             /\ "reloaded" \in event'[r] <=> HasResult(refreshFlight, r)'
  <2>1. UNCHANGED refreshFlight
    BY <1>1 DEF MissLoader, refreshVars
  <2>2. f # r => missFlight'[r] = missFlight[r]
    BY <1>1, <1>b DEF MissLoader, Miss!Load, Miss!Deliver
  <2>3. CASE f = r /\ missFlight[r].st = "running" /\ missFlight'[r].st = "loaded"
    <3>1. event' = [event EXCEPT ![r] = @ \cup {"loaded"}]
      BY <1>1, <2>3 DEF LoaderAdds, Events!AddCustomFields
    <3> QED BY <1>a, <2>1, <2>3, <3>1 DEF HasResult
  <2>4. CASE ~(f = r /\ missFlight[r].st = "running" /\ missFlight'[r].st = "loaded")
    <3>1. event'[r] = event[r]
      BY <1>1, <1>a, <2>4 DEF LoaderAdds, Events!AddCustomFields, telemetryVars
    <3>2. missFlight[r].st # "running" \/ missFlight'[r] = missFlight[r]
      BY <1>1, <1>b, <2>2, <2>4 DEF MissLoader, Miss!Load, Miss!Deliver, Miss!Flight
    <3>3. missFlight[r].st = "none" => missFlight'[r] = missFlight[r]
      BY <1>1, <1>b, <2>2 DEF MissLoader, Miss!Load, Miss!Deliver, Miss!Flight
    <3> QED BY <1>a, <1>c, <2>1, <3>1, <3>2, <3>3 DEF HasResult, Flies
  <2> QED BY <2>3, <2>4
<1>2. ASSUME NEW f \in Requests, RefreshLoader(f),
             LoaderAdds(f, "reloaded", refreshFlight, refreshFlight')
      PROVE  /\ "loaded" \in event'[r] <=> HasResult(missFlight, r)'
             /\ "reloaded" \in event'[r] <=> HasResult(refreshFlight, r)'
  <2>1. UNCHANGED missFlight
    BY <1>2 DEF RefreshLoader, missVars
  <2>2. f # r => refreshFlight'[r] = refreshFlight[r]
    BY <1>2, <1>b DEF RefreshLoader, Refresh!Load, Refresh!Deliver
  <2>3. CASE f = r /\ refreshFlight[r].st = "running" /\ refreshFlight'[r].st = "loaded"
    <3>1. event' = [event EXCEPT ![r] = @ \cup {"reloaded"}]
      BY <1>2, <2>3 DEF LoaderAdds, Events!AddCustomFields
    <3> QED BY <1>a, <2>1, <2>3, <3>1 DEF HasResult
  <2>4. CASE ~(f = r /\ refreshFlight[r].st = "running" /\ refreshFlight'[r].st = "loaded")
    <3>1. event'[r] = event[r]
      BY <1>2, <1>a, <2>4 DEF LoaderAdds, Events!AddCustomFields, telemetryVars
    <3>2. refreshFlight[r].st # "running" \/ refreshFlight'[r] = refreshFlight[r]
      BY <1>2, <1>b, <2>2, <2>4 DEF RefreshLoader, Refresh!Load, Refresh!Deliver, Refresh!Flight
    <3>3. refreshFlight[r].st = "none" => refreshFlight'[r] = refreshFlight[r]
      BY <1>2, <1>b, <2>2 DEF RefreshLoader, Refresh!Load, Refresh!Deliver, Refresh!Flight
    <3> QED BY <1>a, <1>c, <2>1, <3>1, <3>2, <3>3 DEF HasResult, Flies
  <2> QED BY <2>3, <2>4
<1>3. ASSUME \/ \E s \in Requests : Begin(s) \/ Proceed(s) \/ Cancel(s)
             \/ \E k \in Keys : Update(k) \/ Age(k)
             \/ UNCHANGED vars,
             \A field \in {"loaded", "reloaded"} :
                 field \in event'[r] <=> field \in event[r]
      PROVE  /\ "loaded" \in event'[r] <=> HasResult(missFlight, r)'
             /\ "reloaded" \in event'[r] <=> HasResult(refreshFlight, r)'
  <2>1. /\ missFlight'[r] = missFlight[r] \/ missFlight'[r].st = "running"
        /\ refreshFlight'[r] = refreshFlight[r] \/ refreshFlight'[r].st = "running"
    BY <1>b, <1>3, OnlyLoadersLoad
  <2> QED BY <1>a, <1>c, <1>3, <2>1 DEF HasResult, Flies
<1>4. ASSUME NEW s \in Requests, ObservedProceed(s), NEW field \in {"loaded", "reloaded"}
      PROVE  field \in event'[r] <=> field \in event[r]
  <2>1. AddTags(s) \subseteq {"shared", "not shared"}
    BY DEF AddTags
  <2>2. UNCHANGED event \/ event' = [event EXCEPT ![s] = @ \cup AddTags(s)]
    BY <1>4 DEF ObservedProceed, Events!Record, telemetryVars
  <2> QED BY <1>a, <2>1, <2>2
<1>5. CASE \E s \in Requests : ObservedProceed(s)
  BY <1>5, <1>3, <1>4 DEF ObservedProceed
<1>6. CASE \E f \in Requests : ObservedLoader(f)
  BY <1>6, <1>1, <1>2 DEF ObservedLoader
<1>7. CASE \/ \E s \in Requests : (Begin(s) \/ Cancel(s)) /\ UNCHANGED telemetryVars
           \/ \E k \in Keys : (Update(k) \/ Age(k)) /\ UNCHANGED telemetryVars
           \/ UNCHANGED observedVars
  BY <1>7, <1>3 DEF telemetryVars, observedVars
<1> QED BY <1>5, <1>6, <1>7 DEF ObservedNext, Finished, observedVars

\* Nothing about merged reads is in an event before its call returns.
LEMMA StepEvents == ObservedIInv /\ [ObservedNext]_observedVars => EventsTrue'
<1> SUFFICES ASSUME ObservedIInv, [ObservedNext]_observedVars,
                    NEW r \in Requests, pc'[r] # "done"
             PROVE  event'[r] \cap {"shared", "not shared"} = {}
  BY StepLoaderFields DEF EventsTrue
<1>a. /\ event \in [Requests -> SUBSET Fields] /\ LinkIInv /\ IInv
      /\ pc[r] # "done" => event[r] \cap {"shared", "not shared"} = {}
  BY DEF ObservedIInv, TelemetryTypes, LinkIInv, EventsTrue
<1>b. pc[r] # "done"
  BY <1>a, DoneStays, ObservedSteps
<1>1. ASSUME NEW s \in Requests, Recorder(s) PROVE event'[r] = event[r]
  <2>1. s # r
    BY <1>1 DEF Recorder
  <2> QED BY <1>1, <1>a, <2>1, FirstRecord
<1>2. CASE UNCHANGED telemetryVars
  BY <1>2, <1>a, <1>b DEF telemetryVars
<1>3. CASE \E f \in Requests, field \in {"loaded", "reloaded"} :
             event' = [event EXCEPT ![f] = @ \cup {field}]
  BY <1>3, <1>a, <1>b
<1> QED BY <1>a, <1>b, <1>1, <1>2, <1>3, TelemetrySteps

\* What is recorded of a read when it returns is true of it.
LEMMA RecordIsTrue ==
    ASSUME ObservedIInv, [ObservedNext]_observedVars, NEW r \in Requests, Recorder(r),
           Has("singleflight"), req[r].op \in Reads
    PROVE  /\ "shared" \in Recording(r)' <=> Others(r)' # {}
           /\ "not shared" \in Recording(r)' <=> Others(r)' = {}
<1>a. /\ record \in [Requests -> Seq(Records)] /\ IInv
      /\ joined \in [Requests -> Requests \cup {None}]
  BY Typed DEF ObservedIInv, TelemetryTypes, LinkIInv
<1>1. UNCHANGED joined /\ pc[r] # "done"
  BY <1>a, OneMoves DEF Recorder
<1>2. event[r] \cap {"shared", "not shared"} = {}
  BY <1>1 DEF ObservedIInv, EventsTrue
<1>3. Recording(r)' = event[r] \cup AddTags(r)
  <2> DEFINE new == [result |-> Result(r), fields |-> event[r] \cup AddTags(r)]
  <2>1. record' = [record EXCEPT ![r] = <<new>>]
    BY FirstRecord
  <2>2. record'[r] = <<new>>
    BY <1>a, <2>1
  <2>3. record'[r][1] = new
    BY <2>2
  <2> QED BY <2>3 DEF Recording
<1>4. Shared(r) <=> Others(r)' # {}
  BY <1>a, <1>1, NoneAssumption DEF Shared, Others
<1>5. AddTags(r) = IF Shared(r) THEN {"shared"} ELSE {"not shared"}
  BY DEF AddTags
<1> QED BY <1>2, <1>3, <1>4, <1>5

\* What is recorded of a call's loads when it returns is true, and complete
\* unless its context has ended.
LEMMA RecordedLoads ==
    ASSUME ObservedIInv, [ObservedNext]_observedVars, NEW r \in Requests, Recorder(r)
    PROVE  /\ "loaded" \in Recording(r)' <=> HasResult(missFlight, r)'
           /\ "reloaded" \in Recording(r)' <=> HasResult(refreshFlight, r)'
           /\ ~cancelled'[r] =>
                /\ missFlight'[r].st # "none" => HasResult(missFlight, r)'
                /\ refreshFlight'[r].st # "none" => HasResult(refreshFlight, r)'
<1>a. /\ record \in [Requests -> Seq(Records)] /\ IInv /\ LinkIInv /\ CreatorsWait
      /\ event \in [Requests -> SUBSET Fields] /\ [Next]_vars
  BY ObservedSteps DEF ObservedIInv, TelemetryTypes, LinkIInv
<1>1. Recording(r)' = event'[r]
  <2> DEFINE new == [result |-> Result(r), fields |-> event[r] \cup AddTags(r)]
  <2>1. record' = [record EXCEPT ![r] = <<new>>]
        /\ event' = [event EXCEPT ![r] = @ \cup AddTags(r)]
    BY FirstRecord
  <2>2. record'[r] = <<new>> /\ event'[r] = new.fields
    BY <1>a, <2>1
  <2>3. record'[r][1] = new
    BY <2>2
  <2> QED BY <2>2, <2>3 DEF Recording
<1>2. /\ missCall'[r].st # "waiting" /\ refreshCall'[r].st # "waiting"
  BY <1>a, StepCalls DEF Recorder, CallsLinked
<1>3. /\ missCall'[r].st = "idle" => missFlight'[r].st = "none"
      /\ refreshCall'[r].st = "idle" => refreshFlight'[r].st = "none"
  BY <1>a, StepFlights
     DEF FlightsOK, MissFlight!IInv, MissFlight!CreatedByCall,
         RefreshFlight!IInv, RefreshFlight!CreatedByCall
<1>4. /\ missCall'[r].st \in {"idle", "waiting", "returned"}
      /\ refreshCall'[r].st \in {"idle", "waiting", "returned"}
  BY <1>a, StepFlights DEF Miss!TypeOK, Miss!Call, Refresh!TypeOK, Refresh!Call
<1>5. ~cancelled'[r] =>
         /\ missFlight'[r].st # "none" => missFlight'[r].st = "done"
         /\ refreshFlight'[r].st # "none" => refreshFlight'[r].st = "done"
  BY <1>a, <1>2, <1>3, <1>4, MissFlies, RefreshFlies
<1> QED BY <1>1, <1>5, StepLoaderFields DEF HasResult

\* What has been recorded remains true.
LEMMA StepRecordsTrue ==
    ObservedIInv /\ [ObservedNext]_observedVars => RecordsTrue'
<1> SUFFICES ASSUME ObservedIInv, [ObservedNext]_observedVars,
                    NEW r \in Requests, pc'[r] = "done"
             PROVE  /\ Has("singleflight")' /\ req'[r].op \in Reads =>
                         /\ "shared" \in Recording(r)' <=> Others(r)' # {}
                         /\ "not shared" \in Recording(r)' <=> Others(r)' = {}
                    /\ "loaded" \in Recording(r)' => HasResult(missFlight, r)'
                    /\ "reloaded" \in Recording(r)' => HasResult(refreshFlight, r)'
                    /\ ~cancelled'[r] =>
                         /\ missFlight'[r].st # "none" => "loaded" \in Recording(r)'
                         /\ refreshFlight'[r].st # "none" => "reloaded" \in Recording(r)'
  BY DEF RecordsTrue
<1>a. /\ IInv /\ LinkIInv /\ CreatorsWait /\ [Next]_vars
      /\ cancelled \in [Requests -> BOOLEAN]
  BY ObservedSteps DEF ObservedIInv, LinkIInv, IInv, TypeOK, Miss!TypeOK
<1>b. UNCHANGED features /\ (pc[r] # "idle" => req'[r] = req[r])
  BY <1>a, RequestsKept
<1>1. CASE pc[r] = "done"
  <2>1. Recording(r)' = Recording(r)
    BY <1>1, StepRecords DEF ObservedIInv, RecordedOnce, Recording
  <2>2. Others(r)' = Others(r)
    BY <1>1, <1>a, OthersKnown
  <2>3. /\ HasResult(missFlight, r) => HasResult(missFlight, r)'
        /\ HasResult(refreshFlight, r) => HasResult(refreshFlight, r)'
        /\ missFlight'[r].st # "none" => missFlight[r].st # "none"
        /\ refreshFlight'[r].st # "none" => refreshFlight[r].st # "none"
    BY <1>1, <1>a, MissFlies, RefreshFlies DEF HasResult, Flies
  <2>4. ~cancelled'[r] => ~cancelled[r]
    BY <1>a, ContextsEnd
  <2>5. /\ Has("singleflight") /\ req[r].op \in Reads =>
             /\ "shared" \in Recording(r) <=> Others(r) # {}
             /\ "not shared" \in Recording(r) <=> Others(r) = {}
        /\ "loaded" \in Recording(r) => HasResult(missFlight, r)
        /\ "reloaded" \in Recording(r) => HasResult(refreshFlight, r)
        /\ ~cancelled[r] =>
             /\ missFlight[r].st # "none" => "loaded" \in Recording(r)
             /\ refreshFlight[r].st # "none" => "reloaded" \in Recording(r)
    BY <1>1 DEF ObservedIInv, RecordsTrue
  <2>6. Has("singleflight")' <=> Has("singleflight")
    BY <1>b DEF Has
  <2>7. req'[r] = req[r]
    BY <1>b, <1>1
  <2> HIDE DEF ObservedIInv
  <2> QED BY <2>1, <2>2, <2>3, <2>4, <2>5, <2>6, <2>7
<1>2. CASE pc[r] # "done"
  <2>1. Recorder(r)
    <3>1. ASSUME NEW s \in Requests, Recorder(s) PROVE s = r
      BY <1>2, <1>a, <3>1, OneMoves DEF Recorder
    <3> QED BY <1>2, <1>a, <3>1, TelemetrySteps
  <2>2. Proceed(r) /\ pc[r] # "idle" /\ UNCHANGED <<req, features>>
    BY <1>a, <2>1, OneMoves DEF Recorder
  <2>3. Has("singleflight") /\ req[r].op \in Reads =>
          /\ "shared" \in Recording(r)' <=> Others(r)' # {}
          /\ "not shared" \in Recording(r)' <=> Others(r)' = {}
    BY <2>1, RecordIsTrue
  <2>4. Has("singleflight")' <=> Has("singleflight")
    BY <1>b DEF Has
  <2> QED BY <2>1, <2>2, <2>3, <2>4, RecordedLoads
<1> QED BY <1>1, <1>2

\* Every step keeps the invariant.
LEMMA StepObserved == ObservedIInv /\ [ObservedNext]_observedVars => ObservedIInv'
<1> SUFFICES ASSUME ObservedIInv, [ObservedNext]_observedVars PROVE ObservedIInv'
  OBVIOUS
<1>1. LinkIInv'
  BY ObservedSteps, StepLink DEF ObservedIInv
<1>2. CreatorsWait'
  BY ObservedSteps, MissFlies, RefreshFlies DEF ObservedIInv, CreatorsWait
<1> QED BY <1>1, <1>2, StepTelemetryTypes, StepEvents, StepRecords, StepRecordsTrue
        DEF ObservedIInv

LEMMA InitObserved == ObservedInit => ObservedIInv
<1> SUFFICES ASSUME ObservedInit PROVE ObservedIInv
  OBVIOUS
<1>1. LinkIInv
  BY InitLink DEF ObservedInit
<1>2. /\ \A r \in Requests : /\ pc[r] = "idle" /\ missFlight[r].st = "none"
                             /\ refreshFlight[r].st = "none"
                             /\ event[r] = {} /\ record[r] = <<>>
      /\ event \in [Requests -> SUBSET Fields]
      /\ record \in [Requests -> Seq(Records)]
  BY DEF ObservedInit, Init, Miss!Init, Refresh!Init, Events!TelemetryInit
<1>3. CreatorsWait /\ TelemetryTypes
  BY <1>2 DEF CreatorsWait, TelemetryTypes
<1>4. EventsTrue /\ RecordsTrue
  BY <1>2 DEF EventsTrue, HasResult, RecordsTrue
<1>5. RecordedOnce
  <2>1. Len(<<>>) <= 1
    OBVIOUS
  <2> QED BY <1>2, <2>1 DEF RecordedOnce
<1> QED BY <1>1, <1>3, <1>4, <1>5 DEF ObservedIInv

-----------------------------------------------------------------------------
(***************************************************************************)
(* Theorems                                                                *)
(***************************************************************************)

\* The invariant holds in every reachable state.
THEOREM ObservedInvariance == ObservedSpec => []ObservedIInv
  BY InitObserved, StepObserved, PTL DEF ObservedSpec

\* One record per call says all of its fields.
LEMMA RecordedFields ==
    ASSUME ObservedIInv, NEW r \in Requests, NEW field
    PROVE  Recorded(r, field) <=> pc[r] = "done" /\ field \in Recording(r)
<1>1. record[r] \in Seq(Records) /\ Len(record[r]) <= 1
      /\ (record[r] # <<>> <=> pc[r] = "done")
  BY DEF ObservedIInv, TelemetryTypes, RecordedOnce
<1>2. DOMAIN record[r] = 1..Len(record[r]) /\ Len(record[r]) \in Nat
  BY <1>1
<1>3. CASE record[r] = <<>>
  BY <1>1, <1>3 DEF Recorded
<1>4. CASE record[r] # <<>>
  <2>1. DOMAIN record[r] = {1}
    BY <1>1, <1>2, <1>4
  <2> QED BY <1>1, <1>4, <2>1 DEF Recorded, Recording
<1> QED BY <1>3, <1>4

\* A read is recorded as shared exactly if one run of the chain answered it
\* and others (SingleflightDecorator, addTags).
THEOREM SharingIsTold == ObservedSpec => []SharedTrue
<1>1. ObservedIInv => SharedTrue
  <2> SUFFICES ASSUME ObservedIInv, Has("singleflight"), NEW r \in Requests,
                      pc[r] = "done", req[r].op \in Reads
               PROVE  /\ Recorded(r, "shared") <=> Others(r) # {}
                      /\ Recorded(r, "not shared") <=> Others(r) = {}
    BY DEF SharedTrue, Others
  <2>1. /\ "shared" \in Recording(r) <=> Others(r) # {}
        /\ "not shared" \in Recording(r) <=> Others(r) = {}
    BY DEF ObservedIInv, RecordsTrue
  <2> QED BY <2>1, RecordedFields
<1> QED BY <1>1, ObservedInvariance, PTL

\* A load is in the record of the request that began it and in no other; it
\* is missing only if that request's context ended before it returned.
THEOREM LoadsAreCounted == ObservedSpec => []LoadsCounted
<1>1. ObservedIInv => LoadsCounted
  <2> SUFFICES ASSUME ObservedIInv, NEW r \in Requests
               PROVE  /\ Recorded(r, "loaded") => missFlight[r].st \in {"loaded", "done"}
                      /\ Recorded(r, "reloaded") =>
                           refreshFlight[r].st \in {"loaded", "done"}
                      /\ pc[r] = "done" /\ ~cancelled[r] =>
                           /\ missFlight[r].st # "none" => Recorded(r, "loaded")
                           /\ refreshFlight[r].st # "none" => Recorded(r, "reloaded")
    BY DEF LoadsCounted
  <2>1. pc[r] = "done" =>
          /\ "loaded" \in Recording(r) => HasResult(missFlight, r)
          /\ "reloaded" \in Recording(r) => HasResult(refreshFlight, r)
          /\ ~cancelled[r] =>
               /\ missFlight[r].st # "none" => "loaded" \in Recording(r)
               /\ refreshFlight[r].st # "none" => "reloaded" \in Recording(r)
    BY DEF ObservedIInv, RecordsTrue
  <2> QED BY <2>1, RecordedFields DEF HasResult
<1> QED BY <1>1, ObservedInvariance, PTL

\* A call is recorded once, when it returns, and its record stays as it was
\* although loaders that outlive it go on adding to its event.
THEOREM RecordsAreKept == ObservedSpec => RecordsKept
<1> DEFINE Kept == \A r \in Requests :
                     /\ record[r] # <<>> => record'[r] = record[r]
                     /\ record'[r] # <<>> <=> pc'[r] = "done"
<1>1. ObservedIInv /\ [ObservedNext]_observedVars => Kept
  BY StepRecords DEF RecordedOnce
<1>2. ObservedIInv /\ [ObservedNext]_observedVars => [Kept]_observedVars
  BY <1>1
<1> QED BY <1>2, ObservedInvariance, PTL DEF ObservedSpec, RecordsKept

=============================================================================
