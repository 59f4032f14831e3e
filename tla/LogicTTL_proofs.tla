--------------------------- MODULE LogicTTL_proofs ---------------------------
(***************************************************************************)
(* LogicTTL implements Expiry, for any number of processes, any way to     *)
(* store and any configurations that DeploymentAssumption allows: whatever *)
(* the format of the bytes, no deadline is read as another.                *)
(***************************************************************************)
EXTENDS LogicTTL, SequenceTheorems, TLAPS

Deadlines == INSTANCE Expiry_proofs WITH
    offset <- [p \in Processes |-> IF Typed THEN 0 ELSE offset[p]],
    entry <- [x \in Places |->
                [at |-> store[x].at, ttl |-> store[x].by.ttl,
                 deadline |-> Deadline(store[x])]],
    told <- IF told.verdict = "unreadable" THEN Nothing ELSE told

\* A header gives back what fits it, and nothing for what does not.
LEMMA SignedValue ==
    ASSUME NEW t \in 0 .. 2 * Half - 1
    PROVE  Signed(t) = IF t < Half THEN t ELSE t - 2 * Half
<1>1. Half \in Nat /\ Half > 0
  BY TimeAssumption
<1>2. CASE t < Half
  <2>1. t + Half \in 0 .. 2 * Half - 1
    BY <1>1, <1>2
  <2>2. (t + Half) % (2 * Half) = t + Half
    BY <1>1, <2>1
  <2> QED BY <1>1, <1>2, <2>2 DEF Signed
<1>3. CASE t >= Half
  <2>1. t - Half \in 0 .. 2 * Half - 1 /\ t + Half = t - Half + 2 * Half
    BY <1>1, <1>3
  <2>2. (t + Half) % (2 * Half) = t - Half
    BY <1>1, <2>1
  <2> QED BY <1>1, <1>3, <2>2 DEF Signed
<1> QED BY <1>1, <1>2, <1>3

-----------------------------------------------------------------------------
(***************************************************************************)
(* Types                                                                   *)
(***************************************************************************)

\* What DeploymentAssumption says of the configuration of a process.
LEMMA ConfigTypes ==
    ASSUME TypeOK, NEW p \in Processes
    PROVE  /\ deployment.via \in {"typed", "header", "codec"}
           /\ cfg[p] \in deployment.cfgs
           /\ cfg[p].transforms \in Seq(Compressor)
           /\ cfg[p].ttl \in 0 .. Half - 1
           /\ cfg[p].loader \in BOOLEAN
  BY DeploymentAssumption DEF TypeOK

\* A clock shows an instant that fits the header.
LEMMA ClockTypes ==
    ASSUME TypeOK, NEW p \in Processes
    PROVE  /\ Clock(p) \in 1 .. Half - 1
           /\ now \in Start .. MaxTime /\ Start > 0
<1>1. /\ now \in Start .. MaxTime /\ offset[p] \in -Skew .. Skew
  BY DEF TypeOK
<1> QED BY <1>1, TimeAssumption DEF Clock

\* The expiry time that p computes: later than now, or none.
LEMMA ExpireAtTypes ==
    ASSUME TypeOK, NEW p \in Processes
    PROVE  ExpireAt(p) \in 0 .. 2 * Half - 1
<1>1. Clock(p) \in 1 .. Half - 1 /\ cfg[p].ttl \in 0 .. Half - 1
  BY ClockTypes, ConfigTypes
<1> QED BY <1>1, TimeAssumption DEF ExpireAt

\* What p stores is an entry.
LEMMA StoredTypes ==
    ASSUME TypeOK, NEW p \in Processes
    PROVE  Stored(p) \in Entry
<1> DEFINE s == cfg[p].transforms
<1>1. s \in Seq(Compressor) /\ cfg[p] \in deployment.cfgs
  BY ConfigTypes
<1>2. ASSUME NEW i \in DOMAIN s PROVE Compresses(s[i]) \in Bytes
  <2>1. s[i] \in Compressor
    BY <1>1
  <2>2. s[i].kind \in {"gzip", "zlib", "flate", "lzw"} /\ s[i].width \in Nat
    BY <2>1 DEF Compressor
  <2>3. Order(s[i]) \in {"LSB", "MSB"} /\ Width(s[i]) \in Nat
    BY <2>2 DEF Order, Width
  <2>4. Format(s[i], Order(s[i]), Width(s[i])) \in Bytes
    BY <2>2, <2>3 DEF Format, Bytes
  <2> QED BY <2>4 DEF Compresses
<1>3. Writes(cfg[p]) \in Seq(Bytes)
  <2>1. DOMAIN s = 1 .. Len(s) /\ Len(s) \in Nat
    BY <1>1
  <2>2. Writes(cfg[p]) \in [1 .. Len(s) -> Bytes]
    BY <1>2, <2>1 DEF Writes
  <2> QED BY <2>1, <2>2, SeqDef
<1>4. ExpireAt(p) \in 0 .. 2 * Half - 1 /\ Half \in Nat
  BY ExpireAtTypes, TimeAssumption
<1>5. Encodes(ExpireAt(p)) \in IF deployment.via = "header"
                                THEN -Half .. Half - 1 ELSE 0 .. 2 * Half
  BY <1>4, SignedValue DEF Encodes
<1>6. now \in Start .. MaxTime
  BY DEF TypeOK
<1> QED BY <1>1, <1>3, <1>5, <1>6 DEF Stored, Entry

\* Writing keeps every place what it should be.
LEMMA SetsTypes ==
    ASSUME TypeOK, NEW p \in Processes, Sets(p)
    PROVE  store' \in [Places -> Entry \cup {Absent}]
<1>1. Stored(p) \in Entry /\ store \in [Places -> Entry \cup {Absent}]
  BY StoredTypes DEF TypeOK
<1>2. store' = [store EXCEPT ![Place(p)] = Stored(p)] \/ store' = store
  BY DEF Sets
<1> QED BY <1>1, <1>2

LEMMA InitTypes == Init => TypeOK
<1> SUFFICES ASSUME Init PROVE TypeOK
  OBVIOUS
<1>1. Start \in Start .. MaxTime
  BY TimeAssumption
<1> QED BY <1>1 DEF Init, TypeOK

LEMMA StepTypes == TypeOK /\ [Next]_vars => TypeOK'
<1> SUFFICES ASSUME TypeOK, [Next]_vars PROVE TypeOK'
  OBVIOUS
<1>1. ASSUME NEW p \in Processes PROVE Place(p) \in Places
  BY DEF Place, Places
<1>2. ASSUME deployment' = deployment PROVE Entry' = Entry
  BY <1>2 DEF Entry
<1>3. ASSUME NEW p \in Processes, Set(p) PROVE TypeOK'
  <2>1. store' \in [Places -> Entry \cup {Absent}]
    BY <1>3, SetsTypes DEF Set
  <2> QED BY <1>2, <1>3, <2>1 DEF Set, TypeOK, Answers, clockVars
<1>4. ASSUME NEW p \in Processes, Get(p) PROVE TypeOK'
  BY <1>1, <1>2, <1>4, ConfigTypes DEF Get, TypeOK, Answers, Telling, clockVars
<1>5. ASSUME NEW p \in Processes, GetUnreadable(p) PROVE TypeOK'
  BY <1>1, <1>2, <1>5 DEF GetUnreadable, TypeOK, Answers, Telling, clockVars
<1>6. ASSUME NEW p \in Processes, GetOther(p) PROVE TypeOK'
  BY <1>2, <1>6 DEF GetOther, TypeOK, Answers, clockVars
<1>7. ASSUME NEW p \in Processes, Reloaded(p) PROVE TypeOK'
  <2>1. store' \in [Places -> Entry \cup {Absent}]
    BY <1>7, SetsTypes DEF Reloaded, TypeOK
  <2> QED BY <1>2, <1>7, <2>1 DEF Reloaded, TypeOK, Answers, clockVars
<1>8. ASSUME NEW p \in Processes, Adjust(p) PROVE TypeOK'
  BY <1>2, <1>8 DEF Adjust, TypeOK, Answers
<1>9. ASSUME NEW p \in Processes, Restart(p) PROVE TypeOK'
  <2>1. cfg' \in [Processes -> deployment.cfgs]
    BY <1>9 DEF Restart, TypeOK
  <2>2. store' \in [Places -> Entry \cup {Absent}]
    BY <1>9 DEF Restart, TypeOK
  <2>3. \A q \in Processes : pc'[q] = "reload" => cfg'[q].loader
    <3>1. pc' = [pc EXCEPT ![p] = "idle"]
      BY <1>9 DEF Restart
    <3>2. ASSUME NEW q \in Processes, q # p PROVE cfg'[q] = cfg[q]
      BY <1>9, <3>2 DEF Restart, TypeOK
    <3> QED BY <3>1, <3>2 DEF TypeOK
  <2> QED BY <1>2, <1>9, <2>1, <2>2, <2>3 DEF Restart, TypeOK, Answers, clockVars
<1>10. ASSUME NEW x \in Places, Remove(x) PROVE TypeOK'
  BY <1>2, <1>10 DEF Remove, TypeOK, Answers, clockVars
<1>11. CASE Tick
  <2>1. now' \in Start .. MaxTime
    BY <1>11, TimeAssumption DEF Tick, TypeOK
  <2> QED BY <1>2, <1>11, <2>1 DEF Tick, TypeOK, Answers
<1>12. CASE UNCHANGED vars
  BY <1>2, <1>12 DEF vars, clockVars, TypeOK
<1> QED
  BY <1>3, <1>4, <1>5, <1>6, <1>7, <1>8, <1>9, <1>10, <1>11, <1>12 DEF Next

\* Every variable keeps its type, and no nil loader is called.
THEOREM TypeCorrect == Spec => []TypeOK
  BY InitTypes, StepTypes, PTL DEF Spec

-----------------------------------------------------------------------------
(***************************************************************************)
(* Refinement                                                              *)
(***************************************************************************)

\* An entry as Expiry sees it.
Seen(e) == [at |-> e.at, ttl |-> e.by.ttl, deadline |-> Deadline(e)]

\* What is nowhere is nowhere; what is somewhere has a time.
LEMMA SeenAbsent ==
    /\ Seen(Absent) = Deadlines!Absent
    /\ \A e \in Entry : Seen(e) # Deadlines!Absent
<1>1. Deadline(Absent) = 0
  BY TimeAssumption DEF Deadline, Decodes, Absent
<1>2. Seen(Absent) = Deadlines!Absent
  BY <1>1 DEF Seen, Absent, Deadlines!Absent
<1>3. ASSUME NEW e \in Entry PROVE Seen(e) # Deadlines!Absent
  <2>1. e.at \in Start .. MaxTime
    BY DEF Entry
  <2>2. Seen(e).at # 0
    BY <2>1, TimeAssumption DEF Seen
  <2> QED BY <2>2 DEF Deadlines!Absent
<1> QED BY <1>2, <1>3

\* The clock of a process, as Expiry sees it.
LEMMA ClockSeen ==
    ASSUME TypeOK, NEW p \in Processes
    PROVE  Deadlines!Clock(p) = Clock(p)
<1>1. now \in Nat
  BY TimeAssumption DEF TypeOK
<1> QED BY <1>1 DEF Clock, Deadlines!Clock

\* What p stores has the deadline that Expiry gives it, whatever its bytes:
\* one that does not fit a header is negative there, hence none.
LEMMA WrittenSeen ==
    ASSUME TypeOK, NEW p \in Processes
    PROVE  Seen(Stored(p)) = Deadlines!Written(p, cfg[p].ttl)
<1> DEFINE t == ExpireAt(p)
<1>1. t \in 0 .. 2 * Half - 1 /\ Half \in Nat /\ Half > 0
  BY ExpireAtTypes, TimeAssumption
<1>2. Deadline(Stored(p)) = IF t > Half - 1 THEN 0 ELSE t
  <2>1. Stored(p).ts = Encodes(t)
    BY DEF Stored
  <2>2. CASE deployment.via = "header"
    <3>1. Encodes(t) = IF t < Half THEN t ELSE t - 2 * Half
      BY <1>1, <2>2, SignedValue DEF Encodes
    <3>2. Decodes(Encodes(t)) = IF t < Half THEN t ELSE 0
      BY <1>1, <2>2, <3>1 DEF Decodes
    <3> QED BY <1>1, <2>1, <3>2 DEF Deadline
  <2>3. CASE deployment.via # "header"
    BY <1>1, <2>1, <2>3 DEF Encodes, Decodes, Deadline
  <2> QED BY <2>2, <2>3
<1>3. cfg[p].ttl \in 0 .. Half - 1 /\ Clock(p) \in 1 .. Half - 1
  BY ConfigTypes, ClockTypes
<1>4. Deadline(Stored(p)) = IF cfg[p].ttl = 0 THEN 0
                            ELSE Deadlines!Deadline(Deadlines!Clock(p) + cfg[p].ttl)
  BY <1>1, <1>2, <1>3, ClockSeen DEF ExpireAt, Deadlines!Deadline
<1>5. Stored(p).at = now /\ Stored(p).by.ttl = cfg[p].ttl
  BY DEF Stored
<1> QED BY <1>4, <1>5 DEF Seen, Deadlines!Written

\* A process takes an entry for expired when Expiry does: no clock shows what
\* is beyond the horizon.
LEMMA ExpiredSeen ==
    ASSUME TypeOK, NEW p \in Processes, NEW e \in Entry
    PROVE  IsExpire(p, e) <=> Deadlines!Expired(p, Seen(e))
<1>1. e.ts \in Int
  <2>1. e.ts \in IF deployment.via = "header" THEN -Half .. Half - 1
                                              ELSE 0 .. 2 * Half
    BY DEF Entry
  <2> QED BY <2>1, TimeAssumption
<1>2. Decodes(e.ts) \in Int
  BY <1>1 DEF Decodes
<1>3. Clock(p) \in 1 .. Half - 1 /\ Half \in Nat
  BY ClockTypes, TimeAssumption
<1>4. Seen(e).deadline = IF Decodes(e.ts) > Half - 1 THEN 0 ELSE Decodes(e.ts)
  BY DEF Seen, Deadline
<1> QED BY <1>2, <1>3, <1>4, ClockSeen DEF IsExpire, Deadlines!Expired

\* The mapping is that of LogicTTL.
Mapped == [x \in Places |->
             [at |-> store[x].at, ttl |-> store[x].by.ttl,
              deadline |-> Deadline(store[x])]]
Offsets == [p \in Processes |-> IF Typed THEN 0 ELSE offset[p]]
Said == IF told.verdict = "unreadable" THEN Nothing ELSE told

LEMMA MappedSeen == \A x \in Places : Mapped[x] = Seen(store[x])
  BY DEF Mapped, Seen

\* One entry is stored as Expiry stores it.
LEMMA StoreSeen ==
    ASSUME TypeOK, deployment' = deployment, NEW x \in Places, NEW e,
           store' = [store EXCEPT ![x] = e]
    PROVE  Mapped' = [Mapped EXCEPT ![x] = Seen(e)]
<1>1. ASSUME NEW d PROVE Deadline(d)' = Deadline(d)
  BY DEF Deadline, Decodes
<1>2. ASSUME NEW y \in Places
      PROVE  Mapped'[y] = IF y = x THEN Seen(e) ELSE Mapped[y]
  BY <1>1 DEF Mapped, Seen, TypeOK
<1> QED BY <1>2 DEF Mapped

\* What Expiry sees when a step tells nobody anything and changes no clock.
LEMMA QuietSeen ==
    ASSUME TypeOK, TypeOK', deployment' = deployment, UNCHANGED clockVars,
           told' = Nothing
    PROVE  Offsets' = Offsets /\ now' = now /\ Said' = Deadlines!Nothing
<1>1. Offsets' = Offsets /\ now' = now
  BY DEF Offsets, Typed, clockVars
<1>2. Said' = Deadlines!Nothing
  BY DEF Said, Nothing, Deadlines!Nothing, Deadlines!Telling
<1> QED BY <1>1, <1>2

\* Writing is writing for Expiry, or nothing when a conversion refuses.
LEMMA SetsSeen ==
    ASSUME TypeOK, TypeOK', deployment' = deployment, UNCHANGED clockVars,
           told' = Nothing, NEW p \in Processes, Sets(p) \/ UNCHANGED store
    PROVE  Deadlines!Next
<1>1. Offsets' = Offsets /\ now' = now /\ Said' = Deadlines!Nothing
  BY QuietSeen
<1>2. Place(p) \in Places
  BY DEF Place, Places
<1>3. cfg[p].ttl \in Deadlines!TTLs
  BY ConfigTypes DEF Deadlines!TTLs
<1>4. CASE store' = [store EXCEPT ![Place(p)] = Stored(p)]
  <2>1. Mapped' = [Mapped EXCEPT ![Place(p)] = Deadlines!Written(p, cfg[p].ttl)]
    BY <1>2, <1>4, StoreSeen, WrittenSeen
  <2>2. PICK x \in Places : x = Place(p)
    BY <1>2
  <2>3. PICK ttl \in Deadlines!TTLs : ttl = cfg[p].ttl
    BY <1>3
  <2>4. Deadlines!Write(p, x, ttl)
    BY <1>1, <2>1, <2>2, <2>3 DEF Deadlines!Write, Mapped, Offsets, Said
  <2> QED BY <2>4, Zenon DEF Deadlines!Next
<1>5. CASE UNCHANGED store
  <2>1. Mapped' = Mapped
    BY <1>5 DEF Mapped, Deadline, Decodes
  <2>2. Deadlines!TellNothing
    BY <1>1, <2>1 DEF Deadlines!TellNothing, Mapped, Offsets, Said
  <2> QED BY <2>2 DEF Deadlines!Next
<1> QED BY <1>4, <1>5 DEF Sets

\* Deleting is deleting for Expiry.
LEMMA RemoveSeen ==
    ASSUME TypeOK, TypeOK', deployment' = deployment, UNCHANGED clockVars,
           told' = Nothing, NEW x \in Places,
           store' = [store EXCEPT ![x] = Absent]
    PROVE  Deadlines!Next
<1>1. Offsets' = Offsets /\ now' = now /\ Said' = Deadlines!Nothing
  BY QuietSeen
<1>2. Mapped' = [Mapped EXCEPT ![x] = Deadlines!Absent]
  BY StoreSeen, SeenAbsent
<1>3. Deadlines!Remove(x)
  BY <1>1, <1>2 DEF Deadlines!Remove, Mapped, Offsets, Said
<1> QED BY <1>3 DEF Deadlines!Next

\* A read that finds an entry it can read is told what Expiry tells it.
LEMMA GetSeen ==
    ASSUME TypeOK, TypeOK', NEW p \in Processes, Get(p)
    PROVE  Deadlines!Next
<1> DEFINE x == Place(p)
           e == store[x]
<1>1. x \in Places /\ e \in Entry
  BY DEF Get, TypeOK, Place, Places
<1>2. Offsets' = Offsets /\ now' = now /\ Mapped' = Mapped
  BY DEF Get, Offsets, Mapped, Typed, Deadline, Decodes, clockVars
<1>3. Mapped[x] = Seen(e)
  BY <1>1, MappedSeen
<1>4. Mapped[x] # Deadlines!Absent
  BY <1>1, <1>3, SeenAbsent
<1>5. IsExpire(p, e) <=> Deadlines!Expired(p, Mapped[x])
  BY <1>1, <1>3, ExpiredSeen
<1>6. told' = Telling(p, IF IsExpire(p, e) THEN "expired" ELSE "fresh")
  BY DEF Get, Answers
<1>7. Said' = Deadlines!Telling(p, x, IF Deadlines!Expired(p, Mapped[x])
                                      THEN "expired" ELSE "fresh")
  BY <1>5, <1>6 DEF Said, Telling, Deadlines!Telling
<1>8. Deadlines!Tell(p, x)
  BY <1>2, <1>4, <1>7 DEF Deadlines!Tell, Mapped, Offsets, Said
<1> QED BY <1>1, <1>8 DEF Deadlines!Next

\* Time and adjustments of the clocks pass for Expiry.
LEMMA PassSeen ==
    ASSUME TypeOK, TypeOK', Tick \/ \E p \in Processes : Adjust(p)
    PROVE  Deadlines!Next
<1>1. Mapped' = Mapped /\ Said' = Deadlines!Nothing
  BY DEF Tick, Adjust, Answers, Mapped, Deadline, Decodes, Said, Nothing,
         Deadlines!Nothing, Deadlines!Telling
<1>2. now' \in now .. MaxTime
  BY TimeAssumption DEF Tick, Adjust, TypeOK
<1>3. Offsets' \in [Processes -> -Skew .. Skew]
  <2>1. 0 \in -Skew .. Skew
    BY TimeAssumption
  <2> QED BY <2>1 DEF Offsets, TypeOK
<1>4. Deadlines!Pass
  BY <1>1, <1>2, <1>3 DEF Deadlines!Pass, Mapped, Offsets, Said
<1> QED BY <1>4 DEF Deadlines!Next

\* Every step is a step of Expiry, or none.
LEMMA StepSeen ==
    TypeOK /\ TypeOK' /\ [Next]_vars => [Deadlines!Next]_(Deadlines!vars)
<1> SUFFICES ASSUME TypeOK, TypeOK', [Next]_vars
             PROVE  Deadlines!Next \/ UNCHANGED Deadlines!vars
  OBVIOUS
<1>1. ASSUME NEW p \in Processes, Set(p) PROVE Deadlines!Next
  BY <1>1, SetsSeen DEF Set, Answers
<1>2. ASSUME NEW p \in Processes, Get(p) PROVE Deadlines!Next
  BY <1>2, GetSeen
<1>3. ASSUME NEW p \in Processes, GetUnreadable(p) PROVE Deadlines!Next
  <2>1. Offsets' = Offsets /\ now' = now /\ Mapped' = Mapped
    BY <1>3 DEF GetUnreadable, Offsets, Mapped, Typed, Deadline, Decodes, clockVars
  <2>2. Said' = Deadlines!Nothing
    BY <1>3 DEF GetUnreadable, Answers, Telling, Said, Nothing,
                Deadlines!Nothing, Deadlines!Telling
  <2>3. Deadlines!TellNothing
    BY <2>1, <2>2 DEF Deadlines!TellNothing, Mapped, Offsets, Said
  <2> QED BY <2>3 DEF Deadlines!Next
<1>4. ASSUME NEW p \in Processes, GetOther(p) PROVE Deadlines!Next
  BY <1>4, SetsSeen DEF GetOther, Answers
<1>5. ASSUME NEW p \in Processes, Reloaded(p) PROVE Deadlines!Next
  BY <1>5, SetsSeen DEF Reloaded, Answers
<1>6. ASSUME NEW p \in Processes, Restart(p) PROVE Deadlines!Next
  <2>1. CASE Typed
    BY <1>6, <2>1, RemoveSeen DEF Restart, Answers, Places
  <2>2. CASE ~Typed
    BY <1>6, <2>2, SetsSeen DEF Restart, Answers
  <2> QED BY <2>1, <2>2
<1>7. ASSUME NEW x \in Places, Remove(x) PROVE Deadlines!Next
  BY <1>7, RemoveSeen DEF Remove, Answers
<1>8. CASE Tick \/ \E p \in Processes : Adjust(p)
  BY <1>8, PassSeen
<1>9. CASE UNCHANGED vars
  BY <1>9 DEF vars, clockVars, Deadlines!vars, Typed, Deadline, Decodes
<1> QED BY <1>1, <1>2, <1>3, <1>4, <1>5, <1>6, <1>7, <1>8, <1>9 DEF Next

LEMMA InitSeen == Init => Deadlines!Init
<1> SUFFICES ASSUME Init PROVE Deadlines!Init
  OBVIOUS
<1>1. Mapped = [x \in Places |-> Deadlines!Absent]
  BY SeenAbsent DEF Init, Mapped, Seen
<1>2. Offsets \in [Processes -> -Skew .. Skew]
  BY TimeAssumption DEF Init, Offsets
<1>3. Said = Deadlines!Nothing
  BY DEF Init, Said, Nothing, Deadlines!Nothing, Deadlines!Telling
<1> QED BY <1>1, <1>2, <1>3 DEF Init, Deadlines!Init, Mapped, Offsets, Said

-----------------------------------------------------------------------------
(***************************************************************************)
(* Theorems                                                                *)
(***************************************************************************)

\* Both instances of Expiry say the same.
LEMMA PromiseIsDeadlines ==
    /\ Promise!Init <=> Deadlines!Init
    /\ [Promise!Next]_(Promise!vars) <=> [Deadlines!Next]_(Deadlines!vars)
    /\ Promise!ExpiryHonoured <=> Deadlines!ExpiryHonoured
<1>1. Promise!Init <=> Deadlines!Init
  BY DEF Promise!Init, Promise!Absent, Promise!Nothing, Promise!Telling,
         Deadlines!Init, Deadlines!Absent, Deadlines!Nothing, Deadlines!Telling
<1>2. [Promise!Next]_(Promise!vars) <=> [Deadlines!Next]_(Deadlines!vars)
  BY DEF Promise!Next, Promise!TTLs, Deadlines!TTLs, Promise!Write, Promise!Written, Promise!Deadline,
         Promise!Clock, Promise!Remove, Promise!Tell, Promise!TellNothing,
         Promise!Pass, Promise!Expired, Promise!Absent, Promise!Nothing,
         Promise!Telling, Promise!vars,
         Deadlines!Next, Deadlines!Write, Deadlines!Written,
         Deadlines!Deadline, Deadlines!Clock, Deadlines!Remove,
         Deadlines!Tell, Deadlines!TellNothing, Deadlines!Pass,
         Deadlines!Expired, Deadlines!Absent, Deadlines!Nothing,
         Deadlines!Telling, Deadlines!vars
<1>3. Promise!ExpiryHonoured <=> Deadlines!ExpiryHonoured
  BY DEF Promise!ExpiryHonoured, Deadlines!ExpiryHonoured
<1> QED BY <1>1, <1>2, <1>3

\* Deadlines kept as Go values, as bytes of a codec or in a header are what
\* Expiry says they are.
THEOREM PromiseKept == Spec => KeepsPromise
<1>1. Init => Promise!Init
  BY InitSeen, PromiseIsDeadlines
<1>2. TypeOK /\ TypeOK' /\ [Next]_vars => [Promise!Next]_(Promise!vars)
  BY StepSeen, PromiseIsDeadlines
<1> QED BY <1>1, <1>2, TypeCorrect, PTL DEF Spec, KeepsPromise, Promise!Spec

\* So an answer is too old, or a reload too early, by no more than the error
\* of two clocks.
THEOREM ExpiryIsHonoured == Spec => []ExpiryHonoured
<1>1. Init => Deadlines!Init
  BY InitSeen
<1>2. TypeOK /\ TypeOK' /\ [Next]_vars => [Deadlines!Next]_(Deadlines!vars)
  BY StepSeen
<1>3. Spec => Deadlines!Spec
  BY <1>1, <1>2, TypeCorrect, PTL DEF Spec, Deadlines!Spec
<1>4. Deadlines!Spec => []Deadlines!ExpiryHonoured
  BY Deadlines!ExpiryTheorem, TimeAssumption
<1>5. Deadlines!ExpiryHonoured => ExpiryHonoured
  BY PromiseIsDeadlines DEF ExpiryHonoured
<1> QED BY <1>3, <1>4, <1>5, PTL

-----------------------------------------------------------------------------
(***************************************************************************)
(* Formats                                                                 *)
(***************************************************************************)

\* An entry is in the formats that whoever wrote it writes.
BytesKnown ==
    \A x \in Places : store[x] # Absent => store[x].formats = Writes(store[x].by)

\* Who could not read an entry found one that it does not read.
UnreadableSeen ==
    told.verdict = "unreadable" =>
        /\ told.by \in Processes /\ told.from \in Places
        /\ store[told.from] # Absent
        /\ store[told.from].formats # Reads(cfg[told.by])

\* The same bytes are in the same formats: a default of LZW is the same
\* whether or not it is spelled out, on either side.
LEMMA SameFormats ==
    ASSUME NEW c, NEW d, c.transforms \in Seq(Compressor),
           d.transforms \in Seq(Compressor), SameBytes(c, d)
    PROVE  Writes(c) = Reads(d)
<1> DEFINE s == c.transforms
           t == d.transforms
<1>1. DOMAIN s = DOMAIN t
  <2>1. Len(s) = Len(t)
    BY DEF SameBytes
  <2> QED BY <2>1
<1>2. ASSUME NEW i \in DOMAIN s PROVE Compresses(s[i]) = Decompresses(t[i])
  <2>1. s[i] \in Compressor /\ t[i] \in Compressor
    BY <1>1
  <2>2. /\ s[i].kind = t[i].kind
        /\ s[i].kind = "lzw" =>
             /\ s[i].order = "MSB" <=> t[i].order = "MSB"
             /\ s[i].width = t[i].width \/ {s[i].width, t[i].width} = {0, 8}
    BY DEF SameBytes
  <2> HIDE DEF s, t
  <2>3. s[i].kind = "lzw" => Order(s[i]) = Order(t[i])
    BY <2>1, <2>2 DEF Order, Compressor
  <2>4. s[i].kind = "lzw" => Width(s[i]) = Width(t[i])
    BY <2>1, <2>2 DEF Width, Compressor
  <2> QED BY <2>2, <2>3, <2>4 DEF Compresses, Decompresses, Format
<1> QED BY <1>1, <1>2 DEF Writes, Reads

\* Entries stay in the formats of their writers.
LEMMA StepBytes == TypeOK /\ BytesKnown /\ [Next]_vars => BytesKnown'
<1> SUFFICES ASSUME TypeOK, BytesKnown, [Next]_vars PROVE BytesKnown'
  OBVIOUS
<1>a. store \in [Places -> Entry \cup {Absent}]
  BY DEF TypeOK
<1>1. ASSUME NEW x, NEW e, store' = [store EXCEPT ![x] = e],
             e # Absent => e.formats = Writes(e.by)
      PROVE  BytesKnown'
  BY <1>1, <1>a DEF BytesKnown, Writes, Absent
<1>2. \A p \in Processes : Stored(p).formats = Writes(Stored(p).by)
  BY DEF Stored
<1>3. ASSUME UNCHANGED store PROVE BytesKnown'
  BY <1>3 DEF BytesKnown, Writes, Absent
<1>4. ASSUME NEW p \in Processes, Sets(p) PROVE BytesKnown'
  BY <1>1, <1>2, <1>3, <1>4 DEF Sets
<1>5. ASSUME NEW p \in Processes, Restart(p) PROVE BytesKnown'
  BY <1>1, <1>3, <1>5 DEF Restart
<1>6. ASSUME NEW x \in Places, Remove(x) PROVE BytesKnown'
  BY <1>1, <1>6 DEF Remove
<1> QED BY <1>3, <1>4, <1>5, <1>6
        DEF Next, Set, Get, GetUnreadable, GetOther, Reloaded, Adjust, Tick, vars

\* Only a read that fails says that an entry is unreadable.
LEMMA StepUnreadable == TypeOK /\ UnreadableSeen /\ [Next]_vars => UnreadableSeen'
<1> SUFFICES ASSUME TypeOK, UnreadableSeen, [Next]_vars,
                    told'.verdict = "unreadable"
             PROVE  UnreadableSeen'
  BY DEF UnreadableSeen
<1>1. Nothing.verdict # "unreadable"
  BY DEF Nothing
<1>2. \A p \in Processes : ~Get(p)
  BY DEF Get, Answers, Telling
<1>3. (\E p \in Processes : GetUnreadable(p)) \/ UNCHANGED vars
  BY <1>1, <1>2 DEF Next, Set, GetOther, Reloaded, Adjust, Restart, Remove, Tick,
                    Answers
<1>4. ASSUME NEW p \in Processes, GetUnreadable(p) PROVE UnreadableSeen'
  BY <1>4 DEF GetUnreadable, Answers, Telling, UnreadableSeen, Place, Places,
              Reads, Absent
<1>5. CASE UNCHANGED vars
  BY <1>5 DEF vars, UnreadableSeen, Reads, Absent
<1> QED BY <1>3, <1>4, <1>5

\* A process fails to read only what was written with other conversions; its
\* own entries and those of earlier runs of the same program it always reads.
THEOREM UnreadableHasACause == Spec => []UnreadableHasCause
<1> DEFINE Inv == BytesKnown /\ UnreadableSeen
<1>1. Init => Inv
  BY DEF Init, BytesKnown, UnreadableSeen, Nothing
<1>2. TypeOK /\ Inv /\ [Next]_vars => Inv'
  BY StepBytes, StepUnreadable
<1>3. TypeOK /\ Inv => UnreadableHasCause
  <2> SUFFICES ASSUME TypeOK, Inv, told.verdict = "unreadable"
               PROVE  ~SameBytes(store[told.from].by, cfg[told.by])
    BY DEF UnreadableHasCause
  <2> DEFINE e == store[told.from]
  <2>1. e # Absent /\ e \in Entry /\ e.formats = Writes(e.by)
    BY DEF BytesKnown, UnreadableSeen, TypeOK
  <2>2. e.by.transforms \in Seq(Compressor)
    BY <2>1, DeploymentAssumption DEF Entry, TypeOK
  <2>3. cfg[told.by].transforms \in Seq(Compressor)
    BY ConfigTypes DEF UnreadableSeen
  <2>4. e.formats # Reads(cfg[told.by])
    BY DEF UnreadableSeen
  <2> HIDE DEF e
  <2>5. ~SameBytes(e.by, cfg[told.by])
    BY <2>1, <2>2, <2>3, <2>4, SameFormats
  <2> QED BY <2>5 DEF e
<1> QED BY <1>1, <1>2, <1>3, TypeCorrect, PTL DEF Spec
=============================================================================
