---------------------------- MODULE Expiry_proofs ----------------------------
(***************************************************************************)
(* Theorems about Expiry, for any set of processes, any times to live and  *)
(* any error of the clocks.                                                *)
(***************************************************************************)
EXTENDS Expiry, TLAPS

\* What the last step answered was so, and still is: nothing has happened
\* since.
ToldTrue ==
    told.verdict # "none" =>
        /\ entry[told.from] # Absent
        /\ told.verdict = "expired" <=> Expired(told.by, entry[told.from])

IInv == TypeOK /\ DeadlinesTrue /\ ToldTrue

\* What is written has a true deadline.
LEMMA WrittenTrue ==
    ASSUME TypeOK, NEW p \in Processes, NEW ttl \in TTLs
    PROVE  Written(p, ttl) \in Entry /\ DeadlineTrue(Written(p, ttl))
<1> DEFINE e == Written(p, ttl)
<1>1. /\ now \in Nat /\ now \in Start .. MaxTime /\ ttl \in 0 .. Half - 1
      /\ offset[p] \in Int /\ -Skew <= offset[p] /\ offset[p] <= Skew
  BY TimeAssumption DEF TTLs, TypeOK
<1>2. e.at = now /\ e.ttl = ttl
      /\ e.deadline = IF ttl = 0 THEN 0 ELSE Deadline(Clock(p) + ttl)
  BY DEF Written
<1>3. Clock(p) + ttl \in Nat /\ Clock(p) + ttl > 0
  BY <1>1, TimeAssumption DEF Clock
<1>4. e.deadline \in 0 .. Half - 1
  BY <1>2, <1>3, TimeAssumption DEF Deadline
<1>5. e \in Entry
  BY <1>1, <1>2, <1>4 DEF Written, Entry
<1>6. DeadlineTrue(e)
  BY <1>1, <1>2, <1>3, TimeAssumption DEF Deadline, Clock, DeadlineTrue
<1> QED BY <1>5, <1>6

LEMMA InitIInv == Init => IInv
<1> SUFFICES ASSUME Init PROVE IInv
  OBVIOUS
<1>1. Start \in Start .. MaxTime
  BY TimeAssumption
<1>2. TypeOK
  BY <1>1 DEF Init, TypeOK
<1>3. DeadlinesTrue /\ ToldTrue
  BY DEF Init, DeadlinesTrue, ToldTrue, Nothing, Telling
<1> QED BY <1>2, <1>3 DEF IInv

LEMMA StepIInv == IInv /\ [Next]_vars => IInv'
<1> SUFFICES ASSUME IInv, [Next]_vars PROVE IInv'
  OBVIOUS
<1> USE DEF IInv
<1>1. ASSUME NEW p \in Processes, NEW x \in Places, Tell(p, x)
      PROVE  IInv'
  <2>1. TypeOK' /\ DeadlinesTrue'
    BY <1>1 DEF Tell, TypeOK, DeadlinesTrue, Telling
  <2>2. ToldTrue'
    BY <1>1 DEF Tell, ToldTrue, Telling, Expired, Clock
  <2> QED BY <2>1, <2>2
<1>2. ASSUME NEW p \in Processes, NEW x \in Places, NEW ttl \in TTLs,
             Write(p, x, ttl)
      PROVE  IInv'
  <2> DEFINE e == Written(p, ttl)
  <2>1. e \in Entry /\ DeadlineTrue(e) /\ entry' = [entry EXCEPT ![x] = e]
    BY <1>2, WrittenTrue DEF Write
  <2>2. TypeOK'
    BY <1>2, <2>1 DEF Write, TypeOK
  <2>3. DeadlinesTrue'
    BY <2>1 DEF DeadlinesTrue, TypeOK
  <2>4. ToldTrue'
    BY <1>2 DEF Write, ToldTrue, Nothing, Telling
  <2> QED BY <2>2, <2>3, <2>4
<1>3. ASSUME NEW x \in Places, Remove(x)
      PROVE  IInv'
  BY <1>3 DEF Remove, TypeOK, DeadlinesTrue, ToldTrue, Nothing, Telling
<1>4. CASE TellNothing
  BY <1>4 DEF TellNothing, TypeOK, DeadlinesTrue, ToldTrue, Nothing, Telling
<1>5. CASE Pass
  BY <1>5, TimeAssumption
     DEF Pass, TypeOK, DeadlinesTrue, ToldTrue, Nothing, Telling
<1>6. CASE UNCHANGED vars
  BY <1>6 DEF vars, TypeOK, DeadlinesTrue, ToldTrue, Expired, Clock
<1> QED BY <1>1, <1>2, <1>3, <1>4, <1>5, <1>6 DEF Next

\* The fields of an entry are numbers.
LEMMA EntryFields ==
    ASSUME NEW e \in Entry
    PROVE  /\ e.at \in Start .. MaxTime /\ e.ttl \in 0 .. Half - 1
           /\ e.deadline \in Nat
<1>1. e.at \in Start .. MaxTime /\ e.ttl \in TTLs /\ e.deadline \in 0 .. Half - 1
  BY DEF Entry
<1>2. e.ttl \in 0 .. Half - 1
  BY <1>1 DEF TTLs
<1>3. e.deadline \in Nat
  BY <1>1
<1> QED BY <1>1, <1>2, <1>3

\* What reads answer is right up to the error of two clocks.
LEMMA IInvImplies == IInv => ExpiryHonoured
<1> SUFFICES ASSUME IInv, told.verdict # "none" PROVE ExpiryHonoured
  BY DEF ExpiryHonoured
<1> DEFINE e == entry[told.from]
           due == e.at + e.ttl
<1>1. /\ told.by \in Processes /\ told.from \in Places
      /\ told.verdict \in {"fresh", "expired"}
  BY DEF IInv, TypeOK, Nothing, Telling
<1>2. e \in Entry
  BY <1>1 DEF IInv, ToldTrue, TypeOK
<1>3. /\ e.at \in Start .. MaxTime /\ e.ttl \in 0 .. Half - 1
      /\ e.deadline \in Nat /\ now \in Start .. MaxTime
  BY <1>2, EntryFields DEF IInv, TypeOK
<1>4. /\ Clock(told.by) \in Int
      /\ now - Skew <= Clock(told.by) /\ Clock(told.by) <= now + Skew
  BY <1>1, <1>3, TimeAssumption DEF Clock, IInv, TypeOK
<1>5. DeadlineTrue(e)
  BY <1>1 DEF IInv, DeadlinesTrue, ToldTrue
<1>6. told.verdict = "expired"
        <=> e.deadline # 0 /\ Clock(told.by) > e.deadline
  BY DEF IInv, ToldTrue, Expired
<1>7. CASE told.verdict = "fresh"
  <2>1. e.ttl = 0 \/ now - e.at <= e.ttl + 2 * Skew
    BY <1>3, <1>4, <1>5, <1>6, <1>7, TimeAssumption DEF DeadlineTrue
  <2> QED BY <1>7, <2>1 DEF ExpiryHonoured
<1>8. CASE told.verdict = "expired"
  <2>1. e.ttl > 0 /\ now - e.at > e.ttl - 2 * Skew
    BY <1>3, <1>4, <1>5, <1>6, <1>8, TimeAssumption DEF DeadlineTrue
  <2> QED BY <1>8, <2>1 DEF ExpiryHonoured
<1> QED BY <1>1, <1>7, <1>8

\* The inductive invariant holds for any clocks within their error.
THEOREM Invariance == Spec => []IInv
  BY InitIInv, StepIInv, PTL DEF Spec

\* Logical expiry is honoured: an answer without a reload is not too old, and
\* a reload not too early, by more than the error of the clocks of writer and
\* reader.
THEOREM ExpiryTheorem == Spec => []ExpiryHonoured
  BY Invariance, IInvImplies, PTL
=============================================================================
