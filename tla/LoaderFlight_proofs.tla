-------------------------- MODULE LoaderFlight_proofs --------------------------
(***************************************************************************)
(* The safety properties of LoaderFlight, for any number of requests and   *)
(* keys and any results.  They follow from one inductive invariant, which  *)
(* says how the three parts of the state hang together: the group          *)
(* registers exactly the flights that are in progress, each under its own  *)
(* key, and every call that was made depends on a flight that exists.      *)
(***************************************************************************)
EXTENDS LoaderFlight, TLAPS

\* A flight is in progress exactly when it is registered, under its key.
Registered ==
    /\ \A k \in Keys : group[k] # None =>
         InFlight(group[k]) /\ flight[group[k]].key = k
    /\ \A f \in Requests : InFlight(f) =>
         flight[f].key \in Keys /\ group[flight[f].key] = f

\* A flight is created by the call of its request.
CreatedByCall ==
    \A r \in Requests : call[r].st = "idle" => flight[r].st = "none"

\* A call depends on a flight for its own key.
CallsHaveFlights ==
    \A r \in Requests : call[r].st # "idle" =>
        /\ call[r].key \in Keys
        /\ call[r].on \in Requests
        /\ flight[call[r].on].st # "none"
        /\ flight[call[r].on].key = call[r].key

\* A flight that has its result failed with a context error only if the
\* context it was given is done.
FlightErrorHasCause ==
    \A f \in Requests : flight[f].st \in {"loaded", "done"} =>
        /\ flight[f].res \in Results
        /\ flight[f].res = CtxErr => cancelled[f]

IInv ==
    /\ TypeOK
    /\ Registered
    /\ CreatedByCall
    /\ CallsHaveFlights
    /\ FlightErrorHasCause
    /\ CtxErrorHasCause

\* The invariant holds before any call is made.
LEMMA InitIInv == Init => IInv
  BY NoneAssumption
     DEF Init, IInv, TypeOK, Flight, Call, Registered, InFlight, CreatedByCall,
         CallsHaveFlights, FlightErrorHasCause, CtxErrorHasCause

\* Every step of the wrapper, the group and the loader keeps it.
LEMMA StepIInv == IInv /\ [Next]_vars => IInv'
<1> SUFFICES ASSUME IInv, [Next]_vars PROVE IInv'
  OBVIOUS
<1> USE NoneAssumption, ResultAssumption
<1> USE DEF IInv, TypeOK, Flight, Call, InFlight
<1>1. ASSUME NEW r \in Requests, NEW k \in Keys,
             Join(r, k), UNCHANGED cancelled
      PROVE  IInv'
  <2>1. TypeOK'
    BY <1>1 DEF Join, Calls
  <2>2. Registered' /\ FlightErrorHasCause'
    BY <1>1 DEF Join, Registered, FlightErrorHasCause
  <2>3. CreatedByCall' /\ CallsHaveFlights'
    BY <1>1 DEF Join, Calls, CreatedByCall, CallsHaveFlights, Registered
  <2>4. CtxErrorHasCause'
    BY <1>1 DEF Join, Calls, CtxErrorHasCause
  <2> QED BY <2>1, <2>2, <2>3, <2>4
<1>2. ASSUME NEW r \in Requests, NEW k \in Keys,
             Create(r, k), UNCHANGED cancelled
      PROVE  IInv'
  <2>1. TypeOK'
    BY <1>2 DEF Create, Calls
  <2>2. Registered'
    BY <1>2 DEF Create, Registered, CreatedByCall
  <2>3. CreatedByCall'
    BY <1>2 DEF Create, Calls, CreatedByCall
  <2>4. CallsHaveFlights'
    BY <1>2 DEF Create, Calls, CreatedByCall, CallsHaveFlights
  <2>5. FlightErrorHasCause'
    BY <1>2 DEF Create, FlightErrorHasCause
  <2>6. CtxErrorHasCause'
    BY <1>2 DEF Create, Calls, CtxErrorHasCause
  <2> QED BY <2>1, <2>2, <2>3, <2>4, <2>5, <2>6
<1>3. ASSUME NEW f \in Requests, NEW x \in Results,
             Load(f, x), UNCHANGED cancelled
      PROVE  IInv'
  <2>1. TypeOK'
    <3>1. flight[f] \in Flight
      OBVIOUS
    <3>2. [flight[f] EXCEPT !.st = "loaded", !.res = x] \in Flight
      BY <3>1
    <3>3. flight' = [flight EXCEPT ![f] =
                       [flight[f] EXCEPT !.st = "loaded", !.res = x]]
      BY <1>3 DEF Load
    <3> QED BY <1>3, <3>2, <3>3 DEF Load
  <2>2. Registered'
    BY <1>3 DEF Load, Registered
  <2>3. CreatedByCall' /\ CallsHaveFlights'
    BY <1>3 DEF Load, CreatedByCall, CallsHaveFlights
  <2>4. FlightErrorHasCause'
    BY <1>3 DEF Load, FlightErrorHasCause
  <2>5. CtxErrorHasCause'
    BY <1>3 DEF Load, CtxErrorHasCause
  <2> QED BY <2>1, <2>2, <2>3, <2>4, <2>5
<1>4. ASSUME NEW f \in Requests, Deliver(f), UNCHANGED cancelled
      PROVE  IInv'
  <2>1. TypeOK'
    BY <1>4 DEF Deliver
  <2>2. Registered'
    BY <1>4 DEF Deliver, Registered
  <2>3. CreatedByCall' /\ CallsHaveFlights'
    BY <1>4 DEF Deliver, CreatedByCall, CallsHaveFlights
  <2>4. FlightErrorHasCause'
    BY <1>4 DEF Deliver, FlightErrorHasCause
  <2>5. CtxErrorHasCause'
    BY <1>4 DEF Deliver, CtxErrorHasCause
  <2> QED BY <2>1, <2>2, <2>3, <2>4, <2>5
<1>5. ASSUME NEW r \in Requests, Receive(r), UNCHANGED cancelled
      PROVE  IInv'
  <2> DEFINE x == flight[call[r].on].res
  <2>1. x \in Results
    BY <1>5 DEF Receive, CallsHaveFlights, FlightErrorHasCause
  <2>2. TypeOK'
    <3>1. call' = [call EXCEPT ![r] =
                     [call[r] EXCEPT !.st = "returned", !.res = x]]
      BY <1>5 DEF Receive, Returns
    <3> HIDE DEF x
    <3>2. call[r] \in Call
      OBVIOUS
    <3>3. [call[r] EXCEPT !.st = "returned", !.res = x] \in Call
      BY <2>1, <3>2
    <3>4. call' \in [Requests -> Call]
      BY <3>1, <3>3
    <3>5. \A s \in Requests : call'[s].st = "returned" => call'[s].res \in Results
      BY <2>1, <3>1, <3>2
    <3> QED BY <1>5, <3>4, <3>5 DEF Receive
  <2>3. Registered' /\ FlightErrorHasCause'
    BY <1>5 DEF Receive, Registered, FlightErrorHasCause
  <2>4. CreatedByCall' /\ CallsHaveFlights'
    BY <1>5 DEF Receive, Returns, CreatedByCall, CallsHaveFlights
  <2>5. CtxErrorHasCause'
    BY <1>5 DEF Receive, Returns, CtxErrorHasCause, CallsHaveFlights,
                FlightErrorHasCause
  <2> QED BY <2>2, <2>3, <2>4, <2>5
<1>6. ASSUME NEW r \in Requests, GiveUp(r), UNCHANGED cancelled
      PROVE  IInv'
  <2>1. TypeOK'
    <3>1. call' = [call EXCEPT ![r] =
                     [call[r] EXCEPT !.st = "returned", !.res = CtxErr]]
      BY <1>6 DEF GiveUp, Returns
    <3>2. call[r] \in Call
      OBVIOUS
    <3>3. [call[r] EXCEPT !.st = "returned", !.res = CtxErr] \in Call
      BY <3>2
    <3>4. call' \in [Requests -> Call]
      BY <3>1, <3>3
    <3>5. \A s \in Requests : call'[s].st = "returned" => call'[s].res \in Results
      BY <3>1, <3>2
    <3> QED BY <1>6, <3>4, <3>5 DEF GiveUp
  <2>2. Registered' /\ FlightErrorHasCause'
    BY <1>6 DEF GiveUp, Registered, FlightErrorHasCause
  <2>3. CreatedByCall' /\ CallsHaveFlights'
    BY <1>6 DEF GiveUp, Returns, CreatedByCall, CallsHaveFlights
  <2>4. CtxErrorHasCause'
    BY <1>6 DEF GiveUp, Returns, CtxErrorHasCause
  <2> QED BY <2>1, <2>2, <2>3, <2>4
<1>7. ASSUME NEW r \in Requests, Cancel(r)
      PROVE  IInv'
  <2>1. TypeOK' /\ Registered' /\ CreatedByCall' /\ CallsHaveFlights'
    BY <1>7 DEF Cancel, flightVars, Registered, CreatedByCall, CallsHaveFlights
  <2>2. \A f \in Requests : cancelled[f] => cancelled'[f]
    BY <1>7 DEF Cancel
  <2>3. FlightErrorHasCause'
    BY <1>7, <2>2 DEF Cancel, flightVars, FlightErrorHasCause
  <2>4. CtxErrorHasCause'
    BY <1>7, <2>2 DEF Cancel, flightVars, CtxErrorHasCause, CallsHaveFlights
  <2> QED BY <2>1, <2>3, <2>4
<1>8. CASE UNCHANGED vars
  BY <1>8 DEF vars, Registered, CreatedByCall, CallsHaveFlights,
              FlightErrorHasCause, CtxErrorHasCause
<1> QED
  BY <1>1, <1>2, <1>3, <1>4, <1>5, <1>6, <1>7, <1>8
     DEF Next, Step, Finished

\* The invariant holds in every reachable state.
THEOREM Invariance == Spec => []IInv
  BY InitIInv, StepIInv, PTL DEF Spec

\* Every variable keeps its type.
THEOREM TypeCorrect == Spec => []TypeOK
<1>1. IInv => TypeOK
  BY DEF IInv
<1> QED BY <1>1, Invariance, PTL

\* The loader never runs twice at a time for a key: two flights in progress
\* for a key would both be the one the group registers for it.
THEOREM LoadsMerged == Spec => []LoadsExclusive
<1>1. IInv => LoadsExclusive
  BY DEF IInv, Registered, LoadsExclusive
<1> QED BY <1>1, Invariance, PTL

\* No waiting caller is forgotten.
THEOREM WaitersAreServed == Spec => []WaitersServed
<1>1. IInv => WaitersServed
  <2> SUFFICES ASSUME IInv, NEW r \in Requests, call[r].st = "waiting"
               PROVE  /\ call[r].on # None
                      /\ flight[call[r].on].key = call[r].key
                      /\ \/ flight[call[r].on].st = "done"
                         \/ /\ group[call[r].key] = call[r].on
                            /\ InFlight(call[r].on)
    BY DEF WaitersServed
  <2> DEFINE f == call[r].on
  <2>1. f \in Requests /\ flight[f].st # "none" /\ flight[f].key = call[r].key
    BY DEF IInv, CallsHaveFlights
  <2>2. flight[f].st \in {"none", "running", "loaded", "done"}
    BY <2>1 DEF IInv, TypeOK, Flight
  <2>3. InFlight(f) => group[flight[f].key] = f
    BY <2>1 DEF IInv, Registered
  <2> QED BY <2>1, <2>2, <2>3, NoneAssumption DEF InFlight
<1> QED BY <1>1, Invariance, PTL

\* A context error is always somebody's: the caller's or the creator's.
THEOREM ContextErrorsHaveCauses == Spec => []CtxErrorHasCause
<1>1. IInv => CtxErrorHasCause
  BY DEF IInv
<1> QED BY <1>1, Invariance, PTL

\* A call is never answered from a flight that ended before it was made.
THEOREM NoLateJoin == Spec => NoJoinAfterDelivery
<1> DEFINE A == \A r \in Requests :
                  call[r].st = "idle" /\ call'[r].st = "waiting" =>
                      flight[call'[r].on].st # "done"
<1>1. IInv /\ [Next]_vars => [A]_vars
  <2> SUFFICES ASSUME IInv, Next,
                      NEW r \in Requests,
                      call[r].st = "idle", call'[r].st = "waiting"
               PROVE  flight[call'[r].on].st # "done"
    OBVIOUS
  <2> USE DEF IInv, TypeOK, Call
  <2>1. ASSUME NEW s \in Requests, NEW k \in Keys, Join(s, k)
        PROVE  flight[call'[r].on].st # "done"
    BY <2>1 DEF Join, Calls, Registered, InFlight
  <2>2. ASSUME NEW s \in Requests, NEW k \in Keys, Create(s, k)
        PROVE  flight[call'[r].on].st # "done"
    BY <2>2 DEF Create, Calls, CreatedByCall
  <2>3. ASSUME NEW s \in Requests, Receive(s) \/ GiveUp(s)
        PROVE  call'[r].st # "waiting"
    BY <2>3 DEF Receive, GiveUp, Returns
  <2>4. CASE UNCHANGED call
    BY <2>4
  <2> QED BY <2>1, <2>2, <2>3, <2>4
             DEF Next, Step, Load, Deliver, Cancel, flightVars, Finished, vars
<1>2. Spec => [][A]_vars
  BY <1>1, Invariance, PTL DEF Spec
<1> QED BY <1>2 DEF NoJoinAfterDelivery
=============================================================================
