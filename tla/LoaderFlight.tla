---------------------------- MODULE LoaderFlight ----------------------------
(***************************************************************************)
(* A source loader behind decorator.SingleflightWrapper                    *)
(* (core/decorator/loaderfn.go).  The miss loader, the logic-expire loader *)
(* and the loader of a multi-level cache are each wrapped once, so each    *)
(* owns one singleflight.Group.                                            *)
(*                                                                         *)
(* A request calls the wrapped loader at most once.  The call either joins *)
(* the flight registered for its key or creates one, which runs the loader *)
(* in a goroutine of its own with the context of the request that created  *)
(* it.  A flight is therefore named by its creator, and it may outlive it: *)
(* the creator returns as soon as its context is done.                     *)
(*                                                                         *)
(* singleflight.Group is a library.  Its map is `group`; its lock makes    *)
(* the look-up-or-create of DoChan one step, and the removal of a finished *)
(* call and the sends to the callers' channels another.  The channels have *)
(* room for the only result ever sent to them and a result never changes,  *)
(* so a channel is ready exactly when its flight is "done".                *)
(***************************************************************************)

CONSTANTS
    Requests,   \* the calls, each identified by the goroutine that makes it
    Keys,       \* cache keys
    Results,    \* what a loader can return: values and errors
    CtxErr,     \* the result context.Canceled / DeadlineExceeded
    None        \* no request, no key, no result

ASSUME ResultAssumption == CtxErr \in Results
ASSUME NoneAssumption == None \notin (Requests \cup Keys \cup Results)

VARIABLES
    group,      \* group[k]: the flight registered for key k, or None
    flight,     \* flight[f]: the flight created by request f
    call,       \* call[r]: the call of request r to the wrapped loader
    cancelled   \* cancelled[r]: the context of request r is done

flightVars == <<group, flight, call>>
vars == <<group, flight, call, cancelled>>

Flight == [st : {"none", "running", "loaded", "done"},
           key : Keys \cup {None},
           res : Results \cup {None}]

Call == [st : {"idle", "waiting", "returned"},
         key : Keys \cup {None},
         on : Requests \cup {None},
         res : Results \cup {None}]

InFlight(f) == flight[f].st \in {"running", "loaded"}

Init ==
    /\ group = [k \in Keys |-> None]
    /\ flight = [f \in Requests |-> [st |-> "none", key |-> None, res |-> None]]
    /\ call = [r \in Requests |->
                 [st |-> "idle", key |-> None, on |-> None, res |-> None]]
    /\ cancelled = [r \in Requests |-> FALSE]

\* Request r calls the wrapped loader for key k and is answered by flight f.
Calls(r, k, f) ==
    call' = [call EXCEPT ![r] =
               [st |-> "waiting", key |-> k, on |-> f, res |-> None]]

\* The wrapped loader returns x to request r.
Returns(r, x) ==
    call' = [call EXCEPT ![r].st = "returned", ![r].res = x]

-----------------------------------------------------------------------------
(***************************************************************************)
(* Plausible bugs: each stands for one of the actions further down and     *)
(* breaks one of the properties at the end of the module.                  *)
(***************************************************************************)

\* The key is looked up but the running flight is not joined.
CreateAlways(r, k) ==
    /\ call[r].st = "idle"
    /\ group' = [group EXCEPT ![k] = r]
    /\ flight' = [flight EXCEPT ![r] =
                    [st |-> "running", key |-> k, res |-> None]]
    /\ Calls(r, k, r)

\* A caller that gives up makes the group forget its key.
GiveUpAndForget(r) ==
    /\ call[r].st = "waiting"
    /\ cancelled[r]
    /\ Returns(r, CtxErr)
    /\ group' = [group EXCEPT ![call[r].key] = None]
    /\ UNCHANGED flight

\* The wrapper waits for the flight only: there is no ctx.Done() arm.
NeverGiveUp(r) == FALSE

\* The caller does not wait for the result.
ReceiveEarly(r) ==
    /\ call[r].st = "waiting"
    /\ Returns(r, flight[call[r].on].res)
    /\ UNCHANGED <<group, flight>>

\* The finished flight stays registered.
DeliverAndKeep(f) ==
    /\ flight[f].st = "loaded"
    /\ flight' = [flight EXCEPT ![f].st = "done"]
    /\ UNCHANGED <<group, call>>

\* The flight ends without handing over its result.
DeliverNothing(f) ==
    /\ flight[f].st = "loaded"
    /\ flight' = [flight EXCEPT ![f].st = "none"]
    /\ group' = [group EXCEPT ![flight[f].key] = None]
    /\ UNCHANGED call

\* The wrapper bounds the wait with a deadline of its own.
GiveUpUnasked(r) ==
    /\ call[r].st = "waiting"
    /\ Returns(r, CtxErr)
    /\ UNCHANGED <<group, flight>>

-----------------------------------------------------------------------------
(***************************************************************************)
(* SingleflightWrapper                                                     *)
(***************************************************************************)

\* DoChan finds a flight for the key: its result is shared.
Join(r, k) ==
    /\ call[r].st = "idle"
    /\ group[k] # None
    /\ Calls(r, k, group[k])
    /\ UNCHANGED <<group, flight>>

\* DoChan finds none: it registers one and starts its goroutine.
Create(r, k) ==
    /\ call[r].st = "idle"
    /\ group[k] = None
    /\ group' = [group EXCEPT ![k] = r]
    /\ flight' = [flight EXCEPT ![r] =
                    [st |-> "running", key |-> k, res |-> None]]
    /\ Calls(r, k, r)

\* The loader returns x to the flight.  A loader that watches the context it
\* was given may fail with its error once that context is done.
Load(f, x) ==
    /\ flight[f].st = "running"
    /\ x = CtxErr => cancelled[f]
    /\ flight' = [flight EXCEPT ![f].st = "loaded", ![f].res = x]
    /\ UNCHANGED <<group, call>>

\* The group drops the finished flight and sends its result to every caller.
Deliver(f) ==
    /\ flight[f].st = "loaded"
    /\ flight' = [flight EXCEPT ![f].st = "done"]
    /\ group' = [group EXCEPT ![flight[f].key] = None]
    /\ UNCHANGED call

\* select: the result is there.
Receive(r) ==
    /\ call[r].st = "waiting"
    /\ flight[call[r].on].st = "done"
    /\ Returns(r, flight[call[r].on].res)
    /\ UNCHANGED <<group, flight>>

\* select: the caller's own context is done.  The flight goes on without it.
GiveUp(r) ==
    /\ call[r].st = "waiting"
    /\ cancelled[r]
    /\ Returns(r, CtxErr)
    /\ UNCHANGED <<group, flight>>

\* The caller, its server or a deadline ends the context of a request.
Cancel(r) ==
    /\ ~cancelled[r]
    /\ cancelled' = [cancelled EXCEPT ![r] = TRUE]
    /\ UNCHANGED flightVars

Step ==
    \/ \E r \in Requests, k \in Keys : Join(r, k) \/ Create(r, k)
    \/ \E f \in Requests, x \in Results : Load(f, x)
    \/ \E f \in Requests : Deliver(f)
    \/ \E r \in Requests : Receive(r) \/ GiveUp(r)

\* Every call has returned and no goroutine is left running.
Finished ==
    /\ \A r \in Requests : call[r].st = "returned" /\ ~InFlight(r)
    /\ UNCHANGED vars

Next ==
    \/ Step /\ UNCHANGED cancelled
    \/ \E r \in Requests : Cancel(r)
    \/ Finished

Spec == Init /\ [][Next]_vars

\* Goroutines are scheduled fairly: a caller whose select can proceed does.
CallerFairness ==
    \A r \in Requests :
        WF_vars((Receive(r) \/ GiveUp(r)) /\ UNCHANGED cancelled)

\* The user's loader returns, and the group delivers what it returned.
LoaderFairness ==
    \A f \in Requests :
        WF_vars(((\E x \in Results : Load(f, x)) \/ Deliver(f))
                /\ UNCHANGED cancelled)

\* The loader may hang for ever: only the callers' goroutines are fair.
HangingSpec == Spec /\ CallerFairness

-----------------------------------------------------------------------------
(***************************************************************************)
(* Correctness                                                             *)
(***************************************************************************)

\* Every variable keeps its type, and a call that has returned has an answer.
TypeOK ==
    /\ group \in [Keys -> Requests \cup {None}]
    /\ flight \in [Requests -> Flight]
    /\ call \in [Requests -> Call]
    /\ cancelled \in [Requests -> BOOLEAN]
    /\ \A r \in Requests : call[r].st = "returned" => call[r].res \in Results

\* Concurrent misses of one key are merged: the loader never runs twice at
\* the same time for a key, whatever callers come, give up and come back
\* (DoChan, loaderfn.go:16).
LoadsExclusive ==
    \A f, g \in Requests :
        InFlight(f) /\ InFlight(g) /\ flight[f].key = flight[g].key => f = g

\* No caller is forgotten: the flight a waiting caller depends on is one for
\* the caller's own key, and it is either still registered, so that it will
\* be delivered, or already done (the two arms of select, loaderfn.go:19).
WaitersServed ==
    \A r \in Requests : call[r].st = "waiting" =>
        /\ call[r].on # None
        /\ flight[call[r].on].key = call[r].key
        /\ \/ flight[call[r].on].st = "done"
           \/ group[call[r].key] = call[r].on /\ InFlight(call[r].on)

\* A context error has a cause: a caller gets one only when its own context
\* is done, or that of the request whose flight it shared.  The second case
\* is real: one caller's deadline fails the callers that joined its flight.
CtxErrorHasCause ==
    \A r \in Requests :
        call[r].st = "returned" /\ call[r].res = CtxErr =>
            cancelled[r] \/ cancelled[call[r].on]

\* Merging ends with the flight: a call made after a flight was delivered is
\* never answered from it.
NoJoinAfterDelivery ==
    [][\A r \in Requests :
         call[r].st = "idle" /\ call'[r].st = "waiting" =>
             flight[call'[r].on].st # "done"]_vars

\* A caller whose context is done returns even if the loader hangs.
CancelledReturns ==
    \A r \in Requests :
        (call[r].st = "waiting" /\ cancelled[r]) ~> call[r].st = "returned"

\* If loaders return, every caller does, whether or not its context ends: no
\* call is lost between a flight that ends and one that begins.
CallersReturn ==
    LoaderFairness =>
        \A r \in Requests : call[r].st = "waiting" ~> call[r].st = "returned"
=============================================================================
