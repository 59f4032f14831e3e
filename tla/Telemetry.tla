------------------------------ MODULE Telemetry ------------------------------
(***************************************************************************)
(* Events and what is recorded of them (core/telemetry/event.go and the    *)
(* ObservableDecorator, which is outside the builder's own decorators).  A *)
(* call has an event, which its context carries to the decorators and the  *)
(* loader; each may add fields to it.  When the call ends, Metrics is      *)
(* handed the event.  Metrics is the user's: here it copies the fields, as *)
(* FrozenCustomFields is there for.                                        *)
(***************************************************************************)
EXTENDS Sequences

CONSTANT Calls

VARIABLES
    event,      \* event[c]: the fields that the event of call c has
    record      \* record[c]: what Metrics was told of call c

telemetryVars == <<event, record>>

TelemetryInit ==
    /\ event = [c \in Calls |-> {}]
    /\ record = [c \in Calls |-> <<>>]

\* ResultFromErr: what is not an error is a hit, a panic included.
ResultFromErr(x) ==
    CASE x.tag = "notfound" -> "miss"
      [] x.tag \in {"err", "ctx"} -> "fail"
      [] OTHER -> "hit"

\* Plausible bug: a record shares the fields with its event.
AddToShared(c, fields) ==
    /\ event' = [event EXCEPT ![c] = @ \cup fields]
    /\ record' = [record EXCEPT ![c] =
                    [i \in DOMAIN @ |-> [@[i] EXCEPT !.fields = @ \cup fields]]]

\* Plausible bug: an event that has no fields yet has no room for any.
AddToExisting(c, fields) ==
    /\ event' = [event EXCEPT ![c] = IF @ = {} THEN {} ELSE @ \cup fields]
    /\ UNCHANGED record

\* AddCustomFields with the context of call c, which may be over.
AddCustomFields(c, fields) ==
    /\ event' = [event EXCEPT ![c] = @ \cup fields]
    /\ UNCHANGED record

\* The event of call c, with its last fields, is handed to Metrics.
Record(c, fields, result) ==
    /\ event' = [event EXCEPT ![c] = @ \cup fields]
    /\ record' = [record EXCEPT ![c] =
                    Append(@, [result |-> result, fields |-> event'[c]])]
=============================================================================
