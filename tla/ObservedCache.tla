---------------------------- MODULE ObservedCache ----------------------------
(***************************************************************************)
(* A single-level cache and what is recorded of its calls.  SingleCache    *)
(* and Telemetry take their steps together: SingleflightDecorator adds to  *)
(* an event whether the read was shared, the user's loaders add a field    *)
(* with the context that they were given, and a call is recorded when it   *)
(* returns.  A request runs down its chain under its own context, so only  *)
(* one that began a flight may have the fields of a loader.                *)
(***************************************************************************)
EXTENDS SingleCache, Sequences

VARIABLES event, record     \* see Telemetry

Events == INSTANCE Telemetry WITH Calls <- Requests

telemetryVars == <<event, record>>
observedVars == <<vars, telemetryVars>>

ObservedInit == Init /\ Events!TelemetryInit

\* Plausible bug: only who finds a read in progress calls its own shared.
SharedByFollowers(r) == joined[r] # None

\* Group.Do answers that a read was shared: it joined another, or others
\* joined it before it left the group.
Shared(r) == joined[r] # None \/ \E s \in Requests : joined[s] = r

\* addTags: SingleflightDecorator adds it to the event of a read.
AddTags(r) ==
    CASE ~Has("singleflight") \/ req[r].op \notin Reads -> {}
      [] Shared(r) -> {"shared"}
      [] OTHER -> {"not shared"}

Result(r) == IF req[r].op \in Reads THEN Events!ResultFromErr(res'[r]) ELSE "none"

\* A step of r: its last one is recorded.
ObservedProceed(r) ==
    /\ Proceed(r)
    /\ IF pc'[r] = "done" THEN Events!Record(r, AddTags(r), Result(r))
                          ELSE UNCHANGED telemetryVars

\* A loader that returns has added its field to the event of the request that
\* began its flight.
LoaderAdds(f, field, flight, after) ==
    IF flight[f].st = "running" /\ after[f].st = "loaded"
    THEN Events!AddCustomFields(f, {field})
    ELSE UNCHANGED telemetryVars

ObservedLoader(f) ==
    \/ /\ MissLoader(f)
       /\ LoaderAdds(f, "loaded", missFlight, missFlight')
    \/ /\ RefreshLoader(f)
       /\ LoaderAdds(f, "reloaded", refreshFlight, refreshFlight')

ObservedNext ==
    \/ \E r \in Requests :
         \/ ObservedProceed(r)
         \/ (Begin(r) \/ Cancel(r)) /\ UNCHANGED telemetryVars
    \/ \E f \in Requests : ObservedLoader(f)
    \/ \E k \in Keys : (Update(k) \/ Age(k)) /\ UNCHANGED telemetryVars
    \/ Finished /\ UNCHANGED telemetryVars

ObservedSpec == ObservedInit /\ [][ObservedNext]_observedVars

-----------------------------------------------------------------------------
(***************************************************************************)
(* Correctness                                                             *)
(***************************************************************************)

Recorded(r, field) ==
    \E i \in DOMAIN record[r] : field \in record[r][i].fields

\* Of the reads that one run of the chain has answered, all are recorded as
\* shared, and one that was alone is not: the first of them counts who has
\* joined it only when nobody can any more (singleflight.go:23-26, 34-43).
SharedTrue ==
    Has("singleflight") =>
        \A r \in Requests : pc[r] = "done" /\ req[r].op \in Reads =>
            LET others == {s \in Requests : joined[s] = r \/ joined[r] = s}
            IN  /\ Recorded(r, "shared") <=> others # {}
                /\ Recorded(r, "not shared") <=> others = {}

\* Every load is in the record of the request that began it and in no other,
\* so that loads can be counted; it is missing only if that request's context
\* ended, so that it returned before the loader did.
LoadsCounted ==
    \A r \in Requests :
        /\ Recorded(r, "loaded") => missFlight[r].st \in {"loaded", "done"}
        /\ Recorded(r, "reloaded") => refreshFlight[r].st \in {"loaded", "done"}
        /\ pc[r] = "done" /\ ~cancelled[r] =>
             /\ missFlight[r].st # "none" => Recorded(r, "loaded")
             /\ refreshFlight[r].st # "none" => Recorded(r, "reloaded")

\* A call is recorded once, when it returns, and what was recorded stays as it
\* was, although loaders that outlive the call go on adding to its event.
RecordsKept ==
    [][\A r \in Requests :
         /\ record[r] # <<>> => record'[r] = record[r]
         /\ record'[r] # <<>> <=> pc'[r] = "done"]_observedVars
=============================================================================
