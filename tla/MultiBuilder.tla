----------------------------- MODULE MultiBuilder -----------------------------
(***************************************************************************)
(* What a MultiBuilder and a write_back.Builder make of the calls they get *)
(* (multi_cache.go, core/multicache/write_back/builder.go).  A builder is  *)
(* a record, a call an operator that returns another; Build returns the    *)
(* set of the configurations it may end with, which is empty if it fails.  *)
(* Fetch policies, filters and write-backs of the user's own are left out. *)
(***************************************************************************)

\* write_back.Builder.Build: without an ErrCallback one that does nothing is
\* called.
WriteBack(async, callback) == [async |-> async, callback |-> callback]

\* WriteBackParallel, which is told of no callback.
WriteBackParallel == WriteBack(FALSE, FALSE)

NewMultiBuilder(name) ==
    [err |-> name = "", loader |-> FALSE, required |-> TRUE,
     singleflight |-> TRUE, writeBack |-> WriteBackParallel,
     mode |-> "tolerant"]

WithLoader(b, given) == [b EXCEPT !.loader = given]
WithRequiredLoader(b, enabled) == [b EXCEPT !.required = enabled]
WithSingleflight(b, enabled) == [b EXCEPT !.singleflight = enabled]
WithErrorHandling(b, mode) == [b EXCEPT !.mode = mode]
WithWriteBack(b, w) == [b EXCEPT !.writeBack = w]

\* The configuration that Build hands to multicache.New; `waived` is history.
Config(b) ==
    [mode |-> b.mode, async |-> b.writeBack.async,
     callback |-> b.writeBack.callback, singleflight |-> b.singleflight,
     loader |-> b.loader, waived |-> ~b.required]

\* Plausible bug: the loader is looked at when it has been wrapped, and a
\* wrapped loader is never nil.
BuildWrapped(b) ==
    IF b.err \/ (b.required /\ ~b.singleflight /\ ~b.loader)
    THEN {} ELSE {Config(b)}

\* MultiBuilder.Build.
Build(b) ==
    IF b.err \/ (b.required /\ ~b.loader) THEN {} ELSE {Config(b)}
=============================================================================
