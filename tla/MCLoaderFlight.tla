---------------------------- MODULE MCLoaderFlight ----------------------------
(***************************************************************************)
(* LoaderFlight on small instances.  A value and the context error are the *)
(* results that callers can tell apart.                                    *)
(***************************************************************************)
EXTENDS LoaderFlight
=============================================================================
