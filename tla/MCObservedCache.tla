--------------------------- MODULE MCObservedCache ---------------------------
(***************************************************************************)
(* ObservedCache on small instances: the builds considered.                *)
(***************************************************************************)
EXTENDS ObservedCache, TLC

\* Loading behind merged reads, loading without them, and reloading as well.
LoadingBuilds == {{"singleflight", "missLoader", "nilCache"},
                  {"missLoader", "nilCache"},
                  {"singleflight", "missLoader", "logicExpire", "logicLoader"}}

\* Requests are interchangeable, and so are keys: sound where no liveness
\* property is checked.
Symmetry == Permutations(Requests) \cup Permutations(Keys)
=============================================================================
