---------------------------- MODULE MCSingleCache ----------------------------
(***************************************************************************)
(* SingleCache on small instances: the builds considered.                  *)
(***************************************************************************)
EXTENDS SingleCache, TLC

\* Every decorator, with and without the merging of reads.
FullBuilds == {Features, Features \ {"singleflight"}}

\* Every combination of decorators.
AllBuilds == SUBSET Features

\* Requests are interchangeable, and so are keys: sound where no liveness
\* property is checked.
Symmetry == Permutations(Requests) \cup Permutations(Keys)
=============================================================================
