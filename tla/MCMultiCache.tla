---------------------------- MODULE MCMultiCache ----------------------------
(***************************************************************************)
(* MultiCache on small instances: the builds considered.                   *)
(***************************************************************************)
EXTENDS MultiCache, TLC

Builders == INSTANCE MultiBuilder

New == Builders!NewMultiBuilder("name")
Loading == Builders!WithLoader(New, TRUE)
InBackground == Builders!WithWriteBack(Loading, Builders!WriteBack(TRUE, TRUE))
Direct == Builders!WithSingleflight(Loading, FALSE)
Strict == Builders!WithWriteBack(Builders!WithErrorHandling(Loading, "strict"),
                                 Builders!WriteBack(FALSE, TRUE))
Unloaded == Builders!WithRequiredLoader(New, FALSE)

BuiltBy(S) == UNION {Builders!Build(b) : b \in S}

\* Each of the ways to end a Get, a loader that is not merged, none, and
\* builders that should refuse.
AllBuilds ==
    BuiltBy({Strict, Direct, InBackground, New, Builders!NewMultiBuilder(""),
             Unloaded, Builders!WithSingleflight(Unloaded, FALSE)})

\* The default, and the one that leaves write-backs behind.
MergedBuilds == BuiltBy({Loading, InBackground})

DefaultBuild == BuiltBy({Loading})

\* Requests are interchangeable: sound where no liveness property is checked.
Symmetry == Permutations(Requests)
=============================================================================
