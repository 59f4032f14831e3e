-------------------------------- MODULE Source --------------------------------
(***************************************************************************)
(* The source of the data behind a cache, and the answers that loaders and *)
(* caches give.  The source is outside the repository: the user's loader   *)
(* functions read it.  Data is abstracted to the version of the source it  *)
(* was read from, so that "old" and "never true" can be told apart.        *)
(***************************************************************************)
EXTENDS Integers

CONSTANTS
    Keys,           \* cache keys
    MaxVersion,     \* bounds the updates of the source
    LoaderFaults    \* BOOLEAN: loaders may fail

ASSUME VersionAssumption == MaxVersion \in Nat
ASSUME LoaderFaultAssumption == LoaderFaults \in BOOLEAN

VARIABLES
    source,     \* source[k]: the version of k at its source
    absent      \* absent[k]: the versions at which k does not exist there

sourceVars == <<source, absent>>

Versions == 0 .. MaxVersion

\* An answer: data and its version, or what the caller is told instead of it.
Tags == {"value", "placeholder", "notfound", "err", "ctx", "ok", "panic",
         "none"}

Answer(t, v) == [tag |-> t, ver |-> v]
Err == Answer("err", 0)
CtxErr == Answer("ctx", 0)
NoAnswer == Answer("none", 0)

IsError(x) == x.tag \in {"notfound", "err", "ctx"}
IsHit(x) == x.tag \in {"value", "placeholder"}

\* What a loader can return: data, ErrNotFound, another error or the
\* context's.
LoaderResults == {Answer(t, v) : t \in {"value", "notfound"}, v \in Versions}
                     \cup {Err, CtxErr}

SourceInit ==
    /\ source = [k \in Keys |-> 0]
    /\ absent \in [Keys -> {{}, {0}}]

SourceTypeOK ==
    /\ source \in [Keys -> Versions]
    /\ absent \in [Keys -> SUBSET Versions]

\* What the source says of k now.
Current(k) ==
    Answer(IF source[k] \in absent[k] THEN "notfound" ELSE "value", source[k])

\* What a loader that is called for k may return now.
SourceReturns(k) ==
    {Current(k), CtxErr} \cup (IF LoaderFaults THEN {Err} ELSE {})

\* k gets another value, or ceases to exist.
SourceUpdate(k) ==
    /\ source[k] < MaxVersion
    /\ source' = [source EXCEPT ![k] = @ + 1]
    /\ \/ UNCHANGED absent
       \/ absent' = [absent EXCEPT ![k] = @ \cup {source'[k]}]
=============================================================================
