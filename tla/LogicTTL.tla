------------------------------- MODULE LogicTTL -------------------------------
(***************************************************************************)
(* Logical expiry over a store of bytes that several processes share, as   *)
(* Build assembles it: LogicTTLDecorator over a codec or over the header   *)
(* of LogicTTLBytesAdapter, over compressions, over the store; or directly *)
(* over a store of Go values, which only one process can use.              *)
(*                                                                         *)
(* An entry is abstracted to what decides how it is read: the formats its  *)
(* bytes are in, outermost last, and the expiry time they carry.  Nothing  *)
(* but Clear concerns two keys: one key is enough.  Values are left out.   *)
(*                                                                         *)
(* A process has a configuration, which may be another after a restart,    *)
(* and a wall clock that is off by Skew at most and may be adjusted.  A Go *)
(* value keeps the reading of the monotonic clock, which bytes lose.       *)
(***************************************************************************)
EXTENDS Clocks, Sequences

CONSTANTS
    Deployments,    \* the ways to store and the configurations considered
    Remote,         \* the place of the store that is shared
    None            \* no process, no place

Compressor == [kind : {"gzip", "zlib", "flate", "lzw"}, level : Int,
               order : {"LSB", "MSB", "other"}, width : Nat]
Config == [transforms : Seq(Compressor), ttl : 0 .. Half - 1, loader : BOOLEAN]
Deployment == [via : {"typed", "header", "codec"}, cfgs : SUBSET Config]

\* A codec notices bytes that are not its own; whoever reads bytes without
\* one must read them as they were written.
ASSUME DeploymentAssumption ==
    \A d \in Deployments :
        /\ d.via \in {"typed", "header", "codec"}
        /\ \A c \in d.cfgs :
             /\ c.transforms \in Seq(Compressor)
             /\ c.ttl \in 0 .. Half - 1 /\ c.loader \in BOOLEAN
             /\ d.via = "typed" => c.transforms = <<>>
             /\ d.via = "header" =>
                  \A b \in d.cfgs : b.transforms = c.transforms

VARIABLES
    deployment, \* how values are stored; never changes
    cfg,        \* cfg[p]: what the builder of p was given
    now,        \* the true time
    offset,     \* offset[p]: how far the wall clock of p is off
    store,      \* store[x]: the entry at place x
    pc,         \* pc[p]: "reload" while p waits for its loader
    told        \* what the last step answered: by whom, from where, and how

clockVars == <<now, offset>>
vars == <<deployment, cfg, now, offset, store, pc, told>>

Typed == deployment.via = "typed"
Place(p) == IF Typed THEN p ELSE Remote
Places == Processes \cup {Remote}

Telling(p, v) == [by |-> p, from |-> Place(p), verdict |-> v]
Nothing == [by |-> None, from |-> None, verdict |-> "none"]

\* What is at a place where there is no entry.
Absent == [formats |-> <<>>, ts |-> 0, at |-> 0,
           by |-> [transforms |-> <<>>, ttl |-> 0, loader |-> FALSE]]

Init ==
    /\ deployment \in Deployments
    /\ cfg \in [Processes -> deployment.cfgs]
    /\ now = Start
    /\ offset \in [Processes -> -Skew .. Skew]
    /\ store = [x \in Places |-> Absent]
    /\ pc = [p \in Processes |-> "idle"]
    /\ told = Nothing

-----------------------------------------------------------------------------
(***************************************************************************)
(* Compression                                                             *)
(***************************************************************************)

Format(c, order, width) ==
    IF c.kind = "lzw" THEN [kind |-> "lzw", order |-> order, width |-> width]
                      ELSE [kind |-> c.kind, order |-> "LSB", width |-> 8]

\* The parameters of LZW are not in the bytes: both sides fill in defaults.
Order(c) == IF c.order \in {"LSB", "MSB"} THEN c.order ELSE "LSB"
Width(c) == IF c.width = 0 THEN 8 ELSE c.width

\* Plausible bug: only one side fills them in.
DecompressesRaw(c) == Format(c, c.order, c.width)

\* The format that Compress writes, and the one that Decompress reads.
Compresses(c) == Format(c, Order(c), Width(c))
Decompresses(c) == Format(c, Order(c), Width(c))

\* Whether Compress fails: with parameters that the library refuses, or, if
\* the literals of LZW are narrower than a byte, depending on the data.
Refuses(c) ==
    CASE c.kind # "lzw" -> {c.level \notin -2 .. 9}
      [] c.kind = "lzw" /\ Width(c) \in 2 .. 7 -> BOOLEAN
      [] OTHER -> {Width(c) # 8}

\* A write goes through the transforms from the last to the first, a read the
\* other way.
Writes(c) == [i \in DOMAIN c.transforms |-> Compresses(c.transforms[i])]
Reads(c) == [i \in DOMAIN c.transforms |-> Decompresses(c.transforms[i])]

-----------------------------------------------------------------------------
(***************************************************************************)
(* The expiry time                                                         *)
(***************************************************************************)

Clock(p) == IF Typed THEN now ELSE now + offset[p]

\* Signed integers of limited width.
Signed(x) == ((x + Half) % (2 * Half)) - Half

\* Plausible bug: the sign of what is decoded is not looked at.
DecodesAny(ts) == ts

\* encodeLogicTTLBytes writes nanoseconds, 0 for none; what decodes as less
\* than that is none as well.  A codec and a Go value keep the time as it is.
Encodes(t) == IF deployment.via = "header" THEN Signed(t) ELSE t
Decodes(ts) == IF deployment.via = "header" /\ ts <= 0 THEN 0 ELSE ts

\* Plausible bug: no time to live is taken for one of no length.
ExpireAtAlways(p) == Clock(p) + cfg[p].ttl

\* LogicTTLDecorator.Set: 0 is for ever.
ExpireAt(p) == IF cfg[p].ttl > 0 THEN Clock(p) + cfg[p].ttl ELSE 0

IsExpire(p, e) == Decodes(e.ts) # 0 /\ Clock(p) > Decodes(e.ts)

\* What p stores now: `at` and `by` are history.
Stored(p) ==
    [formats |-> Writes(cfg[p]), ts |-> Encodes(ExpireAt(p)),
     at |-> now, by |-> cfg[p]]

-----------------------------------------------------------------------------
(***************************************************************************)
(* Operations                                                              *)
(***************************************************************************)

Answers(v) == told' = v

\* p writes its entry, unless a conversion or the store refuses.
Sets(p) ==
    LET transforms == cfg[p].transforms
        refused == \E i \in DOMAIN transforms : TRUE \in Refuses(transforms[i])
        certain == \E i \in DOMAIN transforms : FALSE \notin Refuses(transforms[i])
    IN  \/ ~certain /\ store' = [store EXCEPT ![Place(p)] = Stored(p)]
        \/ refused /\ UNCHANGED store

Set(p) ==
    /\ pc[p] = "idle"
    /\ Sets(p)
    /\ Answers(Nothing)
    /\ UNCHANGED <<deployment, cfg, clockVars, pc>>

\* Plausible bug: the loader is called whether or not there is one.
GetReloading(p) ==
    /\ pc[p] = "idle"
    /\ LET e == store[Place(p)]
       IN  /\ e # Absent
           /\ e.formats = Reads(cfg[p])
           /\ Answers(Telling(p, IF IsExpire(p, e) THEN "expired" ELSE "fresh"))
           /\ pc' = [pc EXCEPT ![p] = IF IsExpire(p, e) THEN "reload" ELSE "idle"]
    /\ UNCHANGED <<deployment, cfg, clockVars, store>>

\* Get finds an entry, and asks its loader if that has logically expired.
Get(p) ==
    /\ pc[p] = "idle"
    /\ LET e == store[Place(p)]
       IN  /\ e # Absent
           /\ e.formats = Reads(cfg[p])
           /\ Answers(Telling(p, IF IsExpire(p, e) THEN "expired" ELSE "fresh"))
           /\ pc' = [pc EXCEPT ![p] = IF IsExpire(p, e) /\ cfg[p].loader
                                      THEN "reload" ELSE "idle"]
    /\ UNCHANGED <<deployment, cfg, clockVars, store>>

\* Get or GetWithTTL finds an entry in another format: an error, not a miss.
GetUnreadable(p) ==
    /\ pc[p] = "idle"
    /\ store[Place(p)] # Absent
    /\ store[Place(p)].formats # Reads(cfg[p])
    /\ Answers(Telling(p, "unreadable"))
    /\ UNCHANGED <<deployment, cfg, clockVars, store, pc>>

\* Get or GetWithTTL finds nothing; GetWithTTL finds something and does not
\* look whether it has logically expired.
GetOther(p) ==
    /\ pc[p] = "idle"
    /\ Answers(Nothing)
    /\ UNCHANGED <<deployment, cfg, clockVars, store, pc>>

\* onExpire has its loader's answer: it writes it back, or gives up.
Reloaded(p) ==
    /\ pc[p] = "reload"
    /\ pc' = [pc EXCEPT ![p] = "idle"]
    /\ Sets(p) \/ UNCHANGED store
    /\ Answers(Nothing)
    /\ UNCHANGED <<deployment, cfg, clockVars>>

\* Delete and Clear, and a store that drops an entry.
Remove(x) ==
    /\ store[x] # Absent
    /\ store' = [store EXCEPT ![x] = Absent]
    /\ Answers(Nothing)
    /\ UNCHANGED <<deployment, cfg, clockVars, pc>>

-----------------------------------------------------------------------------
(***************************************************************************)
(* The environment                                                         *)
(***************************************************************************)

Tick ==
    /\ now < MaxTime
    /\ now' = now + 1
    /\ Answers(Nothing)
    /\ UNCHANGED <<deployment, cfg, offset, store, pc>>

\* The wall clock of p is adjusted.
Adjust(p) ==
    /\ \E o \in -Skew .. Skew : offset' = [offset EXCEPT ![p] = o]
    /\ Answers(Nothing)
    /\ UNCHANGED <<deployment, cfg, now, store, pc>>

\* p stops, whatever it is doing, and starts with another configuration.
Restart(p) ==
    /\ \E c \in deployment.cfgs : cfg' = [cfg EXCEPT ![p] = c]
    /\ store' = IF Typed THEN [store EXCEPT ![p] = Absent] ELSE store
    /\ pc' = [pc EXCEPT ![p] = "idle"]
    /\ Answers(Nothing)
    /\ UNCHANGED <<deployment, clockVars>>

Next ==
    \/ \E p \in Processes :
         \/ Set(p) \/ Get(p) \/ GetUnreadable(p) \/ GetOther(p) \/ Reloaded(p)
         \/ Adjust(p) \/ Restart(p)
    \/ \E x \in Places : Remove(x)
    \/ Tick

Spec == Init /\ [][Next]_vars

-----------------------------------------------------------------------------
(***************************************************************************)
(* Correctness                                                             *)
(***************************************************************************)

Bytes == [kind : {"gzip", "zlib", "flate", "lzw"}, order : {"LSB", "MSB"},
          width : Nat]
Entry == [formats : Seq(Bytes),
          ts : IF deployment.via = "header" THEN -Half .. Half - 1
                                            ELSE 0 .. 2 * Half,
          at : Start .. MaxTime, by : deployment.cfgs]

\* Every variable keeps its type, a header has room for what is in it, and no
\* nil loader is called.
TypeOK ==
    /\ deployment \in Deployments
    /\ cfg \in [Processes -> deployment.cfgs]
    /\ now \in Start .. MaxTime
    /\ offset \in [Processes -> -Skew .. Skew]
    /\ store \in [Places -> Entry \cup {Absent}]
    /\ pc \in [Processes -> {"idle", "reload"}]
    /\ \A p \in Processes : pc[p] = "reload" => cfg[p].loader
    /\ told \in {Nothing} \cup [by : Processes, from : Places,
                                verdict : {"fresh", "expired", "unreadable"}]

\* The deadline of an entry, whatever it is stored as.
Deadline(e) ==
    LET t == Decodes(e.ts) IN IF t > Half - 1 THEN 0 ELSE t

\* LogicTTL does what Expiry says, with the monotonic clock, which is never
\* off, for Go values, and whether or not the expiry time fits the header.
Promise == INSTANCE Expiry WITH
    offset <- [p \in Processes |-> IF Typed THEN 0 ELSE offset[p]],
    entry <- [x \in Places |->
                [at |-> store[x].at, ttl |-> store[x].by.ttl,
                 deadline |-> Deadline(store[x])]],
    told <- IF told.verdict = "unreadable" THEN Nothing ELSE told

\* The bytes and the clocks of the processes implement deadlines.
KeepsPromise == Promise!Spec

\* A Get that answers without reloading has an entry that is not older than
\* its time to live, and one that reloads has an older one, up to the clocks
\* of the processes that wrote and read it (logic_expire.go:60, 107, 132 and
\* logicttl_bytes_adapter.go:71, 90).
ExpiryHonoured == Promise!ExpiryHonoured

\* The bytes of c are those of d: a level, a time to live or a loader make no
\* difference, nor does it whether a default is spelled out.
SameBytes(c, d) ==
    /\ Len(c.transforms) = Len(d.transforms)
    /\ \A i \in DOMAIN c.transforms :
         LET a == c.transforms[i]
             b == d.transforms[i]
         IN  /\ a.kind = b.kind
             /\ a.kind = "lzw" =>
                  /\ a.order = "MSB" <=> b.order = "MSB"
                  /\ a.width = b.width \/ {a.width, b.width} = {0, 8}

\* A process fails to read an entry only if it was written by one whose
\* conversions were others; above all it always reads its own, and those of
\* earlier runs of the same program (compression.go:112-151, codec.go:18-52).
UnreadableHasCause ==
    told.verdict = "unreadable" =>
        ~SameBytes(store[told.from].by, cfg[told.by])
=============================================================================
