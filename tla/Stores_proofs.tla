----------------------------- MODULE Stores_proofs -----------------------------
(***************************************************************************)
(* Theorems about Stores, for any requests and keys, any times to live and *)
(* any of the adapters. Every value that a store, ristretto's buffer or    *)
(* valkey's client holds was set for its key, expires when that Set says,  *)
(* and has not been removed, except from the client, which keeps it for a  *)
(* while.                                                                  *)
(***************************************************************************)
EXTENDS Stores, SequenceTheorems, TLAPS

-----------------------------------------------------------------------------
(***************************************************************************)
(* The inductive invariant                                                 *)
(***************************************************************************)

\* v is the value of a Set of k.
SetFor(v, k) ==
    /\ v \in Requests /\ pc[v] # "idle"
    /\ req[v].op = "Set" /\ req[v].key = k /\ life[v].until \in Nat

\* An expiry time that v may have: not later than v should expire, and none
\* only if v has none or what freecache makes of it.
Timely(v, until) ==
    /\ until = Forever <=> life[v].until = Forever \/ SubSecond(v)
    /\ until # Forever => until <= life[v].until

\* A value that a store holds, or is about to, and that nothing has removed.
Held(e, k) ==
    e.val # None => /\ SetFor(e.val, k) /\ Timely(e.val, e.until)
                    /\ life[e.val].over = None

DataHeld == \A k \in Keys : Held(data[k], k)

\* What valkey's client keeps it may keep for NearTTL at most.
NearAt(e, k) ==
    e.val # None =>
        /\ SetFor(e.val, k) /\ e.until # Forever /\ e.until <= now + NearTTL
        /\ life[e.val].until = Forever \/ SubSecond(e.val) \/ e.until <= life[e.val].until
        /\ life[e.val].over # None => e.until <= life[e.val].over + NearTTL

NearHeld == \A k \in Keys : NearAt(near[k], k)

\* What is in ristretto's buffer: a mark, for whom a Set is waiting, or what is
\* to be done for a Set or a Delete.
MarkOf(b) == b.wait => pc[b.of] = "wait"

ItemOf(b) ==
    ~b.wait =>
        /\ pc[b.of] # "idle" /\ req[b.of].key \in Keys
        /\ req[b.of].sync => pc[b.of] = "wait"
        /\ b.entry.val # None => b.entry.val = b.of
        /\ Held(b.entry, req[b.of].key)

BufferHeld == \A i \in DOMAIN buffer : MarkOf(buffer[i]) /\ ItemOf(buffer[i])

\* A request has one mark at most, behind everything else of it.
MarksLast ==
    \A i, j \in DOMAIN buffer :
        buffer[i].wait /\ buffer[i].of = buffer[j].of =>
            IF buffer[j].wait THEN i = j ELSE j < i

\* Who has not called has not set anything.
IdleFresh ==
    \A r \in Requests : pc[r] = "idle" => life[r] = [until |-> None, over |-> None]

\* Who has read a value and asks how long it has left.
Asking ==
    \A r \in Requests : pc[r] = "ttl" =>
        /\ res[r].tag = "hit" /\ res[r].val \in Requests /\ req[r].key \in Keys
        /\ SetFor(res[r].val, req[r].key)
        /\ adapter = "freecache" => Timely(res[r].val, res[r].ttl)

IInv ==
    /\ TypeOK
    /\ DataHeld
    /\ NearHeld
    /\ BufferHeld
    /\ MarksLast
    /\ IdleFresh
    /\ Asking

-----------------------------------------------------------------------------
(***************************************************************************)
(* Times                                                                   *)
(***************************************************************************)

\* Rounding down to whole seconds.
LEMMA WholeSeconds ==
    ASSUME NEW a \in Nat, NEW t \in Nat \ {0}
    PROVE  /\ a \div t \in Nat /\ (a \div t) * t <= a
           /\ a \div t = 0 <=> a < t
  OBVIOUS


\* What a Set promises of its value, and what the store is given, agree.
LEMMA EntryTimely ==
    ASSUME now \in Nat, adapter' = adapter,
           NEW r \in Requests, NEW ttl \in Nat, NEW until, until = Expires(ttl),
           req'[r].ttl = ttl,
           life'[r].until = IF ttl = 0 THEN Forever ELSE now + ttl
    PROVE  until \in Nat /\ Timely(r, until)'
<1> DEFINE T == TicksPerSecond
           n == now \div T
           s == ttl \div T
<1>1. T \in Nat \ {0}
  BY TimesAssumption
<1>2. n \in Nat /\ n * T <= now
  BY <1>1, WholeSeconds
<1>3. s \in Nat /\ s * T <= ttl /\ (s = 0 <=> ttl < T)
  BY <1>1, WholeSeconds
<1>4. (n + s) * T = n * T + s * T
  BY <1>1, <1>2, <1>3
<1>5. s # 0 => s * T > 0
  BY <1>1, <1>3
<1>6. n * T \in Nat /\ s * T \in Nat
  BY <1>1, <1>2, <1>3
<1>7. CASE adapter = "freecache"
  <2>1. until = IF s = 0 THEN Forever ELSE (n + s) * T
    BY <1>7 DEF Expires, ExpiresInSeconds
  <2>2. SubSecond(r)' <=> ttl > 0 /\ ttl < T
    BY <1>7 DEF SubSecond
  <2> HIDE DEF n, s, T
  <2>3. CASE s = 0
    BY <2>1, <2>2, <2>3, <1>1, <1>3 DEF Timely, Forever
  <2>4. CASE s # 0
    BY <2>1, <2>2, <2>4, <1>1, <1>2, <1>3, <1>4, <1>5, <1>6 DEF Timely, Forever
  <2> QED
    BY <2>3, <2>4
<1>8. CASE adapter # "freecache"
  BY <1>8 DEF Expires, Timely, SubSecond, Forever
<1> QED
  BY <1>7, <1>8

-----------------------------------------------------------------------------
(***************************************************************************)
(* What no step does                                                       *)
(***************************************************************************)

\* A request that has called is not called again; a value's times to live stay
\* as they were set, and it is removed once.
Passing ==
    /\ adapter' = adapter /\ now' \in Time /\ now <= now'
    /\ \A v \in Requests : pc[v] # "idle" =>
         /\ pc'[v] # "idle" /\ req'[v] = req[v] /\ life'[v].until = life[v].until
         /\ \/ life'[v].over = life[v].over
            \/ life[v].over = None /\ life'[v].over = now

\* A value that a step does not remove may be held as before.
LEMMA HeldKept ==
    ASSUME TypeOK, Passing, NEW e, NEW k, Held(e, k),
           e.val # None => life'[e.val].over = life[e.val].over
    PROVE  Held(e, k)'
  BY DEF TypeOK, Passing, Held, SetFor, Timely, SubSecond

\* Valkey's client may keep a value, removed or not.
LEMMA NearKept ==
    ASSUME TypeOK, Passing, NEW e \in Entries, NEW k, NearAt(e, k)
    PROVE  NearAt(e, k)'
<1>1. now \in Nat /\ now' \in Nat /\ now <= now' /\ NearTTL \in Nat
  BY TimesAssumption DEF TypeOK, Passing, Time
<1>2. e.until \in Nat
  BY DEF Entries
<1>3. CASE e.val = None
  BY <1>3 DEF NearAt
<1>4. CASE e.val # None
  <2> DEFINE v == e.val
  <2>1. v \in Requests /\ pc[v] # "idle" /\ SetFor(v, k)
    BY <1>4 DEF NearAt, SetFor
  <2>2. /\ pc'[v] # "idle" /\ req'[v] = req[v] /\ life'[v].until = life[v].until
        /\ \/ life'[v].over = life[v].over
           \/ life[v].over = None /\ life'[v].over = now
    BY <2>1 DEF Passing
  <2>3. SetFor(v, k)'
    BY <2>1, <2>2 DEF SetFor
  <2>4. e.until # Forever /\ e.until <= now' + NearTTL
    BY <1>1, <1>2, <1>4 DEF NearAt
  <2>5. life'[v].until = Forever \/ SubSecond(v)' \/ e.until <= life'[v].until
    BY <1>4, <2>2 DEF NearAt, SubSecond, Passing
  <2>6. life'[v].over # None => e.until <= life'[v].over + NearTTL
    BY <1>4, <2>2 DEF NearAt
  <2> QED
    BY <2>3, <2>4, <2>5, <2>6 DEF NearAt
<1> QED
  BY <1>3, <1>4

Items == [of : Requests, entry : Entries, wait : BOOLEAN]

\* What a step puts into the buffer is put behind what is there: at most an item
\* of r, and a mark of r behind that.
Grows(r, e) ==
    /\ buffer' \in Seq(Items) /\ Len(buffer) <= Len(buffer')
    /\ \A i \in 1..Len(buffer) : buffer'[i] = buffer[i]
    /\ \A i \in 1..Len(buffer') : i > Len(buffer) =>
         \/ buffer'[i] = Item(r, e)
         \/ buffer'[i] = Mark(r) /\ i = Len(buffer') /\ req'[r].sync

LEMMA BufferTyped ==
    ASSUME TypeOK
    PROVE  /\ buffer \in Seq(Items) /\ Len(buffer) \in Nat
           /\ \A i \in 1..Len(buffer) :
                buffer[i].of \in Requests /\ buffer[i].entry \in Entries
                /\ buffer[i].wait \in BOOLEAN
<1>1. buffer \in Seq(Items)
  BY DEF TypeOK, Items
<1>2. \A i \in 1..Len(buffer) : buffer[i] \in Items
  BY <1>1
<1> QED
  BY <1>1, <1>2 DEF Items

\* The buffer's invariants are kept by who puts something into it that may be
\* there, while nothing that is there is removed.
LEMMA BufferGrown ==
    ASSUME IInv, Passing, TypeOK', NEW r \in Requests, NEW e, Grows(r, e),
           pc[r] = "idle", pc'[r] = IF req'[r].sync THEN "wait" ELSE "done",
           \A v \in Requests : pc[v] = "wait" => pc'[v] = "wait",
           \A i \in 1..Len(buffer) : LET b == buffer[i] IN
               ~b.wait /\ b.entry.val # None =>
                   life'[b.entry.val].over = life[b.entry.val].over,
           buffer' # buffer =>
               /\ req'[r].key \in Keys
               /\ e.val # None => e.val = r
               /\ Held(e, req[r].key)'
    PROVE  BufferHeld' /\ MarksLast'
<1>1. TypeOK /\ BufferHeld /\ MarksLast
  BY DEF IInv
<1>2. /\ Len(buffer) \in Nat
      /\ \A i \in 1..Len(buffer) :
           buffer[i].of \in Requests /\ buffer[i].wait \in BOOLEAN
  BY <1>1, BufferTyped
<1>3. DOMAIN buffer = 1..Len(buffer)
  BY <1>1 DEF TypeOK
<1>4. Len(buffer') \in Nat /\ DOMAIN buffer' = 1..Len(buffer')
  BY DEF Grows
<1>a. \A i \in DOMAIN buffer' : i <= Len(buffer) => i \in 1..Len(buffer)
  BY <1>2, <1>4
<1>b. \A i \in 1..Len(buffer) : buffer'[i] = buffer[i]
  BY DEF Grows
<1>5. \A i \in 1..Len(buffer) : pc[buffer[i].of] # "idle" /\ buffer[i].of # r
  BY <1>1, <1>2, <1>3 DEF BufferHeld, MarkOf, ItemOf
<1>6. ASSUME NEW i \in DOMAIN buffer'
      PROVE  MarkOf(buffer[i])' /\ ItemOf(buffer[i])'
  <2>1. CASE i <= Len(buffer)
    <3> DEFINE b == buffer[i]
    <3>1. i \in 1..Len(buffer) /\ buffer'[i] = b
      BY <1>a, <1>b, <2>1
    <3>2. /\ b.of \in Requests /\ pc[b.of] # "idle" /\ b.wait \in BOOLEAN
          /\ MarkOf(b) /\ ItemOf(b)
      BY <1>1, <1>2, <1>3, <1>5, <3>1 DEF BufferHeld
    <3>3. pc'[b.of] # "idle" /\ req'[b.of] = req[b.of]
          /\ (pc[b.of] = "wait" => pc'[b.of] = "wait")
      BY <3>2 DEF Passing
    <3>4. MarkOf(buffer[i])'
      BY <3>1, <3>2, <3>3 DEF MarkOf
    <3>5. ASSUME ~b.wait PROVE Held(b.entry, req[b.of].key)'
      <4>1. Held(b.entry, req[b.of].key)
        BY <3>2, <3>5 DEF ItemOf
      <4>2. b.entry.val # None => life'[b.entry.val].over = life[b.entry.val].over
        BY <3>1, <3>5
      <4>3. \A x, y : Held(x, y) /\ (x.val # None => life'[x.val].over = life[x.val].over)
                      => Held(x, y)'
        BY <1>1, HeldKept
      <4> QED
        BY <4>1, <4>2, <4>3, <3>1, <3>3 DEF Held, SetFor, Timely, SubSecond, Passing
    <3>6. ItemOf(buffer[i])'
      BY <3>1, <3>2, <3>3, <3>5 DEF ItemOf, Held, SetFor, Timely, SubSecond
    <3> QED
      BY <3>4, <3>6
  <2>2. CASE i > Len(buffer)
    <3>1. buffer' # buffer
      BY <1>2, <1>4, <2>2
    <3>2. CASE buffer'[i] = Item(r, e)
      BY <3>1, <3>2 DEF Item, MarkOf, ItemOf
    <3>3. CASE buffer'[i] = Mark(r) /\ req'[r].sync
      BY <3>3 DEF Mark, MarkOf, ItemOf
    <3> QED
      BY <3>2, <3>3, <1>4, <2>2 DEF Grows
  <2> QED
    BY <2>1, <2>2, <1>2, <1>4
<1>7. ASSUME NEW i \in DOMAIN buffer', NEW j \in DOMAIN buffer',
             buffer'[i].wait, buffer'[i].of = buffer'[j].of
      PROVE  IF buffer'[j].wait THEN i = j ELSE j < i
  <2>1. \A h \in 1..Len(buffer') : h > Len(buffer) => buffer'[h].of = r
    BY DEF Grows, Item, Mark
  <2>2. \A h \in 1..Len(buffer') : h > Len(buffer) /\ buffer'[h].wait => h = Len(buffer')
    BY DEF Grows, Item, Mark
  <2>3. \A h \in 1..Len(buffer') : h <= Len(buffer) =>
           h \in DOMAIN buffer /\ buffer'[h] = buffer[h] /\ buffer'[h].of # r
    BY <1>3, <1>4, <1>5, <1>a, <1>b
  <2>4. CASE i <= Len(buffer) /\ j <= Len(buffer)
    BY <1>1, <1>4, <1>7, <2>3, <2>4 DEF MarksLast
  <2>5. CASE i > Len(buffer) /\ j > Len(buffer)
    <3>1. i \in 1..Len(buffer') /\ j \in 1..Len(buffer') /\ i \in Int /\ j \in Int
      BY <1>4
    <3>2. i = Len(buffer')
      BY <1>7, <2>2, <2>5, <3>1
    <3>3. CASE buffer'[j].wait
      BY <2>2, <2>5, <3>1, <3>2, <3>3
    <3>4. CASE ~buffer'[j].wait
      <4>1. i # j
        BY <1>7, <3>4
      <4> QED
        BY <4>1, <3>1, <3>2, <3>4, <1>4
    <3> QED
      BY <3>3, <3>4
  <2>6. (i <= Len(buffer) \/ i > Len(buffer)) /\ (j <= Len(buffer) \/ j > Len(buffer))
    BY <1>2, <1>4
  <2>7. ~ (i <= Len(buffer) /\ j > Len(buffer)) /\ ~ (i > Len(buffer) /\ j <= Len(buffer))
    BY <1>4, <1>7, <2>1, <2>3
  <2> QED
    BY <2>4, <2>5, <2>6, <2>7
<1>8. BufferHeld'
  BY <1>6 DEF BufferHeld
<1>9. MarksLast'
  BY <1>7 DEF MarksLast
<1> QED
  BY <1>8, <1>9

\* Values that a step removes are held by none but the keys it removes them of:
\* the buffer holds none of them.
LEMMA NotRemoved ==
    ASSUME IInv, NEW keys
    PROVE  /\ \A e : \A k : k \notin keys /\ e.val # None /\ Held(e, k)
                             => ~Removed(keys, e.val)
           /\ \A i \in DOMAIN buffer : ~buffer[i].wait /\ buffer[i].entry.val # None
                             => ~Removed(keys, buffer[i].entry.val)
           /\ \A v \in Requests : pc[v] = "idle" => ~Removed(keys, v)
           /\ \A v \in Requests : Removed(keys, v) =>
                  life[v].over = None /\ pc[v] # "idle"
<1>1. \A e : \A k : k \notin keys /\ e.val # None /\ Held(e, k) => ~Removed(keys, e.val)
  BY DEF Held, SetFor, Removed
<1>2. ASSUME NEW i \in DOMAIN buffer, ~buffer[i].wait, buffer[i].entry.val # None
      PROVE  ~Removed(keys, buffer[i].entry.val)
  <2>1. ItemOf(buffer[i])
    BY DEF IInv, BufferHeld
  <2>2. buffer[i].entry.val = buffer[i].of
    BY <1>2, <2>1 DEF ItemOf
  <2>3. Buffered(buffer[i].of)
    BY <1>2 DEF Buffered
  <2>4. ~(req[buffer[i].of].sync /\ pc[buffer[i].of] = "done")
    BY <1>2, <2>1 DEF ItemOf
  <2> QED
    BY <2>2, <2>3, <2>4 DEF Removed
<1>3. \A v \in Requests : pc[v] = "idle" => ~Removed(keys, v)
  BY DEF IInv, IdleFresh, Removed
<1>4. \A v \in Requests : Removed(keys, v) => life[v].over = None /\ pc[v] # "idle"
  BY <1>3 DEF Removed
<1> QED
  BY <1>1, <1>2, <1>3, <1>4

\* What no step but a few is about.
LEMMA RestKept ==
    ASSUME IInv, Passing,
           \A q \in Requests : pc'[q] = "idle" => pc[q] = "idle" /\ life'[q] = life[q]
    PROVE  /\ IdleFresh'
           /\ near' = near => NearHeld'
           /\ (\A q \in Requests : pc'[q] = "ttl" =>
                  pc[q] = "ttl" /\ res'[q] = res[q] /\ req'[q] = req[q]) => Asking'
<1>1. IdleFresh'
  BY DEF IInv, IdleFresh
<1>2. ASSUME near' = near PROVE NearHeld'
  <2>1. \A k \in Keys : near[k] \in Entries /\ NearAt(near[k], k)
    BY DEF IInv, TypeOK, NearHeld
  <2>2. \A e \in Entries : \A k : NearAt(e, k) => NearAt(e, k)'
    BY NearKept DEF IInv
  <2> QED
    BY <1>2, <2>1, <2>2 DEF NearHeld, NearAt, SetFor, SubSecond
<1>3. ASSUME \A q \in Requests : pc'[q] = "ttl" =>
                 pc[q] = "ttl" /\ res'[q] = res[q] /\ req'[q] = req[q]
      PROVE  Asking'
  BY <1>3 DEF IInv, Asking, Passing, SetFor, Timely, SubSecond
<1> QED
  BY <1>1, <1>2, <1>3

\* The entries of the keys that a step leaves alone.
LEMMA DataKept ==
    ASSUME IInv, Passing, NEW k \in Keys,
           \/ data'[k] = NoEntry
           \/ /\ data'[k] = data[k]
              /\ data[k].val # None => life'[data[k].val].over = life[data[k].val].over
    PROVE  Held(data[k], k)'
<1>1. CASE data'[k] = NoEntry
  BY <1>1 DEF Held, NoEntry
<1>2. CASE /\ data'[k] = data[k]
           /\ data[k].val # None => life'[data[k].val].over = life[data[k].val].over
  <2>1. Held(data[k], k)
    BY DEF IInv, DataHeld
  <2>2. \A e : Held(e, k) /\ (e.val # None => life'[e.val].over = life[e.val].over)
               => Held(e, k)'
    BY HeldKept DEF IInv
  <2>3. ASSUME NEW e, e = data[k] PROVE Held(e, k)'
    <3>1. Held(e, k)
      BY <2>1, <2>3
    <3>2. e.val # None => life'[e.val].over = life[e.val].over
      BY <1>2, <2>3
    <3> QED
      BY <2>2, <3>1, <3>2
  <2>4. data'[k] = data[k]
    BY <1>2
  <2> QED
    BY <2>3, <2>4 DEF Held, SetFor, Timely, SubSecond
<1> QED
  BY <1>1, <1>2

-----------------------------------------------------------------------------
(***************************************************************************)
(* Set                                                                     *)
(***************************************************************************)

SetAny(r, k) ==
    SetRistretto(r, k) \/ SetFreecache(r, k) \/ SetRedis(r, k) \/ SetValkey(r, k)

\* What the Sets of the four adapters have in common.
Stored(r, k, ttl, sync) ==
    /\ pc[r] = "idle"
    /\ req' = [req EXCEPT ![r] = Call("Set", k, ttl, sync, TRUE)]
    /\ pc' = [pc EXCEPT ![r] = IF sync THEN "wait" ELSE "done"]
    /\ \E x \in {Answer("ok"), Answer("error")} : res' = [res EXCEPT ![r] = x]
    /\ life' = Ends({k}, Begins(r, ttl))
    /\ UNCHANGED <<adapter, now, near>>
    /\ \/ data' = [data EXCEPT ![k] = Entry(r)]
       \/ data' = data /\ data[k].val = None
    /\ Grows(r, Entry(r))

LEMMA EntryTyped ==
    ASSUME TypeOK, NEW r \in Requests, NEW ttl \in Nat, req'[r].ttl = ttl
    PROVE  Entry(r) \in Entries
<1>1. TicksPerSecond \in Nat \ {0} /\ now \in Nat
  BY TimesAssumption DEF TypeOK, Time
<1>2. now \div TicksPerSecond \in Nat /\ ttl \div TicksPerSecond \in Nat
  BY <1>1
<1>3. ((now \div TicksPerSecond) + (ttl \div TicksPerSecond)) * TicksPerSecond \in Nat
  BY <1>1, <1>2
<1>4. Expires(ttl) \in Nat
  BY <1>1, <1>3 DEF Expires, ExpiresInSeconds, Forever
<1> QED
  BY <1>4 DEF Entry, Entries

\* What is added to ristretto's buffer.
LEMMA Appended ==
    ASSUME TypeOK, NEW r \in Requests, NEW e \in Entries, NEW sync \in BOOLEAN,
           req'[r].sync = sync
    PROVE  LET marks == IF sync THEN <<Mark(r)>> ELSE <<>> IN
           /\ buffer' = Append(buffer, Item(r, e)) \o marks => Grows(r, e)
           /\ buffer' = buffer \o marks => Grows(r, e)
           /\ buffer' = Append(buffer, Item(r, e)) => Grows(r, e)
           /\ buffer' = buffer => Grows(r, e)
<1>1. buffer \in Seq(Items) /\ Len(buffer) \in Nat
  BY BufferTyped
<1>2. Item(r, e) \in Items /\ Mark(r) \in Items
  BY DEF Item, Mark, Items, Entries, NoEntry, Forever
<1> DEFINE n == Len(buffer)
           it == Item(r, e)
           mk == Mark(r)
<1> HIDE DEF n, it, mk
<1>3. ASSUME NEW s \in Seq(Items), s = Append(buffer, it) \/ s = buffer
      PROVE  /\ Len(s) \in Nat /\ n <= Len(s) /\ Len(s) <= n + 1
             /\ \A i \in 1..n : s[i] = buffer[i]
             /\ \A i \in 1..Len(s) : i > n => s[i] = it
  BY <1>1, <1>2, <1>3 DEF n, it
<1>4. ASSUME NEW s \in Seq(Items)
      PROVE  /\ s \o << >> = s
             /\ s \o <<mk>> = Append(s, mk)
             /\ Append(s, mk) \in Seq(Items) /\ Len(Append(s, mk)) = Len(s) + 1
             /\ \A i \in 1..Len(s) : Append(s, mk)[i] = s[i]
             /\ Append(s, mk)[Len(s) + 1] = mk
  BY <1>2 DEF mk
<1>5. Append(buffer, it) \in Seq(Items)
  BY <1>1, <1>2 DEF it
<1>6. ASSUME NEW s \in Seq(Items), s = Append(buffer, it) \/ s = buffer, buffer' = s
      PROVE  Grows(r, e)
  BY <1>3, <1>6 DEF Grows, n, it
<1>7. ASSUME NEW s \in Seq(Items), s = Append(buffer, it) \/ s = buffer,
             buffer' = s \o <<mk>>, sync
      PROVE  Grows(r, e)
  <2>1. /\ Len(s) \in Nat /\ n <= Len(s)
        /\ \A i \in 1..n : s[i] = buffer[i]
        /\ \A i \in 1..Len(s) : i > n => s[i] = it
    BY <1>3, <1>7
  <2>2. /\ buffer' \in Seq(Items) /\ Len(buffer') = Len(s) + 1
        /\ \A i \in 1..Len(s) : buffer'[i] = s[i]
        /\ buffer'[Len(s) + 1] = mk
    BY <1>4, <1>7
  <2>3. \A i \in 1..Len(buffer') : i \in 1..Len(s) \/ i = Len(s) + 1
    BY <2>1, <2>2
  <2>4. n \in Nat
    BY <1>1 DEF n
  <2>5. \A i \in 1..n : i \in 1..Len(s)
    BY <2>1, <2>4
  <2>6. \A i \in 1..n : buffer'[i] = buffer[i]
    BY <2>1, <2>2, <2>5
  <2>7. \A i \in 1..Len(buffer') : i > n =>
          buffer'[i] = it \/ (buffer'[i] = mk /\ i = Len(buffer') /\ req'[r].sync)
    BY <1>7, <2>1, <2>2, <2>3
  <2> QED
    BY <2>1, <2>2, <2>4, <2>6, <2>7 DEF Grows, n, it, mk
<1> QED
  BY <1>1, <1>4, <1>5, <1>6, <1>7 DEF it, mk

LEMMA SetsStore ==
    ASSUME TypeOK, NEW r \in Requests, NEW k \in Keys, SetAny(r, k)
    PROVE  \E ttl \in Nat, sync \in BOOLEAN : Stored(r, k, ttl, sync)
<1>1. \E ttl \in TTLs, sync \in BOOLEAN :
         Calls(r, Call("Set", k, ttl, sync, TRUE)) /\ (adapter # "ristretto" => ~sync)
  BY DEF SetAny, SetRistretto, SetFreecache, SetRedis, SetValkey, Sets
<1>2. PICK ttl \in TTLs, sync \in BOOLEAN :
         Calls(r, Call("Set", k, ttl, sync, TRUE)) /\ (adapter # "ristretto" => ~sync)
  BY <1>1
<1>3. /\ pc[r] = "idle" /\ req' = [req EXCEPT ![r] = Call("Set", k, ttl, sync, TRUE)]
      /\ req'[r] = Call("Set", k, ttl, sync, TRUE)
  BY <1>2 DEF Calls, TypeOK
<1>4. req'[r].ttl = ttl /\ req'[r].sync = sync
  BY <1>3 DEF Call
<1>5. ~Refused(req'[r])
  BY DEF SetAny, SetRistretto, SetFreecache, SetRedis, SetValkey, Sets
<1>6. ttl \in Nat
  BY <1>4, <1>5, TimesAssumption DEF Refused
<1>7. Entry(r) \in Entries
  BY <1>4, <1>6, EntryTyped
<1> DEFINE e == Entry(r)
           marks == IF sync THEN <<Mark(r)>> ELSE <<>>
<1>8. /\ buffer' = Append(buffer, Item(r, e)) \o marks => Grows(r, e)
      /\ buffer' = buffer \o marks => Grows(r, e)
      /\ buffer' = Append(buffer, Item(r, e)) => Grows(r, e)
      /\ buffer' = buffer => Grows(r, e)
  <2> HIDE DEF e
  <2>1. e \in Entries
    BY <1>7 DEF e
  <2> QED
    BY <2>1, <1>4, Appended
<1>9. CASE SetRistretto(r, k)
  <2>1. /\ life' = Ends({k}, Begins(r, ttl))
        /\ Goes(r, IF sync THEN "wait" ELSE "done", Answer("ok"))
        /\ UNCHANGED near
    BY <1>9, <1>4 DEF SetRistretto
  <2>2. \/ data' = [data EXCEPT ![k] = e] /\ buffer' = buffer \o marks
        \/ /\ data' = data /\ data[k].val = None
           /\ \/ buffer' = Append(buffer, Item(r, e)) \o marks
              \/ buffer' = buffer \o marks
    BY <1>9, <1>4 DEF SetRistretto
  <2>3. Grows(r, e)
    BY <1>8, <2>2
  <2>4. \/ data' = [data EXCEPT ![k] = e]
        \/ data' = data /\ data[k].val = None
    BY <2>2
  <2> QED
    BY <1>3, <1>6, <2>1, <2>3, <2>4 DEF Stored, Goes
<1>10. CASE SetFreecache(r, k) \/ SetRedis(r, k) \/ SetValkey(r, k)
  <2>1. ~sync
    BY <1>2, <1>10 DEF SetFreecache, SetRedis, SetValkey
  <2>2. /\ Writes(r, k) /\ buffer' = buffer /\ near' = near
        /\ \/ Goes(r, "done", Answer("ok"))
           \/ Goes(r, "done", Answer("error"))
    BY <1>10 DEF SetFreecache, SetRedis, SetValkey, AskedOfServer
  <2>3. data' = [data EXCEPT ![k] = e] /\ life' = Ends({k}, Begins(r, ttl))
    BY <1>4, <2>2 DEF Writes
  <2>4. Grows(r, e)
    BY <1>8, <2>2
  <2>5. /\ pc' = [pc EXCEPT ![r] = IF sync THEN "wait" ELSE "done"]
        /\ \E x \in {Answer("ok"), Answer("error")} : res' = [res EXCEPT ![r] = x]
        /\ UNCHANGED <<adapter, now>>
    BY <2>1, <2>2 DEF Goes
  <2> QED
    BY <1>3, <1>6, <2>2, <2>3, <2>4, <2>5 DEF Stored
<1> QED
  BY <1>9, <1>10 DEF SetAny

\* What a Set does to the life of a value, its own and the others.
LEMMA LivesAfterSet ==
    ASSUME IInv, NEW r \in Requests, NEW k \in Keys, NEW ttl \in Nat,
           NEW sync \in BOOLEAN, Stored(r, k, ttl, sync)
    PROVE  /\ life'[r] = [until |-> IF ttl = 0 THEN Forever ELSE now + ttl, over |-> None]
           /\ \A v \in Requests \ {r} : life'[v] =
                 IF Removed({k}, v) THEN [life[v] EXCEPT !.over = now] ELSE life[v]
<1>1. life \in [Requests -> [until : Nat \cup {None}, over : Time \cup {None}]]
  BY DEF IInv, TypeOK
<1>2. /\ Begins(r, ttl)[r] = [life[r] EXCEPT !.until = IF ttl = 0 THEN Forever ELSE now + ttl]
      /\ \A v \in Requests \ {r} : Begins(r, ttl)[v] = life[v]
  BY <1>1 DEF Begins
<1>3. life[r] = [until |-> None, over |-> None]
  BY DEF Stored, IInv, IdleFresh
<1>4. ~Removed({k}, r)
  BY NotRemoved DEF Stored
<1>5. \A v \in Requests : life'[v] =
         IF Removed({k}, v) THEN [Begins(r, ttl)[v] EXCEPT !.over = now] ELSE Begins(r, ttl)[v]
  BY DEF Stored, Ends
<1>6. life'[r] = Begins(r, ttl)[r]
  BY <1>4, <1>5
<1>7. life'[r] = [until |-> IF ttl = 0 THEN Forever ELSE now + ttl, over |-> None]
  BY <1>2, <1>3, <1>6
<1>8. \A v \in Requests \ {r} : life'[v] =
         IF Removed({k}, v) THEN [life[v] EXCEPT !.over = now] ELSE life[v]
  BY <1>2, <1>5
<1> QED
  BY <1>7, <1>8

LEMMA SetKeeps ==
    ASSUME IInv, NEW r \in Requests, NEW k \in Keys, SetAny(r, k)
    PROVE  IInv'
<1>0. TypeOK
  BY DEF IInv
<1>1. PICK ttl \in Nat, sync \in BOOLEAN : Stored(r, k, ttl, sync)
  BY <1>0, SetsStore
<1>2. /\ life'[r] = [until |-> IF ttl = 0 THEN Forever ELSE now + ttl, over |-> None]
      /\ \A v \in Requests \ {r} : life'[v] =
            IF Removed({k}, v) THEN [life[v] EXCEPT !.over = now] ELSE life[v]
  BY <1>1, LivesAfterSet
<1>3. now \in Nat /\ now \in Time
  BY <1>0 DEF TypeOK, Time
<1>4. /\ pc[r] = "idle" /\ pc'[r] = IF sync THEN "wait" ELSE "done"
      /\ \A q \in Requests \ {r} : pc'[q] = pc[q] /\ req'[q] = req[q] /\ res'[q] = res[q]
      /\ req'[r] = Call("Set", k, ttl, sync, TRUE)
  BY <1>0, <1>1 DEF Stored, TypeOK
<1>5. req'[r].op = "Set" /\ req'[r].key = k /\ req'[r].ttl = ttl /\ req'[r].sync = sync
  BY <1>4 DEF Call
<1>6. Entry(r) \in Entries /\ Entry(r).val = r /\ Entry(r).until = Expires(ttl)
  BY <1>0, <1>5, EntryTyped DEF Entry
<1>7. UNCHANGED <<adapter, now, near>>
  BY <1>1 DEF Stored
<1>8. TypeOK'
  <2>1. adapter' \in Adapters /\ now' \in Time /\ near' \in [Keys -> Entries]
    BY <1>0, <1>7 DEF TypeOK, Time
  <2>2. data' \in [Keys -> Entries]
    <3> DEFINE e == Entry(r)
    <3>1. data' = [data EXCEPT ![k] = e] \/ data' = data
      BY <1>1 DEF Stored
    <3>2. e \in Entries
      BY <1>6
    <3> HIDE DEF e
    <3> QED
      BY <1>0, <3>1, <3>2 DEF TypeOK
  <2>3. buffer' \in Seq(Items)
    BY <1>1 DEF Stored, Grows
  <2>4. pc' \in [Requests -> {"idle", "ttl", "wait", "done"}]
    BY <1>0, <1>1 DEF TypeOK, Stored
  <2>5. req' \in [Requests ->
          [op : {"none", "Get", "GetWithTTL", "Set", "Delete", "Clear"},
           key : Keys \cup {None}, ttl : Nat, sync : BOOLEAN, raw : BOOLEAN]]
    BY <1>0, <1>1 DEF TypeOK, Stored, Call
  <2>6. res' \in [Requests ->
          [tag : {"none", "hit", "notfound", "ok", "error", "refused"},
           val : Requests \cup {None}, ttl : Int]]
    BY <1>0, <1>1 DEF TypeOK, Stored, Answer
  <2>7. life' \in [Requests -> [until : Nat \cup {None}, over : Time \cup {None}]]
    <3>1. life' = [v \in Requests |-> life'[v]]
      BY <1>1 DEF Stored, Ends
    <3>2. life'[r] \in [until : Nat \cup {None}, over : Time \cup {None}]
      BY <1>2, <1>3 DEF Forever
    <3>3. ASSUME NEW v \in Requests \ {r}
          PROVE  life'[v] \in [until : Nat \cup {None}, over : Time \cup {None}]
      <4>1. life[v] \in [until : Nat \cup {None}, over : Time \cup {None}]
        BY <1>0 DEF TypeOK
      <4>2. life'[v] = [life[v] EXCEPT !.over = now] \/ life'[v] = life[v]
        BY <1>2
      <4> QED
        BY <1>3, <4>1, <4>2
    <3> QED
      BY <3>1, <3>2, <3>3
  <2> QED
    BY <2>1, <2>2, <2>3, <2>4, <2>5, <2>6, <2>7 DEF TypeOK, Time, Items
<1>9. \A v \in Requests : pc[v] # "idle" =>
         IF Removed({k}, v)
         THEN life[v].over = None /\ life'[v].over = now /\ life'[v].until = life[v].until
         ELSE life'[v] = life[v]
  <2>1. ASSUME NEW v \in Requests, pc[v] # "idle", Removed({k}, v)
        PROVE  life[v].over = None /\ life'[v].over = now /\ life'[v].until = life[v].until
    <3>1. life[v] \in [until : Nat \cup {None}, over : Time \cup {None}]
      BY <1>0 DEF TypeOK
    <3>2. life'[v] = [life[v] EXCEPT !.over = now] /\ life[v].over = None
      BY <1>2, <1>4, <2>1 DEF Removed
    <3> QED
      BY <3>1, <3>2
  <2> QED
    BY <1>2, <1>4, <2>1
<1>10. Passing
  <2>1. \A v \in Requests : pc[v] # "idle" => pc'[v] # "idle" /\ req'[v] = req[v]
    BY <1>4
  <2> QED
    BY <1>3, <1>7, <1>9, <2>1 DEF Passing, Time
<1>11. PICK e \in Entries : e = Entry(r)
  BY <1>6
<1>12. Held(e, k)'
  <2>1. Expires(ttl) \in Nat
    BY <1>2, <1>3, <1>5, <1>7, EntryTimely
  <2>2. \A u : u = Expires(ttl) => Timely(r, u)'
    BY <1>2, <1>3, <1>5, <1>7, EntryTimely
  <2>3. e.val = r /\ Timely(r, e.until)'
    BY <1>6, <1>11, <2>2
  <2>4. life'[r].over = None /\ life'[r].until \in Nat
    <3>1. life'[r].until = IF ttl = 0 THEN Forever ELSE now + ttl
      BY <1>2
    <3> QED
      BY <1>2, <1>3, <3>1 DEF Forever
  <2>5. SetFor(r, k)'
    BY <1>4, <1>5, <2>4 DEF SetFor
  <2> QED
    BY <2>3, <2>4, <2>5 DEF Held
<1>13. DataHeld'
  <2>1. ASSUME NEW k2 \in Keys, k2 # k \/ (data[k].val = None /\ data' = data)
        PROVE  Held(data[k2], k2)'
    <3>1. data'[k2] = data[k2]
      BY <1>0, <1>1, <2>1 DEF Stored, TypeOK
    <3>2. Held(data[k2], k2)
      BY DEF IInv, DataHeld
    <3>3. ASSUME data[k2].val # None
          PROVE  life'[data[k2].val].over = life[data[k2].val].over
      <4>1. data[k2].val \in Requests /\ pc[data[k2].val] # "idle"
        BY <3>2, <3>3 DEF Held, SetFor
      <4>2. k2 # k
        BY <2>1, <3>3
      <4>3. ~Removed({k}, data[k2].val)
        BY <3>2, <3>3, <4>2, NotRemoved
      <4> QED
        BY <1>9, <4>1, <4>3
    <3> QED
      BY <1>10, <3>1, <3>3, DataKept
  <2>2. ASSUME data' = [data EXCEPT ![k] = e] PROVE Held(data[k], k)'
    <3>1. data'[k] = e
      BY <1>0, <2>2 DEF TypeOK
    <3> QED
      BY <1>12, <3>1 DEF Held, SetFor, Timely, SubSecond
  <2>3. data' = [data EXCEPT ![k] = e] \/ (data' = data /\ data[k].val = None)
    BY <1>1, <1>11 DEF Stored
  <2>4. Held(data[k], k)'
    BY <2>1, <2>2, <2>3
  <2>5. \A k2 \in Keys : Held(data[k2], k2)'
    BY <2>1, <2>4
  <2> QED
    BY <2>5 DEF DataHeld
<1>14. BufferHeld' /\ MarksLast'
  <2>1. Grows(r, e)
    BY <1>1, <1>11 DEF Stored
  <2>2. \A v \in Requests : pc[v] = "wait" => pc'[v] = "wait"
    BY <1>4
  <2>3. ASSUME NEW i \in 1..Len(buffer), ~buffer[i].wait, buffer[i].entry.val # None
        PROVE  life'[buffer[i].entry.val].over = life[buffer[i].entry.val].over
    <3>1. i \in DOMAIN buffer
      BY <1>0 DEF TypeOK
    <3>2. ~Removed({k}, buffer[i].entry.val)
      BY <2>3, <3>1, NotRemoved
    <3>3. buffer[i].entry.val \in Requests /\ pc[buffer[i].entry.val] # "idle"
      BY <2>3, <3>1 DEF IInv, BufferHeld, ItemOf, Held, SetFor
    <3> QED
      BY <1>9, <3>2, <3>3
  <2>4. Held(e, req[r].key)'
    BY <1>5, <1>12 DEF Held, SetFor, Timely, SubSecond
  <2>5. e.val = r /\ req'[r].key \in Keys
    BY <1>5, <1>6, <1>11
  <2> QED
    BY <1>4, <1>5, <1>8, <1>10, <2>1, <2>2, <2>3, <2>4, <2>5, BufferGrown
<1>15. NearHeld' /\ IdleFresh' /\ Asking'
  <2>1. \A q \in Requests : pc'[q] = "idle" => pc[q] = "idle" /\ life'[q] = life[q]
    <3>1. ASSUME NEW q \in Requests, pc'[q] = "idle"
          PROVE  pc[q] = "idle" /\ life'[q] = life[q]
      <4>1. q # r /\ pc[q] = "idle"
        BY <1>4, <3>1
      <4>2. ~Removed({k}, q)
        BY <4>1, NotRemoved
      <4> QED
        BY <1>2, <4>1, <4>2
    <3> QED
      BY <3>1
  <2>2. \A q \in Requests : pc'[q] = "ttl" =>
            pc[q] = "ttl" /\ res'[q] = res[q] /\ req'[q] = req[q]
    BY <1>4
  <2> QED
    BY <1>7, <1>10, <2>1, <2>2, RestKept
<1> QED
  BY <1>8, <1>13, <1>14, <1>15 DEF IInv

-----------------------------------------------------------------------------
(***************************************************************************)
(* Delete and Clear                                                        *)
(***************************************************************************)

DeleteAny(r, k) ==
    \/ DeleteRistretto(r, k) \/ DeleteFreecache(r, k) \/ DeleteRedis(r, k)
    \/ DeleteValkey(r, k)

ClearAny(r) == ClearRistretto(r) \/ ClearFreecache(r) \/ ClearRedis(r) \/ ClearValkey(r)

Removal(r, keys, op, key) ==
    /\ pc[r] = "idle"
    /\ req' = [req EXCEPT ![r] = Call(op, key, 0, FALSE, TRUE)]
    /\ \E x \in {Answer("ok"), Answer("error")} : res' = [res EXCEPT ![r] = x]
    /\ Removes(keys)
    /\ UNCHANGED <<adapter, now, near>>
    /\ \/ /\ pc' = [pc EXCEPT ![r] = "done"]
          /\ Grows(r, NoEntry) /\ (buffer' # buffer => key \in Keys)
       \/ /\ pc' = [q \in Requests |-> IF q = r \/ pc[q] = "wait" THEN "done" ELSE pc[q]]
          /\ buffer' = <<>>

LEMMA NoEntryTyped == NoEntry \in Entries /\ NoEntry.val = None
  BY DEF NoEntry, Entries, Forever

LEMMA DeletesRemove ==
    ASSUME TypeOK, NEW r \in Requests, NEW k \in Keys, DeleteAny(r, k)
    PROVE  Removal(r, {k}, "Delete", k)
<1>1. Deletes(r, k) /\ Removes({k}) /\ near' = near
  BY DEF DeleteAny, DeleteRistretto, DeleteFreecache, DeleteRedis, DeleteValkey,
         AskedOfServer
<1>2. Goes(r, "done", Answer("ok")) \/ Goes(r, "done", Answer("error"))
  BY DEF DeleteAny, DeleteRistretto, DeleteFreecache, DeleteRedis, DeleteValkey,
         AskedOfServer
<1>3. buffer' = buffer \/ buffer' = Append(buffer, Item(r, NoEntry))
  BY DEF DeleteAny, DeleteRistretto, DeleteFreecache, DeleteRedis, DeleteValkey,
         AskedOfServer
<1>4. req'[r].sync = FALSE
  BY <1>1 DEF Deletes, Calls, Call, TypeOK
<1>5. PICK e \in Entries : e = NoEntry
  BY NoEntryTyped
<1>6. Grows(r, e)
  <2>1. buffer' = Append(buffer, Item(r, e)) => Grows(r, e)
    BY <1>4, Appended
  <2>2. buffer' = buffer => Grows(r, e)
    BY <1>4, Appended
  <2> QED
    BY <1>3, <1>5, <2>1, <2>2
<1> QED
  BY <1>1, <1>2, <1>5, <1>6 DEF Removal, Deletes, Calls, Goes

LEMMA ClearsRemove ==
    ASSUME TypeOK, NEW r \in Requests, ClearAny(r)
    PROVE  Removal(r, Keys, "Clear", None)
<1>1. Clears(r) /\ Removes(Keys) /\ near' = near
  BY DEF ClearAny, ClearRistretto, ClearFreecache, ClearRedis, ClearValkey, AskedOfServer
<1>2. CASE ClearRistretto(r)
  BY <1>1, <1>2 DEF ClearRistretto, Removal, Clears, Calls
<1>3. CASE ClearFreecache(r) \/ ClearRedis(r) \/ ClearValkey(r)
  <2>1. Goes(r, "done", Answer("ok")) \/ Goes(r, "done", Answer("error"))
    BY <1>3 DEF ClearFreecache, ClearRedis, ClearValkey, AskedOfServer
  <2>2. buffer' = buffer
    BY <1>3 DEF ClearFreecache, ClearRedis, ClearValkey, AskedOfServer
  <2>3. req'[r].sync = FALSE
    BY <1>1 DEF Clears, Calls, Call, TypeOK
  <2>4. PICK e \in Entries : e = NoEntry
    BY NoEntryTyped
  <2>5. Grows(r, e)
    BY <2>2, <2>3, Appended
  <2> QED
    BY <1>1, <2>1, <2>2, <2>4, <2>5 DEF Removal, Clears, Calls, Goes
<1> QED
  BY <1>2, <1>3 DEF ClearAny

LEMMA RemovalKeeps ==
    ASSUME IInv, NEW r \in Requests, NEW keys \in SUBSET Keys,
           NEW op \in {"Delete", "Clear"}, NEW key \in Keys \cup {None},
           Removal(r, keys, op, key)
    PROVE  IInv'
<1>0. TypeOK
  BY DEF IInv
<1>1. now \in Nat /\ now \in Time
  BY <1>0 DEF TypeOK, Time
<1>2. UNCHANGED <<adapter, now, near>>
  BY DEF Removal
<1>3. /\ pc[r] = "idle" /\ pc'[r] = "done"
      /\ req'[r] = Call(op, key, 0, FALSE, TRUE)
      /\ \A q \in Requests \ {r} : req'[q] = req[q] /\ res'[q] = res[q]
      /\ \A q \in Requests \ {r} : pc'[q] = pc[q] \/ (pc[q] = "wait" /\ pc'[q] = "done")
  BY <1>0 DEF Removal, TypeOK
<1>4. /\ data' = [k \in Keys |-> IF k \in keys THEN NoEntry ELSE data[k]]
      /\ life' = Ends(keys, life)
  BY DEF Removal, Removes
<1>5. \A v \in Requests :
         life'[v] = IF Removed(keys, v) THEN [life[v] EXCEPT !.over = now] ELSE life[v]
  BY <1>4 DEF Ends
<1>6. TypeOK'
  <2>1. adapter' \in Adapters /\ now' \in Time /\ near' \in [Keys -> Entries]
    BY <1>0, <1>2 DEF TypeOK, Time
  <2>2. data' \in [Keys -> Entries]
    <3>1. \A k \in Keys : data[k] \in Entries
      BY <1>0 DEF TypeOK
    <3> QED
      BY <1>4, <3>1, NoEntryTyped
  <2>3. buffer' \in Seq(Items)
    <3>1. <<>> \in Seq(Items)
      OBVIOUS
    <3>2. buffer' = <<>> \/ Grows(r, NoEntry)
      BY DEF Removal
    <3> QED
      BY <3>1, <3>2 DEF Grows
  <2>4. pc' \in [Requests -> {"idle", "ttl", "wait", "done"}]
    BY <1>0 DEF TypeOK, Removal
  <2>5. req' \in [Requests ->
          [op : {"none", "Get", "GetWithTTL", "Set", "Delete", "Clear"},
           key : Keys \cup {None}, ttl : Nat, sync : BOOLEAN, raw : BOOLEAN]]
    BY <1>0 DEF TypeOK, Removal, Call
  <2>6. res' \in [Requests ->
          [tag : {"none", "hit", "notfound", "ok", "error", "refused"},
           val : Requests \cup {None}, ttl : Int]]
    BY <1>0 DEF TypeOK, Removal, Answer
  <2>7. life' \in [Requests -> [until : Nat \cup {None}, over : Time \cup {None}]]
    <3>1. life' = [v \in Requests |-> life'[v]]
      BY <1>4 DEF Ends
    <3>2. ASSUME NEW v \in Requests
          PROVE  life'[v] \in [until : Nat \cup {None}, over : Time \cup {None}]
      <4>1. life[v] \in [until : Nat \cup {None}, over : Time \cup {None}]
        BY <1>0 DEF TypeOK
      <4>2. life'[v] = [life[v] EXCEPT !.over = now] \/ life'[v] = life[v]
        BY <1>5
      <4> QED
        BY <1>1, <4>1, <4>2
    <3> QED
      BY <3>1, <3>2
  <2> QED
    BY <2>1, <2>2, <2>3, <2>4, <2>5, <2>6, <2>7 DEF TypeOK, Time, Items
<1>7. \A v \in Requests :
         IF Removed(keys, v)
         THEN life[v].over = None /\ life'[v].over = now /\ life'[v].until = life[v].until
         ELSE life'[v] = life[v]
  <2>1. ASSUME NEW v \in Requests, Removed(keys, v)
        PROVE  life[v].over = None /\ life'[v].over = now /\ life'[v].until = life[v].until
    <3>1. life[v] \in [until : Nat \cup {None}, over : Time \cup {None}]
      BY <1>0 DEF TypeOK
    <3>2. life'[v] = [life[v] EXCEPT !.over = now] /\ life[v].over = None
      BY <1>5, <2>1 DEF Removed
    <3> QED
      BY <3>1, <3>2
  <2> QED
    BY <1>5, <2>1
<1>8. Passing
  <2>1. \A v \in Requests : pc[v] # "idle" => pc'[v] # "idle" /\ req'[v] = req[v]
    BY <1>3
  <2> QED
    BY <1>1, <1>2, <1>7, <2>1 DEF Passing, Time
<1>9. DataHeld'
  <2>1. ASSUME NEW k \in Keys PROVE Held(data[k], k)'
    <3>1. Held(data[k], k)
      BY DEF IInv, DataHeld
    <3>2. CASE k \in keys
      BY <1>4, <1>8, <3>2, DataKept
    <3>3. CASE k \notin keys
      <4>1. data'[k] = data[k]
        BY <1>4, <3>3
      <4>2. ASSUME data[k].val # None
            PROVE  life'[data[k].val].over = life[data[k].val].over
        <5>1. data[k].val \in Requests
          BY <3>1, <4>2 DEF Held, SetFor
        <5>2. ~Removed(keys, data[k].val)
          BY <3>1, <3>3, <4>2, NotRemoved
        <5> QED
          BY <1>7, <5>1, <5>2
      <4> QED
        BY <1>8, <4>1, <4>2, DataKept
    <3> QED
      BY <3>2, <3>3
  <2> QED
    BY <2>1 DEF DataHeld
<1>10. BufferHeld' /\ MarksLast'
  <2>1. CASE buffer' = <<>>
    BY <2>1 DEF BufferHeld, MarksLast
  <2>2. CASE /\ pc' = [pc EXCEPT ![r] = "done"]
             /\ Grows(r, NoEntry) /\ (buffer' # buffer => key \in Keys)
    <3>1. PICK e \in Entries : e = NoEntry
      BY NoEntryTyped
    <3>2. Grows(r, e) /\ e.val = None
      BY <2>2, <3>1, NoEntryTyped
    <3>3. Held(e, req[r].key)'
      BY <3>2 DEF Held
    <3>4. req'[r].sync = FALSE /\ req'[r].key = key
      BY <1>3 DEF Call
    <3>5. \A v \in Requests : pc[v] = "wait" => pc'[v] = "wait"
      BY <1>0, <1>3, <2>2 DEF TypeOK
    <3>6. ASSUME NEW i \in 1..Len(buffer), ~buffer[i].wait, buffer[i].entry.val # None
          PROVE  life'[buffer[i].entry.val].over = life[buffer[i].entry.val].over
      <4>1. i \in DOMAIN buffer
        BY <1>0 DEF TypeOK
      <4>2. ~Removed(keys, buffer[i].entry.val)
        BY <3>6, <4>1, NotRemoved
      <4>3. buffer[i].entry.val \in Requests
        BY <3>6, <4>1 DEF IInv, BufferHeld, ItemOf, Held, SetFor
      <4> QED
        BY <1>7, <4>2, <4>3
    <3> QED
      BY <1>3, <1>6, <1>8, <2>2, <3>2, <3>3, <3>4, <3>5, <3>6, BufferGrown
  <2> QED
    BY <2>1, <2>2 DEF Removal
<1>11. NearHeld' /\ IdleFresh' /\ Asking'
  <2>1. ASSUME NEW q \in Requests, pc'[q] = "idle"
        PROVE  pc[q] = "idle" /\ life'[q] = life[q]
    <3>1. pc[q] = "idle"
      BY <1>3, <2>1
    <3>2. ~Removed(keys, q)
      BY <3>1, NotRemoved
    <3> QED
      BY <1>7, <3>1, <3>2
  <2>2. \A q \in Requests : pc'[q] = "ttl" =>
            pc[q] = "ttl" /\ res'[q] = res[q] /\ req'[q] = req[q]
    BY <1>3
  <2> QED
    BY <1>2, <1>8, <2>1, <2>2, RestKept
<1> QED
  BY <1>6, <1>9, <1>10, <1>11 DEF IInv

-----------------------------------------------------------------------------
(***************************************************************************)
(* Reads, and calls that come to nothing                                   *)
(***************************************************************************)

\* A call that removes nothing and keeps nothing but at valkey's client: it
\* ends, or goes on to ask how long a value has left.
Reading(r) ==
    /\ UNCHANGED <<adapter, now, data, buffer, life>>
    /\ pc[r] \in {"idle", "ttl"} /\ pc'[r] \in {"ttl", "done"}
    /\ pc[r] = "ttl" => req'[r] = req[r]
    /\ pc' = [pc EXCEPT ![r] = pc'[r]] /\ req' = [req EXCEPT ![r] = req'[r]]
    /\ res' = [res EXCEPT ![r] = res'[r]]

LEMMA ReadingPasses ==
    ASSUME TypeOK, NEW r \in Requests, Reading(r)
    PROVE  Passing
  BY DEF TypeOK, Reading, Passing, Time

LEMMA ReadingKeeps ==
    ASSUME IInv, NEW r \in Requests, Reading(r), TypeOK', NearHeld',
           pc'[r] = "ttl" =>
               /\ res'[r].tag = "hit" /\ res'[r].val \in Requests /\ req'[r].key \in Keys
               /\ pc[r] = "idle" /\ SetFor(res[r].val, req[r].key)'
               /\ adapter = "freecache" => Timely(res[r].val, res[r].ttl)'
    PROVE  IInv'
<1>0. TypeOK
  BY DEF IInv
<1>1. Passing
  BY <1>0, ReadingPasses
<1>2. /\ \A q \in Requests \ {r} : pc'[q] = pc[q] /\ req'[q] = req[q] /\ res'[q] = res[q]
      /\ UNCHANGED <<adapter, now, data, buffer, life>>
  BY <1>0 DEF TypeOK, Reading
<1>3. DataHeld'
  <2>1. \A k \in Keys : Held(data[k], k)'
    BY <1>1, <1>2, DataKept
  <2> QED
    BY <2>1 DEF DataHeld
<1>4. BufferHeld' /\ MarksLast'
  <2>1. ASSUME NEW i \in DOMAIN buffer PROVE MarkOf(buffer[i])' /\ ItemOf(buffer[i])'
    <3> DEFINE b == buffer[i]
    <3>1. MarkOf(b) /\ ItemOf(b) /\ b.of \in Requests
      <4>1. i \in 1..Len(buffer)
        BY <1>0 DEF TypeOK
      <4> QED
        BY <1>0, <4>1, BufferTyped DEF IInv, BufferHeld
    <3>2. b' = b
      BY <1>2
    <3>3. pc[b.of] = "wait" => pc'[b.of] = "wait"
      BY <1>2, <3>1 DEF Reading
    <3>4. pc[b.of] # "idle" => pc'[b.of] # "idle" /\ req'[b.of] = req[b.of]
      BY <1>1, <3>1 DEF Passing
    <3>5. ASSUME ~b.wait PROVE Held(b.entry, req[b.of].key)'
      <4>1. Held(b.entry, req[b.of].key)
        BY <3>1, <3>5 DEF ItemOf
      <4>2. \A x, y : Held(x, y) => Held(x, y)'
        BY <1>0, <1>1, <1>2, HeldKept
      <4>3. pc[b.of] # "idle"
        BY <3>1, <3>5 DEF ItemOf
      <4>4. \A x, y : x = b.entry /\ y = req[b.of].key => Held(x, y)'
        BY <4>1, <4>2
      <4> QED
        BY <1>2, <3>2, <3>4, <4>3, <4>4 DEF Held, SetFor, Timely, SubSecond
    <3>6. MarkOf(buffer[i])'
      BY <3>1, <3>2, <3>3 DEF MarkOf
    <3>7. ItemOf(buffer[i])'
      BY <3>1, <3>2, <3>3, <3>4, <3>5 DEF ItemOf
    <3> QED
      BY <3>6, <3>7
  <2>2. BufferHeld'
    BY <1>2, <2>1 DEF BufferHeld
  <2> QED
    BY <1>2, <2>2 DEF IInv, MarksLast
<1>5. IdleFresh'
  <2>1. \A q \in Requests : pc'[q] = "idle" => pc[q] = "idle" /\ life'[q] = life[q]
    BY <1>2 DEF Reading
  <2> QED
    BY <1>1, <2>1, RestKept
<1>6. Asking'
  <2>1. ASSUME NEW q \in Requests, pc'[q] = "ttl"
        PROVE  /\ res'[q].tag = "hit" /\ res'[q].val \in Requests /\ req'[q].key \in Keys
               /\ SetFor(res[q].val, req[q].key)'
               /\ adapter' = "freecache" => Timely(res[q].val, res[q].ttl)'
    <3>1. CASE q = r
      BY <1>2, <2>1, <3>1
    <3>2. CASE q # r
      <4>1. pc[q] = "ttl" /\ req'[q] = req[q] /\ res'[q] = res[q]
        BY <1>2, <2>1, <3>2
      <4>2. /\ res[q].tag = "hit" /\ res[q].val \in Requests /\ req[q].key \in Keys
            /\ SetFor(res[q].val, req[q].key)
            /\ adapter = "freecache" => Timely(res[q].val, res[q].ttl)
        BY <4>1 DEF IInv, Asking
      <4> QED
        BY <1>1, <1>2, <4>1, <4>2 DEF Passing, SetFor, Timely, SubSecond
    <3> QED
      BY <3>1, <3>2
  <2> QED
    BY <2>1 DEF Asking
<1> QED
  BY <1>3, <1>4, <1>5, <1>6 DEF IInv

RequestTypes ==
    [op : {"none", "Get", "GetWithTTL", "Set", "Delete", "Clear"},
     key : Keys \cup {None}, ttl : Nat, sync : BOOLEAN, raw : BOOLEAN]
Results ==
    [tag : {"none", "hit", "notfound", "ok", "error", "refused"},
     val : Requests \cup {None}, ttl : Int]

LEMMA ReadingTyped ==
    ASSUME TypeOK, NEW r \in Requests, Reading(r), near' \in [Keys -> Entries],
           req'[r] \in RequestTypes, res'[r] \in Results
    PROVE  TypeOK'
<1>1. req' \in [Requests -> RequestTypes]
  <2>1. req \in [Requests -> RequestTypes] /\ req' = [req EXCEPT ![r] = req'[r]]
    BY DEF TypeOK, RequestTypes, Reading
  <2> QED
    BY <2>1
<1>2. res' \in [Requests -> Results]
  <2>1. res \in [Requests -> Results] /\ res' = [res EXCEPT ![r] = res'[r]]
    BY DEF TypeOK, Results, Reading
  <2> QED
    BY <2>1
<1>3. pc' \in [Requests -> {"idle", "ttl", "wait", "done"}]
  <2>1. /\ pc \in [Requests -> {"idle", "ttl", "wait", "done"}]
        /\ pc' = [pc EXCEPT ![r] = pc'[r]] /\ pc'[r] \in {"idle", "ttl", "wait", "done"}
    BY DEF TypeOK, Reading
  <2> QED
    BY <2>1
<1>4. UNCHANGED <<adapter, now, data, buffer, life>>
  BY DEF Reading
<1> QED
  BY <1>1, <1>2, <1>3, <1>4 DEF TypeOK, Time, RequestTypes, Results

LEMMA NearUnchanged ==
    ASSUME IInv, NEW r \in Requests, Reading(r), near' = near
    PROVE  near' \in [Keys -> Entries] /\ NearHeld'
<1>1. \A q \in Requests : pc'[q] = "idle" => pc[q] = "idle" /\ life'[q] = life[q]
  BY DEF IInv, TypeOK, Reading
<1>2. Passing
  BY ReadingPasses DEF IInv
<1> QED
  BY <1>1, <1>2, RestKept DEF IInv, TypeOK

\* What valkey's client keeps of an entry it has read from the server.
LEMMA NearFilled ==
    ASSUME IInv, NEW r \in Requests, Reading(r), NEW k \in Keys, Live(data[k]),
           near' = [near EXCEPT ![k] = [val |-> data[k].val, until |-> NearUntil(data[k])]]
    PROVE  near' \in [Keys -> Entries] /\ NearHeld'
<1>1. TypeOK /\ Passing
  BY ReadingPasses DEF IInv
<1>2. now \in Nat /\ NearTTL \in Nat \ {0} /\ data[k] \in Entries
  BY <1>1, TimesAssumption DEF TypeOK, Time
<1>3. data[k].until \in Nat /\ data[k].val \in Requests \cup {None}
  BY <1>2 DEF Entries
<1>4. /\ NearUntil(data[k]) \in Nat /\ NearUntil(data[k]) # Forever
      /\ NearUntil(data[k]) <= now + NearTTL
      /\ data[k].until # Forever => NearUntil(data[k]) <= data[k].until
  BY <1>2, <1>3 DEF NearUntil, Live, Forever
<1> DEFINE e == [val |-> data[k].val, until |-> NearUntil(data[k])]
<1>5. e \in Entries
  BY <1>3, <1>4 DEF Entries
<1>6. e.val = data[k].val /\ e.until = NearUntil(data[k])
  OBVIOUS
<1>7. NearAt(e, k)
  <2>1. SetFor(e.val, k) /\ Timely(e.val, data[k].until) /\ life[e.val].over = None
    BY <1>6 DEF IInv, DataHeld, Held, Live
  <2>2. life[e.val].until \in Nat
    BY <2>1 DEF SetFor
  <2>3. life[e.val].until = Forever \/ SubSecond(e.val) \/ e.until <= life[e.val].until
    <3>1. CASE data[k].until = Forever
      BY <2>1, <3>1 DEF Timely
    <3>2. CASE data[k].until # Forever
      BY <1>3, <1>4, <1>6, <2>1, <2>2, <3>2 DEF Timely
    <3> QED
      BY <3>1, <3>2
  <2> QED
    BY <1>4, <1>6, <2>1, <2>3 DEF NearAt
<1>8. \A k2 \in Keys : near'[k2] = IF k2 = k THEN e ELSE near[k2]
  BY <1>1 DEF TypeOK
<1>9. near' \in [Keys -> Entries]
  <2> HIDE DEF e
  <2>1. near' = [near EXCEPT ![k] = e]
    BY DEF e
  <2> QED
    BY <1>1, <1>5, <2>1 DEF TypeOK
<1>10. ASSUME NEW k2 \in Keys PROVE NearAt(near[k2], k2)'
  <2> DEFINE f == IF k2 = k THEN e ELSE near[k2]
  <2>1. f \in Entries /\ NearAt(f, k2)
    <3>1. CASE k2 = k
      BY <1>5, <1>7, <3>1
    <3>2. CASE k2 # k
      BY <1>1, <3>2 DEF IInv, NearHeld, TypeOK
    <3> QED
      BY <3>1, <3>2
  <2> HIDE DEF f
  <2>2. \A x \in Entries : NearAt(x, k2) => NearAt(x, k2)'
    BY <1>1, NearKept
  <2>3. \A x : x = f => NearAt(x, k2)'
    BY <2>1, <2>2
  <2>4. near'[k2] = f
    BY <1>8 DEF f
  <2> QED
    BY <2>3, <2>4 DEF NearAt, SetFor, SubSecond
<1> QED
  BY <1>9, <1>10 DEF NearHeld

\* A call that goes somewhere is a reading.
LEMMA Goings ==
    ASSUME TypeOK, NEW r \in Requests, NEW p \in {"ttl", "done"}, NEW x \in Results,
           Goes(r, p, x), UNCHANGED <<data, buffer, life>>,
           \/ pc[r] = "idle" /\ \E c \in RequestTypes : req' = [req EXCEPT ![r] = c]
           \/ pc[r] = "ttl" /\ req' = req
    PROVE  /\ Reading(r) /\ pc'[r] = p /\ res'[r] = x
           /\ req'[r] \in RequestTypes
<1>1. pc' = [pc EXCEPT ![r] = p] /\ res' = [res EXCEPT ![r] = x] /\ UNCHANGED <<adapter, now>>
  BY DEF Goes
<1>2. /\ pc \in [Requests -> {"idle", "ttl", "wait", "done"}]
      /\ req \in [Requests -> RequestTypes] /\ res \in [Requests -> Results]
  BY DEF TypeOK, RequestTypes, Results
<1>3. pc'[r] = p /\ res'[r] = x /\ pc' = [pc EXCEPT ![r] = pc'[r]]
      /\ res' = [res EXCEPT ![r] = res'[r]]
  BY <1>1, <1>2
<1>4. CASE pc[r] = "ttl" /\ req' = req
  <2>1. req' = [req EXCEPT ![r] = req'[r]] /\ req'[r] \in RequestTypes
    BY <1>2, <1>4
  <2> QED
    BY <1>1, <1>3, <1>4, <2>1 DEF Reading
<1>5. CASE pc[r] = "idle" /\ \E c \in RequestTypes : req' = [req EXCEPT ![r] = c]
  <2>1. req' = [req EXCEPT ![r] = req'[r]] /\ req'[r] \in RequestTypes
    BY <1>2, <1>5
  <2> QED
    BY <1>1, <1>3, <1>5, <2>1 DEF Reading
<1> QED
  BY <1>4, <1>5

LEMMA CallTypes ==
    /\ \A k \in Keys : /\ Call("Get", k, 0, FALSE, TRUE) \in RequestTypes
                       /\ Call("GetWithTTL", k, 0, FALSE, TRUE) \in RequestTypes
    /\ \A t \in {"notfound", "ok", "error", "refused"} : Answer(t) \in Results
    /\ \A v \in Requests \cup {None}, ttl \in Int : Hit(v, ttl) \in Results
  BY DEF Call, RequestTypes, Answer, Hit, Results

EndsHere(r) == Reading(r) /\ pc'[r] = "done" /\ TypeOK' /\ NearHeld'

\* Get, of any adapter.
GetAny(r, k) ==
    GetRistretto(r, k) \/ GetFreecache(r, k) \/ GetRedis(r, k) \/ GetValkey(r, k)

LEMMA GetReads ==
    ASSUME IInv, NEW r \in Requests, NEW k \in Keys, GetAny(r, k)
    PROVE  EndsHere(r)
<1>0. TypeOK
  BY DEF IInv
<1>1. pc[r] = "idle" /\ \E c \in RequestTypes : req' = [req EXCEPT ![r] = c]
  <2>1. Calls(r, Call("Get", k, 0, FALSE, TRUE))
    BY DEF GetAny, GetRistretto, GetFreecache, GetRedis, GetValkey, Gets
  <2> QED
    BY <2>1, CallTypes DEF Calls
<1>2. PICK e \in Entries : Finds(r, e)
  <2>1. data[k] \in Entries /\ near[k] \in Entries
    BY <1>0 DEF TypeOK
  <2>2. Finds(r, data[k]) \/ Finds(r, near[k])
    BY DEF GetAny, GetRistretto, GetFreecache, GetRedis, GetValkey, Gets
  <2> QED
    BY <2>1, <2>2
<1>3. PICK x \in Results : x = IF Live(e) THEN Hit(e.val, 0) ELSE NotFound
  BY CallTypes DEF Entries, NotFound
<1>4. Reading(r) /\ pc'[r] = "done" /\ res'[r] = x /\ req'[r] \in RequestTypes
  <2>1. Goes(r, "done", x) /\ UNCHANGED <<data, buffer, life>>
    BY <1>2, <1>3 DEF Finds
  <2> QED
    BY <1>0, <1>1, <2>1, Goings
<1>5. \/ near' = near
      \/ /\ Live(data[k])
         /\ near' = [near EXCEPT ![k] = [val |-> data[k].val, until |-> NearUntil(data[k])]]
  BY DEF GetAny, GetRistretto, GetFreecache, GetRedis, GetValkey, Gets
<1>6. near' \in [Keys -> Entries] /\ NearHeld'
  BY <1>4, <1>5, NearUnchanged, NearFilled
<1>7. TypeOK'
  BY <1>0, <1>4, <1>6, ReadingTyped
<1> QED
  BY <1>4, <1>6, <1>7 DEF EndsHere

\* Calls that come to nothing.
LEMMA NothingReads ==
    ASSUME IInv, NEW r \in Requests,
           Fails(r) \/ (\E k \in Keys : Refuses(r, k))
    PROVE  EndsHere(r)
<1>0. TypeOK
  BY DEF IInv
<1>1. PICK x \in {Answer("error"), Answer("refused")} : Goes(r, "done", x)
  BY DEF Fails, Refuses
<1>2. /\ Calls(r, req[r])
      /\ UNCHANGED <<data, near, buffer, life>>
  BY DEF Fails, Refuses, clientVars
<1>3. x \in Results
  BY CallTypes
<1>4. pc[r] = "idle" /\ \E c \in RequestTypes : req' = [req EXCEPT ![r] = c]
  <2>1. req[r] \in RequestTypes
    BY <1>0 DEF TypeOK, RequestTypes
  <2> QED
    BY <1>2, <2>1 DEF Calls
<1>5. Reading(r) /\ pc'[r] = "done" /\ res'[r] = x /\ req'[r] \in RequestTypes
  BY <1>0, <1>1, <1>2, <1>3, <1>4, Goings
<1>6. near' \in [Keys -> Entries] /\ NearHeld'
  BY <1>2, <1>5, NearUnchanged
<1>7. TypeOK'
  BY <1>0, <1>3, <1>5, <1>6, ReadingTyped
<1> QED
  BY <1>5, <1>6, <1>7 DEF EndsHere

\* What a store says is left.
LEMMA LeftTyped ==
    ASSUME TypeOK, NEW k \in Keys
    PROVE  PTTL(data[k]) \in Int
  BY DEF TypeOK, PTTL, Entries, Time

LEMMA GetTTLReads ==
    ASSUME IInv, NEW r \in Requests, GetTTL(r)
    PROVE  EndsHere(r)
<1>0. TypeOK
  BY DEF IInv
<1>1. pc[r] = "ttl" /\ req' = req /\ UNCHANGED <<data, near, buffer, life>>
  BY DEF GetTTL, clientVars
<1>2. res[r].val \in Requests /\ req[r].key \in Keys /\ res[r].ttl \in Int
  BY <1>0, <1>1 DEF IInv, Asking, TypeOK
<1>3. PTTL(data[req[r].key]) \in Int /\ now \in Int
  BY <1>0, <1>2, LeftTyped DEF TypeOK, Time
<1>4. PICK x \in Results : Goes(r, "done", x)
  <2> DEFINE v == res[r].val
             e == data[req[r].key]
  <2>1. TTLOfFreecache(v, res[r].ttl) \in Results
    <3>1. res[r].ttl - now \in Int
      BY <1>2, <1>3
    <3> QED
      BY <1>2, <3>1, CallTypes DEF TTLOfFreecache, NotFound, Forever
  <2>2. TTLOfRistretto(v, e) \in Results
    BY <1>2, <1>3, CallTypes DEF TTLOfRistretto
  <2>3. TTLOfRedis(v, e) \in Results
    BY <1>2, <1>3, CallTypes DEF TTLOfRedis
  <2>4. TTLOfValkey(v, e) \in Results
    BY <1>2, <1>3, CallTypes DEF TTLOfValkey
  <2>5. Answer("error") \in Results
    BY CallTypes
  <2> QED
    BY <2>1, <2>2, <2>3, <2>4, <2>5 DEF GetTTL
<1>5. Reading(r) /\ pc'[r] = "done" /\ res'[r] = x /\ req'[r] \in RequestTypes
  BY <1>0, <1>1, <1>4, Goings
<1>6. near' \in [Keys -> Entries] /\ NearHeld'
  BY <1>1, <1>5, NearUnchanged
<1>7. TypeOK'
  BY <1>0, <1>5, <1>6, ReadingTyped
<1> QED
  BY <1>5, <1>6, <1>7 DEF EndsHere

LEMMA EndingKeeps ==
    ASSUME IInv, NEW r \in Requests, EndsHere(r)
    PROVE  IInv'
  BY ReadingKeeps DEF EndsHere

\* GetWithTTL goes on to ask when it has read a value.
LEMMA GetValueKeeps ==
    ASSUME IInv, NEW r \in Requests, NEW k \in Keys, GetValue(r, k)
    PROVE  IInv'
<1>0. TypeOK
  BY DEF IInv
<1>1. PICK seen \in Nat : /\ GetsValue(r, k, seen)
                          /\ adapter = "freecache" => seen = data[k].until
  <2>1. data[k].until \in Nat
    BY <1>0 DEF TypeOK, Entries
  <2> QED
    BY <2>1 DEF GetValue
<1>2. /\ pc[r] = "idle" /\ req' = [req EXCEPT ![r] = Call("GetWithTTL", k, 0, FALSE, TRUE)]
      /\ UNCHANGED <<data, near, buffer, life>>
  BY <1>1 DEF GetsValue, Calls, clientVars
<1>3. \E c \in RequestTypes : req' = [req EXCEPT ![r] = c]
  BY <1>2, CallTypes
<1>4. req'[r].key = k
  BY <1>0, <1>2 DEF TypeOK, Call
<1>5. CASE ~Live(data[k])
  <2>1. Goes(r, "done", NotFound) /\ NotFound \in Results
    BY <1>1, <1>5, CallTypes DEF GetsValue, NotFound
  <2>2. Reading(r) /\ pc'[r] = "done" /\ res'[r] = NotFound /\ req'[r] \in RequestTypes
    BY <1>0, <1>2, <1>3, <2>1, Goings
  <2>3. near' \in [Keys -> Entries] /\ NearHeld'
    BY <1>2, <2>2, NearUnchanged
  <2>4. TypeOK'
    BY <1>0, <2>1, <2>2, <2>3, ReadingTyped
  <2> QED
    BY <2>2, <2>3, <2>4, EndingKeeps DEF EndsHere
<1>6. CASE Live(data[k])
  <2>1. Held(data[k], k) /\ data[k] \in Entries /\ data[k].val \in Requests
    BY <1>0, <1>6 DEF IInv, DataHeld, TypeOK, Entries, Live
  <2>2. PICK x \in Results : x = Hit(data[k].val, seen)
    BY <2>1, CallTypes
  <2>3. Goes(r, "ttl", x)
    BY <1>1, <1>6, <2>2 DEF GetsValue
  <2>4. Reading(r) /\ pc'[r] = "ttl" /\ res'[r] = x /\ req'[r] \in RequestTypes
    BY <1>0, <1>2, <1>3, <2>3, Goings
  <2>5. near' \in [Keys -> Entries] /\ NearHeld'
    BY <1>2, <2>4, NearUnchanged
  <2>6. TypeOK'
    BY <1>0, <2>4, <2>5, ReadingTyped
  <2>7. res'[r].tag = "hit" /\ res'[r].val = data[k].val /\ res'[r].ttl = seen
    BY <2>2, <2>4 DEF Hit
  <2>8. SetFor(data[k].val, k) /\ Timely(data[k].val, data[k].until)
    BY <1>6, <2>1 DEF Held, Live
  <2>9. Passing
    BY <1>0, <2>4, ReadingPasses
  <2>10. SetFor(res[r].val, req[r].key)'
    BY <1>4, <2>7, <2>8, <2>9 DEF SetFor, Passing
  <2>11. adapter = "freecache" => Timely(res[r].val, res[r].ttl)'
    <3>1. SUFFICES ASSUME adapter = "freecache" PROVE Timely(res[r].val, res[r].ttl)'
      OBVIOUS
    <3>2. Timely(data[k].val, seen) /\ pc[data[k].val] # "idle"
      BY <1>1, <2>8, <3>1 DEF SetFor
    <3> QED
      BY <2>1, <2>7, <2>9, <3>2 DEF Timely, SubSecond, Passing
  <2> QED
    BY <1>2, <1>4, <2>1, <2>4, <2>5, <2>6, <2>7, <2>10, <2>11, ReadingKeeps
<1> QED
  BY <1>5, <1>6

-----------------------------------------------------------------------------
(***************************************************************************)
(* The clients, the servers and the clock                                  *)
(***************************************************************************)

\* What is behind the head of the buffer.
LEMMA TailOfBuffer ==
    ASSUME TypeOK, buffer # <<>>, buffer' = Tail(buffer)
    PROVE  /\ buffer' \in Seq(Items) /\ 1 \in DOMAIN buffer /\ Head(buffer) = buffer[1]
           /\ \A i \in DOMAIN buffer' : /\ i \in Int /\ i + 1 \in DOMAIN buffer /\ 1 # i + 1
                                        /\ ~(i + 1 < 1) /\ buffer'[i] = buffer[i + 1]
<1>1. buffer \in Seq(Items)
  BY BufferTyped
<1> QED
  BY <1>1

\* Nobody but the head of the buffer is served.
LEMMA BufferDrained ==
    ASSUME IInv, Passing, UNCHANGED <<req, life>>, buffer # <<>>, buffer' = Tail(buffer),
           \/ pc' = pc
           \/ Head(buffer).wait /\ pc' = [pc EXCEPT ![Head(buffer).of] = "done"]
    PROVE  BufferHeld' /\ MarksLast'
<1>0. TypeOK /\ BufferHeld /\ MarksLast
  BY DEF IInv
<1>1. /\ 1 \in DOMAIN buffer /\ Head(buffer) = buffer[1]
      /\ \A i \in DOMAIN buffer' : /\ i \in Int /\ i + 1 \in DOMAIN buffer /\ 1 # i + 1
                                   /\ ~(i + 1 < 1) /\ buffer'[i] = buffer[i + 1]
  BY <1>0, TailOfBuffer
<1>2. ASSUME NEW i \in DOMAIN buffer' PROVE MarkOf(buffer[i])' /\ ItemOf(buffer[i])'
  <2> DEFINE b == buffer[i + 1]
  <2>1. buffer'[i] = b /\ i + 1 \in DOMAIN buffer
    BY <1>1
  <2>2. MarkOf(b) /\ ItemOf(b) /\ b.of \in Requests
    <3>1. i + 1 \in 1..Len(buffer)
      BY <1>0, <2>1 DEF TypeOK
    <3> QED
      BY <1>0, <2>1, <3>1, BufferTyped DEF BufferHeld
  <2>3. pc'[b.of] = pc[b.of]
    <3>1. ASSUME Head(buffer).wait PROVE Head(buffer).of # b.of
      BY <1>0, <1>1, <2>1, <3>1 DEF MarksLast
    <3> QED
      BY <1>0, <3>1, <2>2 DEF TypeOK
  <2>4. ASSUME ~b.wait PROVE Held(buffer[i].entry, req[buffer[i].of].key)'
    <3>1. Held(b.entry, req[b.of].key)
      BY <2>2, <2>4 DEF ItemOf
    <3>2. \A x, y : Held(x, y) => Held(x, y)'
      BY <1>0, HeldKept
    <3>3. \A x, y : x = b.entry /\ y = req[b.of].key => Held(x, y)'
      BY <3>1, <3>2
    <3> QED
      BY <2>1, <3>3 DEF Held, SetFor, Timely, SubSecond
  <2>5. MarkOf(buffer[i])'
    BY <2>1, <2>2, <2>3 DEF MarkOf
  <2>6. ItemOf(buffer[i])'
    BY <1>1, <2>1, <2>2, <2>3, <2>4 DEF ItemOf
  <2> QED
    BY <2>5, <2>6
<1>3. MarksLast'
  <2>1. ASSUME NEW i \in DOMAIN buffer', NEW j \in DOMAIN buffer',
               buffer'[i].wait, buffer'[i].of = buffer'[j].of
        PROVE  IF buffer'[j].wait THEN i = j ELSE j < i
    <3>1. IF buffer[j + 1].wait THEN i + 1 = j + 1 ELSE j + 1 < i + 1
      BY <1>0, <1>1, <2>1 DEF MarksLast
    <3> QED
      BY <1>1, <3>1
  <2> QED
    BY <2>1 DEF MarksLast
<1> QED
  BY <1>2, <1>3 DEF BufferHeld

LEMMA DrainKeeps ==
    ASSUME IInv, Drain
    PROVE  IInv'
<1>0. TypeOK
  BY DEF IInv
<1>1. /\ buffer # <<>> /\ buffer' = Tail(buffer)
      /\ UNCHANGED <<adapter, now, near, req, res, life>>
  BY DEF Drain
<1> DEFINE h == Head(buffer)
<1>2. /\ h.of \in Requests /\ h.entry \in Entries /\ h.wait \in BOOLEAN
      /\ MarkOf(h) /\ ItemOf(h) /\ buffer' \in Seq(Items)
  <2>1. 1 \in DOMAIN buffer /\ h = buffer[1] /\ buffer' \in Seq(Items)
    BY <1>0, <1>1, TailOfBuffer
  <2>2. 1 \in 1..Len(buffer)
    BY <1>0, <2>1 DEF TypeOK
  <2> HIDE DEF h
  <2> QED
    BY <1>0, <2>1, <2>2, BufferTyped DEF IInv, BufferHeld
<1>3. \/ h.wait /\ pc' = [pc EXCEPT ![h.of] = "done"] /\ data' = data
      \/ /\ ~h.wait /\ pc' = pc
         /\ data' = [data EXCEPT ![req[h.of].key] = h.entry] \/ data' = data
  BY DEF Drain
<1>4. TypeOK'
  <2>1. data' \in [Keys -> Entries]
    <3> DEFINE e == h.entry
               k == req[h.of].key
    <3>1. e \in Entries /\ (data' = [data EXCEPT ![k] = e] \/ data' = data)
      BY <1>2, <1>3
    <3> HIDE DEF e, k
    <3> QED
      BY <1>0, <3>1 DEF TypeOK
  <2>2. pc' \in [Requests -> {"idle", "ttl", "wait", "done"}]
    <3> DEFINE q == h.of
    <3>1. pc' = [pc EXCEPT ![q] = "done"] \/ pc' = pc
      BY <1>3
    <3> HIDE DEF q
    <3> QED
      BY <1>0, <3>1 DEF TypeOK
  <2> QED
    BY <1>0, <1>1, <1>2, <2>1, <2>2 DEF TypeOK, Time, Items
<1>5. \A q \in Requests : pc'[q] = pc[q] \/ (pc[q] = "wait" /\ pc'[q] = "done")
  <2>1. h.wait => pc[h.of] = "wait"
    BY <1>2 DEF MarkOf
  <2> QED
    BY <1>0, <1>3, <2>1 DEF TypeOK
<1>6. Passing
  BY <1>0, <1>1, <1>5 DEF Passing, TypeOK, Time
<1>7. DataHeld'
  <2>1. ASSUME NEW k \in Keys PROVE Held(data[k], k)'
    <3>1. CASE data'[k] = data[k]
      BY <1>1, <1>6, <3>1, DataKept
    <3>2. CASE ~h.wait /\ data'[k] = h.entry /\ k = req[h.of].key
      <4>1. Held(h.entry, k)
        BY <1>2, <3>2 DEF ItemOf
      <4>2. \A x : Held(x, k) => Held(x, k)'
        BY <1>0, <1>1, <1>6, HeldKept
      <4>3. \A x : x = h.entry => Held(x, k)'
        BY <4>1, <4>2
      <4>4. PICK x : x = h.entry
        OBVIOUS
      <4>5. Held(x, k)' /\ data'[k] = x
        BY <3>2, <4>3, <4>4
      <4> QED
        BY <4>5 DEF Held, SetFor, Timely, SubSecond
    <3>3. data'[k] = data[k] \/ (~h.wait /\ data'[k] = h.entry /\ k = req[h.of].key)
      <4> DEFINE e == h.entry
                 kk == req[h.of].key
      <4>1. data' = data \/ (~h.wait /\ data' = [data EXCEPT ![kk] = e])
        BY <1>3
      <4> HIDE DEF e, kk
      <4>2. data'[k] = data[k] \/ (~h.wait /\ data'[k] = e /\ k = kk)
        BY <1>0, <4>1 DEF TypeOK
      <4> QED
        BY <4>2 DEF e, kk
    <3> QED
      BY <3>1, <3>2, <3>3
  <2> QED
    BY <2>1 DEF DataHeld
<1>8. BufferHeld' /\ MarksLast'
  BY <1>1, <1>3, <1>6, BufferDrained
<1>9. NearHeld' /\ IdleFresh' /\ Asking'
  <2>1. \A q \in Requests : pc'[q] = "idle" => pc[q] = "idle" /\ life'[q] = life[q]
    BY <1>1, <1>5
  <2>2. \A q \in Requests : pc'[q] = "ttl" =>
            pc[q] = "ttl" /\ res'[q] = res[q] /\ req'[q] = req[q]
    BY <1>1, <1>5
  <2> QED
    BY <1>1, <1>6, <2>1, <2>2, RestKept
<1> QED
  BY <1>4, <1>7, <1>8, <1>9 DEF IInv

\* What happens without a call leaves values as they are, or makes them vanish.
Quiet ==
    /\ UNCHANGED <<adapter, buffer, pc, req, res, life>>
    /\ now' \in Time /\ now <= now'
    /\ \A k \in Keys : /\ data'[k] \in {data[k], NoEntry}
                       /\ near'[k] \in {near[k], NoEntry}
    /\ data' \in [Keys -> Entries] /\ near' \in [Keys -> Entries]

LEMMA Quiets ==
    ASSUME TypeOK,
           (\E k \in Keys : Invalidate(k) \/ Evict(k)) \/ Tick \/ UNCHANGED vars
    PROVE  Quiet
<1>1. now \in Time /\ now <= now /\ now \in Nat /\ MaxTime \in Nat
  BY TimesAssumption DEF TypeOK, Time
<1>2. ASSUME NEW k \in Keys, Invalidate(k) \/ Evict(k) PROVE Quiet
  <2>1. PICK e \in Entries : e = NoEntry
    BY NoEntryTyped
  <2>2. CASE Invalidate(k)
    <3>1. /\ near' = [near EXCEPT ![k] = e]
          /\ UNCHANGED <<adapter, now, data, buffer, pc, req, res, life>>
      BY <2>1, <2>2 DEF Invalidate
    <3>2. near' \in [Keys -> Entries] /\ \A j \in Keys : near'[j] \in {near[j], e}
      BY <3>1 DEF TypeOK
    <3> QED
      BY <1>1, <2>1, <3>1, <3>2 DEF TypeOK, Quiet
  <2>3. CASE Evict(k)
    <3>1. /\ data' = [data EXCEPT ![k] = e]
          /\ UNCHANGED <<adapter, now, near, buffer, pc, req, res, life>>
      BY <2>1, <2>3 DEF Evict
    <3>2. data' \in [Keys -> Entries] /\ \A j \in Keys : data'[j] \in {data[j], e}
      BY <3>1 DEF TypeOK
    <3> QED
      BY <1>1, <2>1, <3>1, <3>2 DEF TypeOK, Quiet
  <2> QED
    BY <1>2, <2>2, <2>3
<1>3. Tick => Quiet
  BY <1>1 DEF TypeOK, Tick, Quiet, clientVars, Time
<1>4. UNCHANGED vars => Quiet
  BY <1>1 DEF TypeOK, vars, clientVars, Quiet, Time
<1> QED
  BY <1>2, <1>3, <1>4

LEMMA QuietKeeps ==
    ASSUME IInv, Quiet
    PROVE  IInv'
<1>0. TypeOK
  BY DEF IInv
<1>1. TypeOK'
  BY <1>0 DEF Quiet, TypeOK, Time
<1>2. Passing
  BY DEF Quiet, Passing
<1>3. DataHeld'
  <2>1. \A k \in Keys : Held(data[k], k)'
    BY <1>2, DataKept DEF Quiet
  <2> QED
    BY <2>1 DEF DataHeld
<1>4. NearHeld'
  <2>1. ASSUME NEW k \in Keys PROVE NearAt(near[k], k)'
    <3>1. CASE near'[k] = NoEntry
      BY <3>1 DEF NearAt, NoEntry
    <3>2. CASE near'[k] = near[k]
      <4>1. near[k] \in Entries /\ NearAt(near[k], k)
        BY <1>0 DEF IInv, NearHeld, TypeOK
      <4>2. \A x \in Entries : NearAt(x, k) => NearAt(x, k)'
        BY <1>0, <1>2, NearKept
      <4>3. \A x : x = near[k] => NearAt(x, k)'
        BY <4>1, <4>2
      <4> QED
        BY <3>2, <4>3 DEF NearAt, SetFor, SubSecond
    <3> QED
      BY <3>1, <3>2 DEF Quiet
  <2> QED
    BY <2>1 DEF NearHeld
<1>5. BufferHeld' /\ MarksLast'
  BY DEF Quiet, IInv, BufferHeld, MarksLast, MarkOf, ItemOf, Held, SetFor, Timely, SubSecond
<1>6. IdleFresh' /\ Asking'
  <2>1. \A q \in Requests : pc'[q] = "idle" => pc[q] = "idle" /\ life'[q] = life[q]
    BY DEF Quiet
  <2>2. \A q \in Requests : pc'[q] = "ttl" =>
            pc[q] = "ttl" /\ res'[q] = res[q] /\ req'[q] = req[q]
    BY DEF Quiet
  <2> QED
    BY <1>2, <2>1, <2>2, RestKept
<1> QED
  BY <1>1, <1>3, <1>4, <1>5, <1>6 DEF IInv

-----------------------------------------------------------------------------
(***************************************************************************)
(* The invariant holds                                                     *)
(***************************************************************************)

LEMMA InitInvariant == Init => IInv
<1> SUFFICES ASSUME Init PROVE IInv
  OBVIOUS
<1>1. TypeOK
  <2>1. now \in Time
    BY TimesAssumption DEF Init, Time
  <2>2. NoEntry \in Entries
    BY NoEntryTyped
  <2>3. buffer \in Seq([of : Requests, entry : Entries, wait : BOOLEAN])
    BY DEF Init
  <2>4. req \in [Requests ->
          [op : {"none", "Get", "GetWithTTL", "Set", "Delete", "Clear"},
           key : Keys \cup {None}, ttl : Nat, sync : BOOLEAN, raw : BOOLEAN]]
    BY DEF Init, Call
  <2>5. res \in [Requests ->
          [tag : {"none", "hit", "notfound", "ok", "error", "refused"},
           val : Requests \cup {None}, ttl : Int]]
    BY DEF Init, NoAnswer, Answer
  <2> QED
    BY <2>1, <2>2, <2>3, <2>4, <2>5 DEF Init, TypeOK
<1>2. DataHeld /\ NearHeld
  BY NoEntryTyped DEF Init, DataHeld, NearHeld, Held, NearAt
<1>3. BufferHeld /\ MarksLast
  BY DEF Init, BufferHeld, MarksLast
<1>4. IdleFresh /\ Asking
  BY DEF Init, IdleFresh, Asking
<1> QED
  BY <1>1, <1>2, <1>3, <1>4 DEF IInv

\* The kinds of steps.
LEMMA Steps ==
    ASSUME [Next]_vars
    PROVE  \/ \E r \in Requests, k \in Keys :
                 GetAny(r, k) \/ GetValue(r, k) \/ SetAny(r, k) \/ DeleteAny(r, k)
           \/ \E r \in Requests :
                 \/ ClearAny(r) \/ GetTTL(r)
                 \/ Fails(r) \/ \E k \in Keys : Refuses(r, k)
           \/ Drain
           \/ (\E k \in Keys : Invalidate(k) \/ Evict(k)) \/ Tick \/ UNCHANGED vars
  BY DEF Next, GetAny, SetAny, DeleteAny, ClearAny, Finished

LEMMA StepInvariant == IInv /\ [Next]_vars => IInv'
<1> SUFFICES ASSUME IInv, [Next]_vars PROVE IInv'
  OBVIOUS
<1>1. ASSUME NEW r \in Requests, NEW k \in Keys, GetAny(r, k) PROVE IInv'
  BY <1>1, GetReads, EndingKeeps
<1>2. ASSUME NEW r \in Requests, NEW k \in Keys, GetValue(r, k) PROVE IInv'
  BY <1>2, GetValueKeeps
<1>3. ASSUME NEW r \in Requests, NEW k \in Keys, SetAny(r, k) PROVE IInv'
  BY <1>3, SetKeeps
<1>4. ASSUME NEW r \in Requests, NEW k \in Keys, DeleteAny(r, k) PROVE IInv'
  <2>1. Removal(r, {k}, "Delete", k)
    BY <1>4, DeletesRemove DEF IInv
  <2> QED
    BY <2>1, RemovalKeeps
<1>5. ASSUME NEW r \in Requests, ClearAny(r) PROVE IInv'
  <2>1. Removal(r, Keys, "Clear", None)
    BY <1>5, ClearsRemove DEF IInv
  <2> QED
    BY <2>1, RemovalKeeps
<1>6. ASSUME NEW r \in Requests, GetTTL(r) PROVE IInv'
  BY <1>6, GetTTLReads, EndingKeeps
<1>7. ASSUME NEW r \in Requests, Fails(r) \/ \E k \in Keys : Refuses(r, k) PROVE IInv'
  BY <1>7, NothingReads, EndingKeeps
<1>8. ASSUME Drain PROVE IInv'
  BY <1>8, DrainKeeps
<1>9. ASSUME (\E k \in Keys : Invalidate(k) \/ Evict(k)) \/ Tick \/ UNCHANGED vars
      PROVE  IInv'
  BY <1>9, Quiets, QuietKeeps DEF IInv
<1> QED
  BY <1>1, <1>2, <1>3, <1>4, <1>5, <1>6, <1>7, <1>8, <1>9, Steps

\* Every value that is kept anywhere was set for its key, expires when its Set
\* says and has not been removed, but at valkey's client; what ristretto's
\* buffer holds for a Set that waits has its mark behind it.
THEOREM Invariance == Spec => []IInv
<1>1. Init => IInv
  BY InitInvariant
<1>2. IInv /\ [Next]_vars => IInv'
  BY StepInvariant
<1> QED
  BY <1>1, <1>2, PTL DEF Spec

\* Types; in particular no time to live below zero reaches a client.
THEOREM TypeCorrect == Spec => []TypeOK
<1>1. IInv => TypeOK
  BY DEF IInv
<1> QED
  BY <1>1, Invariance, PTL

-----------------------------------------------------------------------------
(***************************************************************************)
(* What a read finds                                                       *)
(***************************************************************************)

\* v is an entry that a read may be answered with in this state.
Offered(v, op) ==
    \E k \in Keys : \/ data[k].val = v /\ Live(data[k])
                    \/ /\ near[k].val = v /\ Live(near[k])
                       /\ adapter = "valkey" /\ op = "Get"

LEMMA Found ==
    ASSUME IInv, [Next]_vars, NEW r \in Requests, NEW v \in Requests, Finding(r, v)
    PROVE  Offered(v, req'[r].op)
<1>0. /\ TypeOK /\ res \in [Requests -> Results]
      /\ res[r].tag # "hit" /\ res'[r].tag = "hit" /\ res'[r].val = v
  BY DEF IInv, TypeOK, Finding, Results
<1>1. \A t \in {"ok", "error", "refused", "notfound"} : Answer(t).tag # "hit"
  BY DEF Answer
<1>2. ASSUME NEW q \in Requests, NEW p, NEW x, Goes(q, p, x)
      PROVE  q = r /\ res'[r] = x
  BY <1>0, <1>2 DEF Goes
<1>3. ASSUME NEW q \in Requests, NEW t \in {"ok", "error", "refused", "notfound"},
             res' = [res EXCEPT ![q] = Answer(t)]
      PROVE  FALSE
  BY <1>0, <1>1, <1>3
<1>4. ASSUME NEW q \in Requests, NEW k \in Keys, GetAny(q, k) PROVE Offered(v, req'[r].op)
  <2>1. PICK e \in Entries : /\ Finds(q, e)
                             /\ e = data[k] \/ (e = near[k] /\ adapter = "valkey")
    <3>1. data[k] \in Entries /\ near[k] \in Entries
      BY <1>0 DEF TypeOK
    <3> QED
      BY <1>4, <3>1 DEF GetAny, GetRistretto, GetFreecache, GetRedis, GetValkey, Gets
  <2>2. q = r /\ res'[r] = IF Live(e) THEN Hit(e.val, 0) ELSE NotFound
    BY <2>1, <1>2 DEF Finds
  <2>3. Live(e) /\ e.val = v
    BY <1>0, <2>2 DEF Hit, NotFound, Answer
  <2>4. req'[r].op = "Get"
    <3>1. Calls(q, Call("Get", k, 0, FALSE, TRUE))
      BY <1>4 DEF GetAny, GetRistretto, GetFreecache, GetRedis, GetValkey, Gets
    <3> QED
      BY <1>0, <2>2, <3>1 DEF Calls, Call, TypeOK
  <2> QED
    BY <2>1, <2>3, <2>4 DEF Offered
<1>5. ASSUME NEW q \in Requests, NEW k \in Keys, GetValue(q, k)
      PROVE  Offered(v, req'[r].op)
  <2>1. PICK seen : IF Live(data[k]) THEN Goes(q, "ttl", Hit(data[k].val, seen))
                                     ELSE Goes(q, "done", NotFound)
    BY <1>5 DEF GetValue, GetsValue
  <2>2. Live(data[k]) /\ data[k].val = v
    <3>1. CASE Live(data[k])
      <4>1. res'[r] = Hit(data[k].val, seen)
        BY <2>1, <3>1, <1>2
      <4> QED
        BY <1>0, <3>1, <4>1 DEF Hit
    <3>2. CASE ~Live(data[k])
      <4>1. res'[r] = NotFound
        BY <2>1, <3>2, <1>2
      <4> QED
        BY <1>0, <4>1 DEF NotFound, Answer
    <3> QED
      BY <3>1, <3>2
  <2> QED
    BY <2>2 DEF Offered
<1>6. ASSUME NEW q \in Requests, NEW k \in Keys, SetAny(q, k) PROVE FALSE
  <2>1. PICK ttl \in Nat, sync \in BOOLEAN : Stored(q, k, ttl, sync)
    BY <1>0, <1>6, SetsStore
  <2> QED
    BY <2>1, <1>3 DEF Stored
<1>7. ASSUME NEW q \in Requests, NEW k \in Keys, DeleteAny(q, k) PROVE FALSE
  BY <1>0, <1>3, <1>7, DeletesRemove DEF Removal
<1>8. ASSUME NEW q \in Requests, ClearAny(q) PROVE FALSE
  BY <1>0, <1>3, <1>8, ClearsRemove DEF Removal
<1>9. ASSUME NEW q \in Requests, GetTTL(q) PROVE FALSE
  <2>1. pc[q] = "ttl" /\ res[q].tag = "hit"
    BY <1>9 DEF GetTTL, IInv, Asking
  <2>2. \E x : Goes(q, "done", x)
    BY <1>9 DEF GetTTL
  <2> QED
    BY <1>0, <1>2, <2>1, <2>2
<1>10. ASSUME NEW q \in Requests, Fails(q) \/ \E k \in Keys : Refuses(q, k) PROVE FALSE
  BY <1>3, <1>10 DEF Fails, Refuses, Goes
<1>11. Drain => FALSE
  BY <1>0 DEF Drain
<1>12. (\E k \in Keys : Invalidate(k) \/ Evict(k)) \/ Tick \/ UNCHANGED vars => FALSE
  BY <1>0 DEF Invalidate, Evict, Tick, vars
<1> QED
  BY <1>4, <1>5, <1>6, <1>7, <1>8, <1>9, <1>10, <1>11, <1>12, Steps

\* What a store offers has not expired, and has not been removed, but for what
\* valkey's client offers: that was removed less than NearTTL ago.
LEMMA OffersAreGood ==
    ASSUME IInv, NEW v \in Requests, NEW op, Offered(v, op)
    PROVE  /\ life[v].until = Forever \/ now < life[v].until \/ SubSecond(v)
           /\ \/ life[v].over = None
              \/ adapter = "valkey" /\ op = "Get" /\ now < life[v].over + NearTTL
<1>0. /\ TypeOK /\ now \in Nat /\ NearTTL \in Nat
      /\ life[v].over \in Nat \cup {None} /\ v # None
  BY NoneAssumption, TimesAssumption DEF IInv, TypeOK, Time
<1>1. ASSUME NEW k \in Keys, data[k].val = v, Live(data[k])
      PROVE  /\ life[v].until = Forever \/ now < life[v].until \/ SubSecond(v)
             /\ life[v].over = None
  <2>1. Timely(v, data[k].until) /\ life[v].over = None /\ life[v].until \in Nat
    BY <1>0, <1>1 DEF IInv, DataHeld, Held, SetFor
  <2>2. data[k].until \in Nat /\ (data[k].until = Forever \/ now < data[k].until)
    BY <1>0, <1>1 DEF TypeOK, Entries, Live
  <2> QED
    BY <1>0, <2>1, <2>2 DEF Timely
<1>2. ASSUME NEW k \in Keys, near[k].val = v, Live(near[k])
      PROVE  /\ life[v].until = Forever \/ now < life[v].until \/ SubSecond(v)
             /\ life[v].over = None \/ now < life[v].over + NearTTL
  <2>1. NearAt(near[k], k) /\ near[k].until \in Nat
    BY <1>0 DEF IInv, NearHeld, TypeOK, Entries
  <2>2. now < near[k].until
    BY <1>0, <1>2, <2>1 DEF NearAt, Live
  <2>3. life[v].until \in Nat
    BY <1>0, <1>2, <2>1 DEF NearAt, SetFor
  <2> QED
    BY <1>0, <1>2, <2>1, <2>2, <2>3 DEF NearAt
<1> QED
  BY <1>1, <1>2 DEF Offered

\* No read, of any adapter, finds a value whose time to live has passed.
THEOREM ValuesExpire == Spec => NoValueOutlivesItsTTL
<1>1. IInv /\ [Next]_vars =>
        [\A r, v \in Requests : Finding(r, v) =>
           life[v].until = Forever \/ now < life[v].until \/ SubSecond(v)]_vars
  BY Found, OffersAreGood
<1> QED
  BY <1>1, Invariance, PTL DEF Spec, NoValueOutlivesItsTTL

\* No read finds a value that was removed, but valkey's Get, and it only for
\* clientSideCacheExpiration.
THEOREM RemovalsHold == Spec => RemovedIsGone
<1>1. IInv /\ [Next]_vars =>
        [\A r, v \in Requests : Finding(r, v) =>
           \/ life[v].over = None
           \/ adapter = "valkey" /\ req'[r].op = "Get"
                /\ now < life[v].over + NearTTL]_vars
  BY Found, OffersAreGood
<1> QED
  BY <1>1, Invariance, PTL DEF Spec, RemovedIsGone

-----------------------------------------------------------------------------
(***************************************************************************)
(* What GetWithTTL says                                                    *)
(***************************************************************************)

\* Who asks how long a value has left is answered by that, and by nothing else.
LEMMA OnlyTheStoreAnswers ==
    ASSUME IInv, [Next]_vars, NEW r \in Requests, pc[r] = "ttl", pc'[r] = "done"
    PROVE  GetTTL(r)
<1>0. TypeOK
  BY DEF IInv
<1>1. ASSUME NEW q \in Requests, NEW p, NEW x, pc[q] = "idle", Goes(q, p, x) PROVE FALSE
  BY <1>0, <1>1 DEF Goes, TypeOK
<1>2. ASSUME NEW q \in Requests, NEW k \in Keys,
             GetAny(q, k) \/ GetValue(q, k) \/ SetAny(q, k) \/ DeleteAny(q, k)
      PROVE  FALSE
  <2>1. CASE GetAny(q, k)
    BY <1>1, <2>1 DEF GetAny, GetRistretto, GetFreecache, GetRedis, GetValkey, Gets,
                      Calls, Finds
  <2>2. CASE GetValue(q, k)
    BY <1>1, <2>2 DEF GetValue, GetsValue, Calls
  <2>3. CASE SetAny(q, k)
    <3>1. PICK ttl \in Nat, sync \in BOOLEAN : Stored(q, k, ttl, sync)
      BY <1>0, <2>3, SetsStore
    <3> QED
      BY <1>0, <3>1 DEF Stored, TypeOK
  <2>4. CASE DeleteAny(q, k)
    <3>1. Removal(q, {k}, "Delete", k)
      BY <1>0, <2>4, DeletesRemove
    <3> QED
      BY <1>0, <3>1 DEF Removal, TypeOK
  <2> QED
    BY <1>2, <2>1, <2>2, <2>3, <2>4
<1>3. ASSUME NEW q \in Requests, ClearAny(q) PROVE FALSE
  <2>1. Removal(q, Keys, "Clear", None)
    BY <1>0, <1>3, ClearsRemove
  <2> QED
    BY <1>0, <2>1 DEF Removal, TypeOK
<1>4. ASSUME NEW q \in Requests, GetTTL(q) PROVE GetTTL(r)
  <2>1. \E x : Goes(q, "done", x)
    BY <1>4 DEF GetTTL
  <2>2. q = r
    BY <1>0, <2>1 DEF Goes, TypeOK
  <2> QED
    BY <1>4, <2>2
<1>5. ASSUME NEW q \in Requests, Fails(q) \/ \E k \in Keys : Refuses(q, k) PROVE FALSE
  BY <1>1, <1>5 DEF Fails, Refuses, Calls
<1>6. Drain => FALSE
  <2> SUFFICES ASSUME Drain PROVE FALSE
    OBVIOUS
  <2>1. 1 \in DOMAIN buffer /\ Head(buffer) = buffer[1]
    BY <1>0, TailOfBuffer DEF Drain
  <2>2. Head(buffer).wait => pc[Head(buffer).of] = "wait"
    BY <2>1 DEF IInv, BufferHeld, MarkOf
  <2> QED
    BY <1>0, <2>2 DEF Drain, TypeOK
<1>7. (\E k \in Keys : Invalidate(k) \/ Evict(k)) \/ Tick \/ UNCHANGED vars => FALSE
  BY DEF Invalidate, Evict, Tick, vars
<1> QED
  BY <1>2, <1>3, <1>4, <1>5, <1>6, <1>7, Steps

\* What is left of an entry, as the servers say it.
LEMMA LeftIsRight ==
    ASSUME IInv, NEW k \in Keys
    PROVE  LET e == data[k] IN
           /\ PTTL(e) \in Int /\ (PTTL(e) < 0 => PTTL(e) = -1 \/ (PTTL(e) = -2 /\ ~Live(e)))
           /\ Live(e) =>
                /\ PTTL(e) = -1 <=> e.until = Forever
                /\ e.until # Forever => PTTL(e) > 0 /\ now + PTTL(e) = e.until
                /\ PTTL(e) # 0
<1>1. now \in Nat /\ data[k].until \in Nat
  BY DEF IInv, TypeOK, Time, Entries
<1> QED
  BY <1>1 DEF PTTL, Live, Forever

\* What GetWithTTL says of an entry that is still there is right.
LEMMA AnswerIsRight ==
    ASSUME IInv, NEW r \in Requests, GetTTL(r), res'[r].tag = "hit"
    PROVE  LET v == res'[r].val
               e == data[req[r].key]
               ttl == res'[r].ttl
           IN  IF e.val = v /\ Live(e)
               THEN /\ ttl >= 0
                    /\ ttl = 0 <=> life[v].until = Forever \/ SubSecond(v)
                    /\ ttl > 0 => now + ttl <= life[v].until
               ELSE ttl < 0 => adapter = "valkey" /\ ~Live(e)
<1> DEFINE v == res[r].val
           k == req[r].key
           e == data[k]
           ttl == res'[r].ttl
<1>0. /\ TypeOK /\ res \in [Requests -> Results] /\ now \in Nat
      /\ v \in Requests /\ k \in Keys /\ SetFor(v, k) /\ life[v].until \in Nat
      /\ adapter = "freecache" => Timely(v, res[r].ttl)
      /\ res[r].ttl \in Int
  BY DEF IInv, TypeOK, Asking, GetTTL, SetFor, Results, Time
<1>1. /\ PTTL(e) \in Int /\ (PTTL(e) < 0 => PTTL(e) = -1 \/ (PTTL(e) = -2 /\ ~Live(e)))
      /\ Live(e) =>
           /\ PTTL(e) = -1 <=> e.until = Forever
           /\ e.until # Forever => PTTL(e) > 0 /\ now + PTTL(e) = e.until
           /\ PTTL(e) # 0
  BY <1>0, LeftIsRight
<1>2. e.val = v /\ Live(e) => Timely(v, e.until) /\ e.until \in Nat
  BY <1>0 DEF IInv, DataHeld, Held, Live, TypeOK, Entries
<1>3. \A x : Goes(r, "done", x) => res'[r] = x
  BY <1>0 DEF Goes
<1>4. CASE adapter = "freecache" /\ Goes(r, "done", TTLOfFreecache(v, res[r].ttl))
  <2>1. res'[r] = TTLOfFreecache(v, res[r].ttl)
    BY <1>3, <1>4
  <2>2. /\ res'[r].val = v
        /\ \/ res[r].ttl = Forever /\ ttl = 0
           \/ res[r].ttl # Forever /\ now < res[r].ttl /\ ttl = res[r].ttl - now
    BY <1>0, <2>1 DEF TTLOfFreecache, Hit, NotFound, Answer
  <2>3. Timely(v, res[r].ttl)
    BY <1>0, <1>4
  <2> QED
    BY <1>0, <2>2, <2>3 DEF Timely, Forever
<1>5. ASSUME res'[r].val = v, ttl \in Int,
             ttl < 0 => adapter = "valkey" /\ ~Live(e),
             PTTL(e) >= 0 => ttl = PTTL(e), PTTL(e) = -1 => ttl = 0
      PROVE  IF e.val = res'[r].val /\ Live(e)
             THEN /\ ttl >= 0
                  /\ ttl = 0 <=> life[v].until = Forever \/ SubSecond(v)
                  /\ ttl > 0 => now + ttl <= life[v].until
             ELSE ttl < 0 => adapter = "valkey" /\ ~Live(e)
  <2>1. ASSUME e.val = v, Live(e)
        PROVE  /\ ttl >= 0
               /\ ttl = 0 <=> life[v].until = Forever \/ SubSecond(v)
               /\ ttl > 0 => now + ttl <= life[v].until
    <3>1. Timely(v, e.until) /\ e.until \in Nat
      BY <1>2, <2>1
    <3>2. CASE e.until = Forever
      <4>1. ttl = 0
        BY <1>1, <1>5, <2>1, <3>2
      <4> QED
        BY <3>1, <3>2, <4>1 DEF Timely
    <3>3. CASE e.until # Forever
      <4>1. ttl > 0 /\ now + ttl = e.until
        BY <1>1, <1>5, <2>1, <3>3
      <4> QED
        BY <1>0, <1>5, <3>1, <3>3, <4>1 DEF Timely
    <3> QED
      BY <3>2, <3>3
  <2> QED
    BY <1>5, <2>1
<1>6. CASE \/ adapter = "ristretto" /\ Goes(r, "done", TTLOfRistretto(v, e))
           \/ adapter = "redis" /\ Goes(r, "done", TTLOfRedis(v, e))
  <2>1. res'[r] = Hit(v, IF PTTL(e) < 0 THEN 0 ELSE PTTL(e))
    BY <1>3, <1>6 DEF TTLOfRistretto, TTLOfRedis
  <2>2. res'[r].val = v /\ ttl = IF PTTL(e) < 0 THEN 0 ELSE PTTL(e)
    BY <2>1 DEF Hit
  <2> QED
    BY <1>1, <1>5, <2>2
<1>7. CASE adapter = "valkey" /\ Goes(r, "done", TTLOfValkey(v, e))
  <2>1. res'[r] = Hit(v, IF PTTL(e) = -1 THEN 0 ELSE PTTL(e))
    BY <1>3, <1>7 DEF TTLOfValkey
  <2>2. res'[r].val = v /\ ttl = IF PTTL(e) = -1 THEN 0 ELSE PTTL(e)
    BY <2>1 DEF Hit
  <2> QED
    BY <1>1, <1>5, <1>7, <2>2
<1>8. CASE Goes(r, "done", Answer("error"))
  BY <1>3, <1>8 DEF Answer
<1> QED
  BY <1>4, <1>6, <1>7, <1>8 DEF GetTTL

\* A GetWithTTL never promises more than is left, and says 0 of what has no
\* limit only, or of what has gone in the meantime.
THEOREM TTLsAreTrue == Spec => TTLTrue
<1>1. IInv /\ [Next]_vars =>
        [\A r \in Requests : pc[r] = "ttl" /\ res'[r].tag = "hit" /\ pc'[r] = "done" =>
           LET v == res'[r].val
               e == data[req[r].key]
               ttl == res'[r].ttl
           IN  IF e.val = v /\ Live(e)
               THEN /\ ttl >= 0
                    /\ ttl = 0 <=> life[v].until = Forever \/ SubSecond(v)
                    /\ ttl > 0 => now + ttl <= life[v].until
               ELSE ttl < 0 => adapter = "valkey" /\ ~Live(e)]_vars
  BY OnlyTheStoreAnswers, AnswerIsRight
<1> QED
  BY <1>1, Invariance, PTL DEF Spec, TTLTrue
=============================================================================
