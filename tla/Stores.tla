------------------------------- MODULE Stores --------------------------------
(***************************************************************************)
(* The four adapters that make a client a cache.Store: ristretto and       *)
(* freecache in the process, redis and valkey on a server. What they do    *)
(* with times to live, reads that take two commands, writes that take      *)
(* effect after they have returned, and what valkey keeps at the client.   *)
(*                                                                         *)
(* Each request calls one operation. A value is the request that set it.   *)
(***************************************************************************)
EXTENDS Integers, Sequences, SequencesExt

CONSTANTS
    Requests, Keys,
    Adapters,           \* the adapters considered
    TTLs,               \* times to live given to Set, in ticks
    TicksPerSecond,
    NearTTL,            \* clientSideCacheExpiration
    BufferSize,         \* of ristretto's buffer
    MaxTime,            \* bound on the clock
    Faults,             \* may calls fail?
    None

ASSUME NoneAssumption == None \notin (Requests \cup Nat)

ASSUME TimesAssumption ==
    /\ TTLs \subseteq Int
    /\ TicksPerSecond \in Nat \ {0} /\ NearTTL \in Nat \ {0}
    /\ BufferSize \in Nat \ {0} /\ MaxTime \in Nat

VARIABLES
    adapter,
    now,        \* the clock
    data,       \* the client's or the server's entries
    near,       \* valkey: the entries kept at the client
    buffer,     \* ristretto: writes it has not processed
    pc, req, res,
    life        \* of a value: when it should expire, when it was removed

clientVars == <<data, near, buffer>>
vars == <<adapter, now, data, near, buffer, pc, req, res, life>>

\* An expiry time of 0 is never.
Forever == 0
NoEntry == [val |-> None, until |-> Forever]
Live(e) == e.val # None /\ (e.until = Forever \/ now < e.until)

Hit(v, ttl) == [tag |-> "hit", val |-> v, ttl |-> ttl]
Answer(tag) == [tag |-> tag, val |-> None, ttl |-> 0]
NoAnswer == Answer("none")
NotFound == Answer("notfound")

Local == adapter \in {"ristretto", "freecache"}

\* A call of Set says whether it is synchronous and whether its value is made
\* of bytes. Calls that come to nothing are not recorded.
Call(op, k, ttl, sync, raw) ==
    [op |-> op, key |-> k, ttl |-> ttl, sync |-> sync, raw |-> raw]

Init ==
    /\ adapter \in Adapters
    /\ now = 0
    /\ data = [k \in Keys |-> NoEntry] /\ near = [k \in Keys |-> NoEntry]
    /\ buffer = <<>>
    /\ pc = [r \in Requests |-> "idle"]
    /\ req = [r \in Requests |-> Call("none", None, 0, FALSE, FALSE)]
    /\ res = [r \in Requests |-> NoAnswer]
    /\ life = [r \in Requests |-> [until |-> None, over |-> None]]

-----------------------------------------------------------------------------
Calls(r, c) == pc[r] = "idle" /\ req' = [req EXCEPT ![r] = c]

Goes(r, p, x) ==
    /\ pc' = [pc EXCEPT ![r] = p]
    /\ res' = [res EXCEPT ![r] = x]
    /\ UNCHANGED <<adapter, now>>

\* A call of any kind that fails before it does anything: the in-process stores
\* look at the context first, the others may not reach their server.
Fails(r) ==
    /\ Faults
    /\ Calls(r, req[r])
    /\ Goes(r, "done", Answer("error"))
    /\ UNCHANGED <<clientVars, life>>

(***************************************************************************)
(* Get. Valkey looks at the client's own entry first, and keeps what it    *)
(* had to ask the server for: not longer than the server, nor than         *)
(* clientSideCacheExpiration.                                              *)
(***************************************************************************)
Finds(r, e) ==
    /\ Goes(r, "done", IF Live(e) THEN Hit(e.val, 0) ELSE NotFound)
    /\ UNCHANGED <<data, buffer, life>>

Gets(r, k) ==
    /\ Calls(r, Call("Get", k, 0, FALSE, TRUE))
    /\ Finds(r, data[k]) /\ UNCHANGED near

GetRistretto(r, k) == adapter = "ristretto" /\ Gets(r, k)
GetFreecache(r, k) == adapter = "freecache" /\ Gets(r, k)
GetRedis(r, k) == adapter = "redis" /\ Gets(r, k)

NearUntil(e) ==
    IF e.until = Forever \/ now + NearTTL < e.until THEN now + NearTTL ELSE e.until

GetValkey(r, k) ==
    /\ adapter = "valkey"
    /\ Calls(r, Call("Get", k, 0, FALSE, TRUE))
    /\ \/ Live(near[k]) /\ Finds(r, near[k]) /\ UNCHANGED near
       \/ /\ ~Live(near[k]) /\ Finds(r, data[k])
          /\ near' = IF Live(data[k])
                     THEN [near EXCEPT ![k] = [val |-> data[k].val,
                                               until |-> NearUntil(data[k])]]
                     ELSE near

(***************************************************************************)
(* GetWithTTL reads the value, and then, in a step of its own, how long it *)
(* has left. Freecache has read the expiry time with the value; the others *)
(* ask again, and the entry may be another or gone.                        *)
(***************************************************************************)
GetsValue(r, k, seen) ==
    /\ Calls(r, Call("GetWithTTL", k, 0, FALSE, TRUE))
    /\ IF Live(data[k]) THEN Goes(r, "ttl", Hit(data[k].val, seen))
                        ELSE Goes(r, "done", NotFound)
    /\ UNCHANGED <<clientVars, life>>

GetValue(r, k) ==
    GetsValue(r, k, IF adapter = "freecache" THEN data[k].until ELSE 0)

\* What the servers say: -2 of an entry that is gone, -1 of one without limit.
PTTL(e) == CASE ~Live(e) -> -2
             [] Live(e) /\ e.until = Forever -> -1
             [] OTHER -> e.until - now

\* What is left is worked out after the entry was read.
TTLOfFreecache(v, until) ==
    CASE until = Forever -> Hit(v, 0)
      [] until # Forever /\ until <= now -> NotFound
      [] OTHER -> Hit(v, until - now)

\* GetTTL of the client also answers 0 for an entry that is gone.
TTLOfRistretto(v, e) == Hit(v, IF PTTL(e) < 0 THEN 0 ELSE PTTL(e))

\* Plausible bug: what the server says is passed on.
TTLOfRedisRaw(v, e) == Hit(v, PTTL(e))

TTLOfRedis(v, e) == Hit(v, IF PTTL(e) < 0 THEN 0 ELSE PTTL(e))

TTLOfValkey(v, e) == Hit(v, IF PTTL(e) = -1 THEN 0 ELSE PTTL(e))

GetTTL(r) ==
    LET v == res[r].val
        e == data[req[r].key]
    IN  /\ pc[r] = "ttl"
        /\ \/ adapter = "freecache" /\ Goes(r, "done", TTLOfFreecache(v, res[r].ttl))
           \/ adapter = "ristretto" /\ Goes(r, "done", TTLOfRistretto(v, e))
           \/ adapter = "redis" /\ Goes(r, "done", TTLOfRedis(v, e))
           \/ adapter = "valkey" /\ Goes(r, "done", TTLOfValkey(v, e))
           \/ Faults /\ ~Local /\ Goes(r, "done", Answer("error"))
        /\ UNCHANGED <<req, clientVars, life>>

(***************************************************************************)
(* Set.                                                                    *)
(***************************************************************************)
\* Plausible bug: the number of seconds is taken from the wrong unit.
ExpiresInUnits(ttl) ==
    IF ttl = 0 THEN Forever ELSE ((now \div TicksPerSecond) + ttl) * TicksPerSecond

\* Freecache counts in seconds; what is less than one is none, hence forever.
ExpiresInSeconds(ttl) ==
    IF ttl \div TicksPerSecond = 0 THEN Forever
    ELSE ((now \div TicksPerSecond) + (ttl \div TicksPerSecond)) * TicksPerSecond

Expires(ttl) ==
    CASE adapter = "freecache" -> ExpiresInSeconds(ttl)
      [] adapter # "freecache" /\ ttl = 0 -> Forever
      [] OTHER -> now + ttl

Entry(v) == [val |-> v, until |-> Expires(req'[v].ttl)]

\* Plausible bug: a negative time to live is left to the client.
RefusedByType(c) == adapter # "ristretto" /\ ~c.raw

Refused(c) == c.ttl < 0 \/ (adapter # "ristretto" /\ ~c.raw)

Refuses(r, k) ==
    /\ \E ttl \in TTLs, raw \in BOOLEAN : Refused(Call("Set", k, ttl, FALSE, raw))
    /\ Calls(r, req[r])
    /\ Goes(r, "done", Answer("refused"))
    /\ UNCHANGED <<clientVars, life>>

\* Values of the keys that were written are removed now. A write that is still
\* in the buffer is not written yet, unless its Set has promised it.
Buffered(v) == \E i \in DOMAIN buffer : buffer[i].of = v /\ ~buffer[i].wait
Removed(keys, v) ==
    /\ req[v].op = "Set" /\ req[v].key \in keys
    /\ life[v].until # None /\ life[v].over = None
    /\ Buffered(v) => req[v].sync /\ pc[v] = "done"
Ends(keys, lives) ==
    [v \in Requests |-> IF Removed(keys, v) THEN [lives[v] EXCEPT !.over = now]
                                            ELSE lives[v]]
Begins(r, ttl) ==
    [life EXCEPT ![r].until = IF ttl = 0 THEN Forever ELSE now + ttl]

\* A write takes effect: a server's, or freecache's.
Writes(v, k) ==
    /\ data' = [data EXCEPT ![k] = Entry(v)]
    /\ life' = Ends({k}, Begins(v, req'[v].ttl))

Sets(r, k) ==
    /\ \E ttl \in TTLs : Calls(r, Call("Set", k, ttl, FALSE, TRUE))
    /\ ~Refused(req'[r])

SetFreecache(r, k) ==
    /\ adapter = "freecache" /\ Sets(r, k)
    /\ Goes(r, "done", Answer("ok")) /\ Writes(r, k)
    /\ UNCHANGED <<near, buffer>>

\* A call of a server may have taken effect and fail nevertheless. When it does
\* is all that matters of it here: a caller that gives up earlier has no answer.
AskedOfServer(r, Effect) ==
    /\ \/ Goes(r, "done", Answer("ok"))
       \/ Faults /\ Goes(r, "done", Answer("error"))
    /\ Effect

SetRedis(r, k) ==
    /\ adapter = "redis" /\ Sets(r, k)
    /\ AskedOfServer(r, Writes(r, k)) /\ UNCHANGED <<near, buffer>>

SetValkey(r, k) ==
    /\ adapter = "valkey" /\ Sets(r, k)
    /\ AskedOfServer(r, Writes(r, k)) /\ UNCHANGED <<near, buffer>>

\* Ristretto replaces an entry at once. A new one goes through a buffer, or is
\* dropped; Set does not say. With WithSynchronousSet it waits for the buffer.
Item(r, e) == [of |-> r, entry |-> e, wait |-> FALSE]
Mark(r) == [of |-> r, entry |-> NoEntry, wait |-> TRUE]

\* Plausible bug: the option for a synchronous Set is not looked at.
SetRistrettoAsync(r, k) ==
    /\ adapter = "ristretto"
    /\ \E ttl \in TTLs, sync \in BOOLEAN :
         Calls(r, Call("Set", k, ttl, sync, TRUE))
    /\ ~Refused(req'[r])
    /\ IF data[k].val # None
       THEN data' = [data EXCEPT ![k] = Entry(r)] /\ UNCHANGED buffer
       ELSE UNCHANGED data /\ buffer' = Append(buffer, Item(r, Entry(r)))
    /\ life' = Ends({k}, Begins(r, req'[r].ttl))
    /\ Goes(r, "done", Answer("ok"))
    /\ UNCHANGED near

SetRistretto(r, k) ==
    /\ adapter = "ristretto"
    /\ \E ttl \in TTLs, sync \in BOOLEAN :
         Calls(r, Call("Set", k, ttl, sync, TRUE))
    /\ ~Refused(req'[r])
    /\ LET marks == IF req'[r].sync THEN <<Mark(r)>> ELSE <<>>
       IN  IF data[k].val # None
           THEN /\ data' = [data EXCEPT ![k] = Entry(r)]
                /\ buffer' = buffer \o marks
           ELSE /\ UNCHANGED data
                /\ \/ buffer' = Append(buffer, Item(r, Entry(r))) \o marks
                   \/ buffer' = buffer \o marks
    /\ Len(buffer') <= BufferSize
    /\ life' = Ends({k}, Begins(r, req'[r].ttl))
    /\ Goes(r, IF req'[r].sync THEN "wait" ELSE "done", Answer("ok"))
    /\ UNCHANGED near

(***************************************************************************)
(* Delete and Clear. Ristretto removes at once, and again when it gets to  *)
(* it in the buffer, behind the writes that were there before.             *)
(***************************************************************************)
Removes(keys) ==
    /\ data' = [k \in Keys |-> IF k \in keys THEN NoEntry ELSE data[k]]
    /\ life' = Ends(keys, life)

Deletes(r, k) == Calls(r, Call("Delete", k, 0, FALSE, TRUE))

DeleteRistretto(r, k) ==
    /\ adapter = "ristretto" /\ Deletes(r, k)
    /\ Removes({k}) /\ Goes(r, "done", Answer("ok"))
    /\ buffer' = Append(buffer, Item(r, NoEntry)) /\ Len(buffer') <= BufferSize
    /\ UNCHANGED near

DeleteFreecache(r, k) ==
    /\ adapter = "freecache" /\ Deletes(r, k)
    /\ Removes({k}) /\ Goes(r, "done", Answer("ok"))
    /\ UNCHANGED <<near, buffer>>

DeleteRedis(r, k) ==
    /\ adapter = "redis" /\ Deletes(r, k)
    /\ AskedOfServer(r, Removes({k})) /\ UNCHANGED <<near, buffer>>

DeleteValkey(r, k) ==
    /\ adapter = "valkey" /\ Deletes(r, k)
    /\ AskedOfServer(r, Removes({k})) /\ UNCHANGED <<near, buffer>>

Clears(r) == Calls(r, Call("Clear", None, 0, FALSE, TRUE))

\* A Clear of ristretto forgets what is in the buffer, and frees who waits.
ClearRistretto(r) ==
    /\ adapter = "ristretto" /\ Clears(r)
    /\ Removes(Keys) /\ buffer' = <<>>
    /\ pc' = [q \in Requests |-> IF q = r \/ pc[q] = "wait" THEN "done" ELSE pc[q]]
    /\ res' = [res EXCEPT ![r] = Answer("ok")]
    /\ UNCHANGED <<adapter, now, near>>

ClearFreecache(r) ==
    /\ adapter = "freecache" /\ Clears(r)
    /\ Removes(Keys) /\ Goes(r, "done", Answer("ok"))
    /\ UNCHANGED <<near, buffer>>

ClearRedis(r) ==
    /\ adapter = "redis" /\ Clears(r)
    /\ AskedOfServer(r, Removes(Keys)) /\ UNCHANGED <<near, buffer>>

ClearValkey(r) ==
    /\ adapter = "valkey" /\ Clears(r)
    /\ AskedOfServer(r, Removes(Keys)) /\ UNCHANGED <<near, buffer>>

-----------------------------------------------------------------------------
(***************************************************************************)
(* The clients, the servers and the clock.                                 *)
(***************************************************************************)
\* Ristretto processes its buffer in order. It may reject what it has no room
\* for.
Drain ==
    /\ buffer # <<>> /\ buffer' = Tail(buffer)
    /\ LET i == Head(buffer)
           k == req[i.of].key
       IN  IF i.wait
           THEN pc' = [pc EXCEPT ![i.of] = "done"] /\ UNCHANGED data
           ELSE /\ UNCHANGED pc
                /\ \/ data' = [data EXCEPT ![k] = i.entry]
                   \/ i.entry # NoEntry /\ UNCHANGED data
    /\ UNCHANGED <<adapter, now, near, req, res, life>>

\* The server tells valkey's client, when it gets to it, that a key has
\* changed. The client's entry may also have to make room.
Invalidate(k) ==
    /\ near[k] # NoEntry /\ near' = [near EXCEPT ![k] = NoEntry]
    /\ UNCHANGED <<adapter, now, data, buffer, pc, req, res, life>>

\* Any store may drop an entry to make room or because it has expired.
Evict(k) ==
    /\ data[k] # NoEntry /\ data' = [data EXCEPT ![k] = NoEntry]
    /\ UNCHANGED <<adapter, now, near, buffer, pc, req, res, life>>

Tick ==
    /\ now < MaxTime /\ now' = now + 1
    /\ UNCHANGED <<adapter, clientVars, pc, req, res, life>>

Finished ==
    /\ \A r \in Requests : pc[r] = "done"
    /\ UNCHANGED vars

Next ==
    \/ \E r \in Requests, k \in Keys :
          \/ GetRistretto(r, k) \/ GetFreecache(r, k) \/ GetRedis(r, k)
          \/ GetValkey(r, k)
          \/ GetValue(r, k)
          \/ SetRistretto(r, k) \/ SetFreecache(r, k) \/ SetRedis(r, k)
          \/ SetValkey(r, k)
          \/ DeleteRistretto(r, k) \/ DeleteFreecache(r, k) \/ DeleteRedis(r, k)
          \/ DeleteValkey(r, k)
          \/ Refuses(r, k)
    \/ \E r \in Requests :
          \/ ClearRistretto(r) \/ ClearFreecache(r) \/ ClearRedis(r)
          \/ ClearValkey(r)
          \/ GetTTL(r) \/ Fails(r)
    \/ Drain
    \/ \E k \in Keys : Invalidate(k) \/ Evict(k)
    \/ Tick
    \/ Finished

Spec == Init /\ [][Next]_vars

-----------------------------------------------------------------------------
(***************************************************************************)
(* Properties.                                                             *)
(***************************************************************************)
Time == 0..MaxTime
Entries == [val : Requests \cup {None}, until : Nat]

\* Types. A time to live below zero reaches no client, where it would mean
\* something else (to keep the old one, or for ever).
TypeOK ==
    /\ adapter \in Adapters /\ now \in Time
    /\ data \in [Keys -> Entries] /\ near \in [Keys -> Entries]
    /\ buffer \in Seq([of : Requests, entry : Entries, wait : BOOLEAN])
    /\ pc \in [Requests -> {"idle", "ttl", "wait", "done"}]
    /\ req \in [Requests ->
          [op : {"none", "Get", "GetWithTTL", "Set", "Delete", "Clear"},
           key : Keys \cup {None}, ttl : Nat, sync : BOOLEAN, raw : BOOLEAN]]
    /\ res \in [Requests ->
          [tag : {"none", "hit", "notfound", "ok", "error", "refused"},
           val : Requests \cup {None}, ttl : Int]]
    /\ life \in [Requests -> [until : Nat \cup {None}, over : Time \cup {None}]]

\* Freecache makes a part of a second for ever: the exception to what follows.
SubSecond(v) ==
    adapter = "freecache" /\ req[v].ttl > 0 /\ req[v].ttl < TicksPerSecond

\* A read in this step: r gets v.
Finding(r, v) == res[r].tag # "hit" /\ res'[r].tag = "hit" /\ res'[r].val = v

\* No value is found once its time to live has passed, wherever it is kept: in
\* the store, in a buffer, or at the client of a server.
NoValueOutlivesItsTTL ==
    [][\A r, v \in Requests : Finding(r, v) =>
        life[v].until = Forever \/ now < life[v].until \/ SubSecond(v)]_vars

\* Once a value has been overwritten, deleted or cleared, no read finds it,
\* with one exception: valkey's Get does for as long as clientSideCacheExpiration
\* at most, however late the server's notice is.
RemovedIsGone ==
    [][\A r, v \in Requests : Finding(r, v) =>
        \/ life[v].over = None
        \/ adapter = "valkey" /\ req'[r].op = "Get"
             /\ now < life[v].over + NearTTL]_vars

\* What GetWithTTL says of an entry that is still there is right: it never
\* promises more than is left, and 0 is for ever. If the entry has gone in the
\* meantime, 0 may be said of what has expired, and valkey may say less.
TTLTrue ==
    [][\A r \in Requests : pc[r] = "ttl" /\ res'[r].tag = "hit" /\ pc'[r] = "done" =>
        LET v == res'[r].val
            e == data[req[r].key]
            ttl == res'[r].ttl
        IN  IF e.val = v /\ Live(e)
            THEN /\ ttl >= 0
                 /\ ttl = 0 <=> life[v].until = Forever \/ SubSecond(v)
                 /\ ttl > 0 => now + ttl <= life[v].until
            ELSE ttl < 0 => adapter = "valkey" /\ ~Live(e)]_vars
=============================================================================
