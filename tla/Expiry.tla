-------------------------------- MODULE Expiry --------------------------------
(***************************************************************************)
(* What logical expiry promises, whatever an entry is stored as: an entry  *)
(* has a deadline, and a read that answers with it says whether the        *)
(* deadline has passed.  Deadlines are set and read by the clocks of       *)
(* processes, which are off the true time by Skew at most.                 *)
(*                                                                         *)
(* An entry is known by when it was written and for how long: `at` and     *)
(* `ttl` are what really happened, `deadline` is what readers go by.       *)
(***************************************************************************)
EXTENDS Clocks

CONSTANTS
    Places,         \* where an entry may be
    None            \* no process, no place

\* Logical times to live; 0 is for ever.
TTLs == 0 .. Half - 1

VARIABLES
    now,        \* the true time
    offset,     \* offset[p]: how far the clock of p is off
    entry,      \* entry[x]: the entry at place x
    told        \* what the last step answered: by whom, from where, and how

vars == <<now, offset, entry, told>>

Telling(p, x, v) == [by |-> p, from |-> x, verdict |-> v]
Nothing == Telling(None, None, "none")

\* What is at a place where there is no entry.
Absent == [at |-> 0, ttl |-> 0, deadline |-> 0]

Clock(p) == now + offset[p]

\* A deadline for which there is no room is none.
Deadline(t) == IF t >= Half THEN 0 ELSE t

Written(p, ttl) ==
    [at |-> now, ttl |-> ttl,
     deadline |-> IF ttl = 0 THEN 0 ELSE Deadline(Clock(p) + ttl)]

Expired(p, e) == e.deadline # 0 /\ Clock(p) > e.deadline

Init ==
    /\ now = Start
    /\ offset \in [Processes -> -Skew .. Skew]
    /\ entry = [x \in Places |-> Absent]
    /\ told = Nothing

\* p writes an entry.
Write(p, x, ttl) ==
    /\ told' = Nothing
    /\ UNCHANGED <<now, offset>>
    /\ entry' = [entry EXCEPT ![x] = Written(p, ttl)]

\* An entry is deleted, or drops out.
Remove(x) ==
    /\ entry' = [entry EXCEPT ![x] = Absent]
    /\ told' = Nothing
    /\ UNCHANGED <<now, offset>>

\* p reads an entry and goes by its deadline.
Tell(p, x) ==
    /\ entry[x] # Absent
    /\ told' = Telling(p, x, IF Expired(p, entry[x]) THEN "expired" ELSE "fresh")
    /\ UNCHANGED <<now, offset, entry>>

\* p is told of no entry.
TellNothing == told' = Nothing /\ UNCHANGED <<now, offset, entry>>

\* Time goes on, and clocks are adjusted.
Pass ==
    /\ now' \in now .. MaxTime
    /\ offset' \in [Processes -> -Skew .. Skew]
    /\ told' = Nothing
    /\ UNCHANGED entry

Next ==
    \/ \E p \in Processes, x \in Places :
         Tell(p, x) \/ \E ttl \in TTLs : Write(p, x, ttl)
    \/ \E x \in Places : Remove(x)
    \/ TellNothing
    \/ Pass

Spec == Init /\ [][Next]_vars

-----------------------------------------------------------------------------

Entry == [at : Start .. MaxTime, ttl : TTLs, deadline : 0 .. Half - 1]

TypeOK ==
    /\ now \in Start .. MaxTime
    /\ offset \in [Processes -> -Skew .. Skew]
    /\ entry \in [Places -> Entry \cup {Absent}]
    /\ told \in {Nothing} \cup [by : Processes, from : Places, verdict : {"fresh", "expired"}]

\* A deadline is what it should be, but for the clock it was set by.
DeadlineTrue(e) ==
    LET due == e.at + e.ttl
    IN  IF e.ttl = 0 THEN e.deadline = 0
        ELSE \/ e.deadline > 0 /\ e.deadline \in due - Skew .. due + Skew
             \/ e.deadline = 0 /\ Half <= due + Skew

DeadlinesTrue == \A x \in Places : entry[x] # Absent => DeadlineTrue(entry[x])

\* What a read answers as fresh is not older than its time to live, and what
\* it answers as expired is, up to the two clocks involved: that of who wrote
\* the entry and that of who reads it.
ExpiryHonoured ==
    told.verdict # "none" =>
        LET e == entry[told.from]
            age == now - e.at
        IN  /\ told.verdict = "fresh" => e.ttl = 0 \/ age <= e.ttl + 2 * Skew
            /\ told.verdict = "expired" => e.ttl > 0 /\ age > e.ttl - 2 * Skew
=============================================================================
