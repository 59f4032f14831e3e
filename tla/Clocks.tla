-------------------------------- MODULE Clocks --------------------------------
(***************************************************************************)
(* The parameters of logical expiry: processes, whose clocks are off the   *)
(* true time by Skew at most, and expiry times of limited width.           *)
(***************************************************************************)
EXTENDS Integers

CONSTANTS
    Processes,      \* programs that share entries
    Half,           \* expiry times are integers from -Half to Half - 1
    Start, MaxTime, \* the first and the last instant
    Skew            \* bound: how far a clock is off

\* What clocks show is later than 0, which is no time, and fits.
ASSUME TimeAssumption ==
    /\ Start \in Nat /\ MaxTime \in Nat /\ Skew \in Nat /\ Half \in Nat
    /\ Skew < Start /\ Start <= MaxTime
    /\ MaxTime + Skew < Half
=============================================================================
