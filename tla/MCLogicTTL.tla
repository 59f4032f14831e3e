------------------------------ MODULE MCLogicTTL ------------------------------
(***************************************************************************)
(* LogicTTL on small instances.  Expiry times have four bits: the last     *)
(* instant is 6, the clocks show 1 to 7, and what is more than 7 wraps.    *)
(***************************************************************************)
EXTENDS LogicTTL, TLC

Gzip(level) == [kind |-> "gzip", level |-> level, order |-> "LSB", width |-> 0]
LZW(order, width) == [kind |-> "lzw", level |-> 0, order |-> order, width |-> width]
Build(transforms, ttl, loader) ==
    [transforms |-> transforms, ttl |-> ttl, loader |-> loader]

SomeDeployments ==
    {[via |-> "typed", cfgs |-> {Build(<<>>, 1, TRUE), Build(<<>>, 7, TRUE)}],
     [via |-> "header",
      cfgs |-> {Build(<<Gzip(0)>>, 1, TRUE), Build(<<Gzip(0)>>, 7, TRUE)}],
     [via |-> "codec",
      cfgs |-> {Build(<<Gzip(0), LZW("other", 0)>>, 1, TRUE),
                Build(<<Gzip(9), LZW("LSB", 8)>>, 1, FALSE),
                Build(<<Gzip(0), LZW("MSB", 7)>>, 0, TRUE),
                Build(<<Gzip(10)>>, 0, TRUE)}]}

\* Processes are interchangeable.
Symmetry == Permutations(Processes)
=============================================================================
