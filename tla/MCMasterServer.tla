--------------------------- MODULE MCMasterServer ---------------------------
(* Readings of one container for TLC: a CPU that was idle or whose system  *)
(* clock did not move, memory with either key of the page cache, the cache *)
(* once larger than the usage, and a container without a limit.            *)
EXTENDS MasterServer

CONSTANTS w1, a

MCCpuStats ==
    {[total |-> 5, preTotal |-> 5, system |-> 40, preSystem |-> 0, online |-> 4],
     [total |-> 5, preTotal |-> 0, system |-> 40, preSystem |-> 40, online |-> 4]}

MCMemStats ==
    {[usage |-> 200, limit |-> 256, stats |-> ("inactive_file" :> 72)],
     [usage |-> 60, limit |-> 256, stats |-> ("total_inactive_file" :> 64)],
     [usage |-> 60, limit |-> 0, stats |-> <<>>]}
=============================================================================
