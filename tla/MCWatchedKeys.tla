--------------------------- MODULE MCWatchedKeys ---------------------------
(* WatchedKeys for TLC: two databases that SWAPDB exchanges.               *)
EXTENDS WatchedKeys

CONSTANTS d1, d2

MCCommands ==
  [op: {"set", "del", "get"}, key: Keys]
    \cup {[op |-> "flushdb"], [op |-> "unwatch"],
          [op |-> "select", db |-> d2], [op |-> "swapdb", db |-> d1, with |-> d2]}

Symmetry == Permutations(Clients)
=============================================================================
