-------------------------- MODULE MCBlockedClients --------------------------
(* BlockedClients for TLC: commands that get into each other's way, a pop     *)
(* from both keys, a move between them, and a group reader.                   *)
EXTENDS BlockedClients

CONSTANTS k1, k2

PopBoth == [op |-> "blpop", keys |-> <<k1, k2>>, wait |-> 1]
Move == [op |-> "blmove", keys |-> <<k2>>, dst |-> k1, wait |-> Forever]
Read == [op |-> "xreadgroup", keys |-> <<k1>>, wait |-> 1]
PopTimed == [op |-> "blpop", keys |-> <<k1>>, wait |-> 1]

MCCommands == {PopBoth, Move, Read}
MCPiped == {PopBoth}
LiveCommands == {PopTimed, Read}
LivePiped == {PopTimed}

ClientSymmetry == Permutations(Clients)
=============================================================================
