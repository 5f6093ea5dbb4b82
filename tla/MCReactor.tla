------------------------------ MODULE MCReactor ------------------------------
(* Reactor for TLC: the cfg file gives the constants their values.           *)
EXTENDS Reactor

\* The requests each connection brings.
TwoThenOne == [c \in Conns |-> IF c = 1 THEN 2 ELSE 1]
=============================================================================
