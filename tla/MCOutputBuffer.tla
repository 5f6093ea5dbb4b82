--------------------------- MODULE MCOutputBuffer ---------------------------
(* OutputBuffer for TLC.  Addresses are only compared, so they are symmetric. *)
EXTENDS OutputBuffer

AddrSymmetry == Permutations(Addrs)
=============================================================================
