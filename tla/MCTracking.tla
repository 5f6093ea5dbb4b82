----------------------------- MODULE MCTracking -----------------------------
(* Options of CLIENT TRACKING for the model checker.                       *)
EXTENDS Tracking

CONSTANTS a, b, k1, k2

Plain == [bcast |-> FALSE, noloop |-> FALSE, opt |-> FALSE, prefixes |-> {}, redir |-> NoClient]

MCPrefixes == {{k1}}
MCOptions ==
  {Plain,
   [Plain EXCEPT !.noloop = TRUE, !.opt = TRUE],
   [Plain EXCEPT !.redir = b],
   [Plain EXCEPT !.bcast = TRUE, !.noloop = TRUE, !.prefixes = {{k1}}],
   [Plain EXCEPT !.bcast = TRUE, !.prefixes = {{k1}}]}
=============================================================================
