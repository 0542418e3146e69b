--------------------------- MODULE MCPPPoESession ---------------------------
(***************************************************************************)
(* PPPoESession for TLC: one subscriber whose sessions get an address from *)
(* the pool, and one to whom AAA assigns a fixed one out of the same pool. *)
(***************************************************************************)
EXTENDS PPPoESession, TLC

CONSTANTS k1, k2

MCFramed == [k \in Key |-> IF k = k2 THEN 1 ELSE 0]

Sym == Permutations(Session)
=============================================================================
