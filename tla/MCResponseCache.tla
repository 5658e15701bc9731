--------------------------- MODULE MCResponseCache ---------------------------
(***************************************************************************)
(* ResponseCache for TLC: two servers, which share nothing but the cache   *)
(* table and are interchangeable.                                          *)
(***************************************************************************)
EXTENDS ResponseCache, TLC

ServerSymmetry == Permutations(Servers)
=============================================================================
