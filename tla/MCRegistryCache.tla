-------------------------- MODULE MCRegistryCache --------------------------
(***************************************************************************)
(* Two scans that share a cache, through two expiries of its entries.      *)
(***************************************************************************)
EXTENDS RegistryCache, TLC

CONSTANTS First, Second

MCScans == {First, Second}
Exchange == Permutations(MCScans)
=============================================================================
