------------------------------ MODULE MCAuthCache ------------------------------
(* AuthCache for TLC: concurrent lookups are interchangeable. *)
EXTENDS AuthCache, TLC

LookupSymmetry == Permutations(Lookup)
================================================================================
