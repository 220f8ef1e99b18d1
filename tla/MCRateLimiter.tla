----------------------------- MODULE MCRateLimiter -----------------------------
(* RateLimiter for TLC: concurrent requests are interchangeable, and every *)
(* subject has the same rate, a token in two instants.                     *)
EXTENDS RateLimiter, TLC

RequestSymmetry == Permutations(Request)
TwoInstants == [s \in Subject |-> 2]
================================================================================
