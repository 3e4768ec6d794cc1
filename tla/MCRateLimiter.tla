---------------------------- MODULE MCRateLimiter -----------------------------
(***************************************************************************)
(* A limit of one submission in two seconds, one with a burst on top, one  *)
(* of two submissions in two seconds, and one with no window, which        *)
(* add_rate_limit refuses.                                                 *)
(***************************************************************************)
EXTENDS RateLimiter, TLC

Limit(max, window, burst) ==
    [max_submissions |-> max, window_s |-> window, burst |-> burst]

MCRateLimits == {Limit(1, 2, 0), Limit(1, 2, 1), Limit(2, 2, 0), Limit(1, 0, 0)}

MCFewRateLimits == {Limit(1, 2, 1), Limit(2, 2, 0)}

Symmetry == Permutations(Tenants)
=============================================================================
