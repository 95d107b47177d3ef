--------------------------- MODULE MCRateLimiter ----------------------------
(***************************************************************************)
(* A bucket of two requests that yields two requests every three ticks, so *)
(* that waits are rounded up, and a worker whose clock is ahead.           *)
(***************************************************************************)
EXTENDS RateLimiter, TLC

CONSTANTS c1, c2

OneFast == [c \in Callers |-> IF c = c1 THEN 1 ELSE 0]
=============================================================================
