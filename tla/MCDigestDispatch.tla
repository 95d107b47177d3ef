-------------------------- MODULE MCDigestDispatch --------------------------
(***************************************************************************)
(* Two dispatchers, two subscribers with a match each, and a second match  *)
(* of the first for the runs that need one.                                *)
(***************************************************************************)
EXTENDS DigestDispatch, TLC

CONSTANTS d1, d2, s1, s2, m1, m2, m3

MCOwner == [m \in Matches |-> IF m = m3 THEN s2 ELSE s1]
MCScore == [m \in Matches |-> IF m = m1 THEN 2 ELSE 1]
DispatcherSymmetry == Permutations({d1, d2})
=============================================================================
