---------------------------- MODULE MCHttpFetch -----------------------------
(***************************************************************************)
(* Two fetches of one host, two failures to open the circuit.              *)
(***************************************************************************)
EXTENDS HttpFetch, TLC

CONSTANTS f1, f2

FetcherSymmetry == Permutations(Fetchers)
=============================================================================
