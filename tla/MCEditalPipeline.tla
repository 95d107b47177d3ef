-------------------------- MODULE MCEditalPipeline --------------------------
(***************************************************************************)
(* A small instance: 3-bit simhashes of which the signed column holds 0..3 *)
(* as they are, one bit of tolerance, and subscribers some of whom accept  *)
(* only part of the attributes.                                            *)
(***************************************************************************)
EXTENDS EditalPipeline, TLC

CONSTANTS w1, w2, h1, wide, narrow, s1, s2

MCAccepted == wide :> {s1, s2} @@ narrow :> {s2}

It(h, sim, attr) == [hash |-> h, sim |-> sim, attr |-> attr, oversize |-> {}]
Long(item, column) == [item EXCEPT !.oversize = {column}]
\* 0 -> 1 -> 3 -> 7 is a chain of cosmetic changes, 0 -> 3 a material one, and
\* 7 does not fit the signed column as it is.
OneEdital == {It(h1, 0, wide), It(h1, 1, narrow), It(h1, 3, wide), It(h1, 7, wide)}
\* Two material changes of each other that fit on an update, which a deadlock needs,
\* the first with a title too long for an INSERT; and a draft with the top bit, one
\* bit from the first and three from the second.
ThreeDrafts == {Long(It(h1, 1, narrow), "titulo"), It(h1, 2, wide), It(h1, 5, narrow)}
=============================================================================
