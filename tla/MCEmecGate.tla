----------------------------- MODULE MCEmecGate -----------------------------
(***************************************************************************)
(* Two jobs, two institutions that two versions of the file list in        *)
(* opposite orders, of which the newer demotes them and adds an inactive   *)
(* third, and one row of `pem seed'.                                       *)
(***************************************************************************)
EXTENDS EmecGate, TLC

CONSTANTS p1, p2, c1, c2, c3, f1, old, new

Line(c, ativa, publica, cat) == [codigo |-> c, ativa |-> ativa, publica |-> publica, cat |-> cat]
OldFile == <<Line(c1, TRUE, TRUE, old), Line(c2, TRUE, TRUE, old)>>
NewFile == <<Line(c2, TRUE, FALSE, new), Line(c1, TRUE, FALSE, old), Line(c3, FALSE, TRUE, old)>>

MCSeedFiles   == {<<>>, OldFile, NewFile}
MCSeedBatches == {<<[key |-> f1, row |-> [ativa |-> TRUE, gratuita |-> FALSE, cat |-> old]]>>}
MCRowOrder    == c1 :> 1 @@ c2 :> 2 @@ c3 :> 3 @@ f1 :> 4
=============================================================================
