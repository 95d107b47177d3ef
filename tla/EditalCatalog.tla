---------------------------- MODULE EditalCatalog ----------------------------
(***************************************************************************)
(* What the pipeline promises about the database, as if each item were     *)
(* handled in one indivisible step: an edital appears once, together with  *)
(* the matches of the subscribers it was scored for; later scrapes may     *)
(* replace its fingerprint and add accepted matches, never its attributes, *)
(* never remove anything.  EditalPipeline implements it.                   *)
(***************************************************************************)
CONSTANTS Hashes, Fingerprints, Attrs, Subs, Accepted, None

VARIABLES
    edital,   \* canonical hash -> stored row
    matches   \* canonical hash -> subscribers with a match record

catalog == <<edital, matches>>

Init ==
    /\ edital = [h \in Hashes |-> None]
    /\ matches = [h \in Hashes |-> {}]

\* A first scrape stores the edital and every match due to the subscribers
\* listed, in one step.
Store(h, sim, attr, listed) ==
    /\ edital[h] = None
    /\ edital' = [edital EXCEPT ![h] = [sim |-> sim, attr |-> attr]]
    /\ matches' = [matches EXCEPT ![h] = listed \cap Accepted[attr]]

\* A later scrape replaces the fingerprint and may add matches; it judges them
\* by the attributes already stored.
Revise(h, sim, new) ==
    /\ edital[h] # None
    /\ new \subseteq Accepted[edital[h].attr] \ matches[h]
    /\ edital' = [edital EXCEPT ![h].sim = sim]
    /\ matches' = [matches EXCEPT ![h] = @ \cup new]

Next ==
    \E h \in Hashes, sim \in Fingerprints, S \in SUBSET Subs :
        \/ \E attr \in Attrs : Store(h, sim, attr, S)
        \/ Revise(h, sim, S)

Spec == Init /\ [][Next]_catalog
=============================================================================
