----------------------------- MODULE MatchRules -----------------------------
(***************************************************************************)
(* The decisions of the pipeline about one item: the area of the rules     *)
(* classifier, the institution of the table and of the whitelist, and the  *)
(* score of the match engine (weights in hundredths).                      *)
(***************************************************************************)
EXTENDS Integers, Sequences, FiniteSets, SequencesExt, Sifting

CONSTANTS
    Areas,         \* the area codes in the order of _KEYWORDS
    KeywordsOf,    \* the keywords of each
    OpenToCS,      \* ACEITAM_BACHAREIS_CC
    Institutions,  \* codigo_emec -> sigla and nome in table ies
    Within,        \* <<a, b>> when the normalised name a is a substring of b
    Subs,          \* the active subscribers
    Profiles       \* their profiles

ASSUME RulesAssumption == Areas \in Seq(DOMAIN KeywordsOf)

\* RulesClassifier.classify: the area with the most keywords, the first of them
\* when several have as many.
Hits(c, words) == Cardinality(KeywordsOf[c] \cap words)

AreaOf(words, none) ==
    LET best == Sift(Areas, {c \in ToSet(Areas) :
                               /\ Hits(c, words) > 0
                               /\ \A d \in ToSet(Areas) : Hits(d, words) <= Hits(c, words)})
    IN IF best = <<>> THEN none ELSE best[1]

\* IESRepository.find_by_sigla_or_nome: the name asked for is a part of the one
\* stored.  More than one row raises MultipleResultsFound.
FoundIes(q) ==
    {c \in DOMAIN Institutions : Institutions[c].sigla = q \/ <<q, Institutions[c].nome>> \in Within}

\* EmecWhitelist.contains: a token of an eligible institution is a part of the
\* name asked for.
Admits(wl, q) ==
    \E c \in wl : <<Institutions[c].sigla, q>> \in Within \/ <<Institutions[c].nome, q>> \in Within

Contribution(alvo, area) ==
    IF alvo.area = area /\ (alvo.modo = "exact" \/ ~ alvo.requer_aceita_cs \/ area \in OpenToCS)
    THEN alvo.peso ELSE 0

Score(profile, area) ==
    FoldLeft(LAMBDA sum, alvo : sum + Contribution(alvo, area), 0, profile.areas_alvo)

\* MatchEngine.evaluate on a stored edital, the name its page gives the
\* institution and a profile: the hard filters, then the score.
Matched(row, ies, wl, profile) ==
    /\ profile.apenas_gratuitos => row.gratuito
    /\ profile.apenas_ies_emec_publicas => Admits(wl, ies)
    /\ row.nivel \in profile.niveis_aceitos
    /\ row.modalidade \in profile.modalidades_aceitas
    /\ Score(profile, row.area) >= profile.score_minimo
=============================================================================
