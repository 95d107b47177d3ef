-------------------------- MODULE MCEditalListing --------------------------
(* One spider; an edital whose title changes its accents and whose text     *)
(* changes its area, one with its dates the wrong way round, one with an    *)
(* end only; institutions of which one's name is part of the other's, one   *)
(* of them named with an accent by the LLM.                                 *)
EXTENDS EditalListing

Vocabulary == {"selecao", "edital", "mestrado_academico", "mba", "ead", "inscric", "ate",
          "d1", "d2", "d3", "computacao", "geologia"}
MCAscii == [w \in Vocabulary \cup {"sele~ao"} |-> IF w = "sele~ao" THEN "selecao" ELSE w]
MCAsciiName == [n \in {"UFA", "UF'A", "univ"} |-> IF n = "univ" THEN "univ" ELSE "ufa"]
MCDayOf == [d1 |-> 1, d2 |-> 2, d3 |-> 3]
MCRelevant == {"selecao", "sele~ao", "edital", "mba"}

AnEntry(title, text, link) == [title |-> title, text |-> text, link |-> link, fits |-> TRUE]
Open    == AnEntry(<<"selecao", "mestrado_academico">>, <<"inscric", "d1", "d3", "ead", "computacao">>, "p")
Edited  == AnEntry(<<"sele~ao", "mestrado_academico">>, <<"inscric", "d1", "d3", "ead", "geologia">>, "p")
Accented == AnEntry(Edited.title, Open.text, "p")
Wrong   == AnEntry(<<"edital", "mestrado_academico">>, <<"inscric", "d3", "d1">>, "q")
Ends    == AnEntry(<<"edital", "mba">>, <<"ate", "d2", "computacao">>, "r")
NotOne  == AnEntry(<<"ead">>, <<"inscric", "d1">>, "s")
Page(kind, entries, anchors) ==
    [kind |-> kind, ies |-> "UFA", entries |-> entries, anchors |-> anchors]

MCResponses == {Page("rss", <<Open, NotOne, Ends>>, <<>>), Page("rss", <<Edited, Wrong, Ends>>, <<>>),
                Page("html", <<NotOne, Accented>>, <<Ends>>), Page("html", <<NotOne>>, <<Ends, Ends>>),
                Page("other", <<>>, <<>>)}

Answer == [titulo |-> None, ies |-> None, nivel |-> None, modalidade |-> None, area |-> None,
           gratuito |-> None, periodo |-> None, confidence |-> 70]
MCAnswers == {[Answer EXCEPT !.gratuito = FALSE, !.ies = "UF'A"], [Answer EXCEPT !.nivel = "desconhecido"],
              [Answer EXCEPT !.ies = "univ"], [Answer EXCEPT !.confidence = None], [Answer EXCEPT !.periodo = [de |-> 3, ate |-> 1]]}

MCInstitutions == [a |-> [sigla |-> "UFA", nome |-> "univ"], b |-> [sigla |-> "UFB", nome |-> "univ b"]]
MCWithin == {<<"UFA", "UFA">>, <<"UFA", "UF'A">>, <<"univ", "univ">>, <<"univ", "univ b">>}
MCWhitelists == {{}, {"a", "b"}}
MCAreas == <<"cc", "geo">>
MCKeywordsOf == [cc |-> {"computacao"}, geo |-> {"geologia"}]
MCOpenToCS == {"cc"}

Profile == [apenas_gratuitos |-> TRUE, apenas_ies_emec_publicas |-> TRUE,
            niveis_aceitos |-> {"mba", "mestrado_academico"},
            modalidades_aceitas |-> {"presencial", "ead"}, score_minimo |-> 70,
            areas_alvo |-> <<[area |-> "cc", modo |-> "exact", peso |-> 100, requer_aceita_cs |-> FALSE]>>]
Lenient == [Profile EXCEPT !.apenas_gratuitos = FALSE, !.apenas_ies_emec_publicas = FALSE,
            !.areas_alvo = <<[area |-> "geo", modo |-> "exact", peso |-> 50, requer_aceita_cs |-> FALSE],
                             [area |-> "geo", modo |-> "cross_discipline", peso |-> 30, requer_aceita_cs |-> FALSE],
                             [area |-> "geo", modo |-> "cross_discipline", peso |-> 90, requer_aceita_cs |-> TRUE]>>,
            !.score_minimo = 80]
MCProfiles == [strict |-> Profile, lenient |-> Lenient]
MCSubs == DOMAIN MCProfiles

ASSUME OneTitleAPage == TitlesStable
=============================================================================
