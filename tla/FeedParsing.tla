---------------------------- MODULE FeedParsing ----------------------------
(***************************************************************************)
(* What a PPGWordPressSpider makes of a response, and the LLM of an item.  *)
(* A text is the sequence of the words and dates its regular expressions   *)
(* look for: a level is written as the Nivel it stands for, a date as a    *)
(* token that DayOf gives a day when it is one of the calendar.            *)
(***************************************************************************)
EXTENDS Integers, Sequences, FiniteSets, SequencesExt, Sifting

CONSTANTS
    Ascii,       \* the words, each with its form in normalize_to_ascii
    AsciiName,   \* and the names of institutions a page or the LLM may give
    DayOf,       \* the dates of the calendar among them, with their day
    Relevant,    \* the words of _RELEVANCE_RE
    Before,      \* words of the window before and after the keyword, and of
    After,       \* the window when there is no keyword
    HeadLen,
    Limit,       \* items of one feed: 20
    Threshold,   \* llm_confidence_threshold, in hundredths
    None         \* an absent value

Days        == {DayOf[w] : w \in DOMAIN DayOf}
Niveis      == <<"mba", "mestrado_profissional", "mestrado_academico", "doutorado",
                 "especializacao">>
Modalidades == <<"uab", "semipresencial", "ead", "presencial">>
NivelValues      == ToSet(Niveis) \cup {"desconhecido"}
ModalidadeValues == ToSet(Modalidades) \cup {"desconhecida"}
Periodo          == [de : Days \cup {None}, ate : Days \cup {None}]
Texts            == Seq(DOMAIN Ascii)
Names            == DOMAIN AsciiName

\* A response by its content type, with the entries the parser finds in it.
Entry       == [title : Texts, text : Texts, link : STRING, fits : BOOLEAN]
RawResponse == [kind : {"rss", "html", "other"}, ies : Names,
                entries : Seq(Entry), anchors : Seq(Entry)]

ASSUME ParsingAssumption ==
    /\ DOMAIN DayOf \subseteq DOMAIN Ascii
    /\ \A w \in DOMAIN DayOf : DayOf[w] \in Nat
    /\ {Before, After, HeadLen, Limit, Threshold} \subseteq Nat

-----------------------------------------------------------------------------
(* Fields of a text                                                        *)

\* The first of a list of alternatives that occurs in a text.
FirstOf(order, text, otherwise) ==
    LET hits == Sift(order, ToSet(text))
    IN IF hits = <<>> THEN otherwise ELSE hits[1]

\* Nivel.from_text: the title first, then the text.
NivelOf(text, title) ==
    LET inTitle == FirstOf(Niveis, title, "desconhecido")
    IN IF inTitle # "desconhecido" THEN inTitle ELSE FirstOf(Niveis, text, "desconhecido")

ModalidadeOf(text) == FirstOf(Modalidades, text, "desconhecida")

\* The part of a text extract_periodo_inscricao looks at: around the first
\* occurrence of the first keyword it has, or its head.
Window(text) ==
    LET key == FirstOf(<<"inscric", "prazo", "periodo de inscri", "submissao">>, text, None)
        i   == CHOOSE n \in DOMAIN text :
                 text[n] = key /\ \A m \in DOMAIN text : text[m] = key => n <= m
    IN IF key = None THEN SubSeq(text, 1, IF Len(text) < HeadLen THEN Len(text) ELSE HeadLen)
       ELSE SubSeq(text, IF i > Before THEN i - Before ELSE 1,
                         IF i + After < Len(text) THEN i + After ELSE Len(text))

\* The first two dates of the window; a single one is an end after `ate', `limite'
\* or `prazo', wherever the word stands, else a beginning.
PeriodoOf(text) ==
    LET win   == Window(text)
        dates == Sift(win, DOMAIN DayOf)
        ends  == ToSet(win) \cap {"ate", "limite", "prazo"} # {}
    IN CASE Len(dates) = 0          -> None
         [] Len(dates) = 1 /\ ends   -> [de |-> None, ate |-> DayOf[dates[1]]]
         [] Len(dates) = 1 /\ ~ ends -> [de |-> DayOf[dates[1]], ate |-> None]
         [] Len(dates) > 1          -> [de |-> DayOf[dates[1]], ate |-> DayOf[dates[2]]]

\* PeriodoInscricao.__post_init__ refuses it: `de' after `ate'.
NeverInverted(periodo) == FALSE
Inverted(periodo) ==
    periodo # None /\ periodo.de # None /\ periodo.ate # None /\ periodo.de > periodo.ate

-----------------------------------------------------------------------------
(* The items of a response                                                 *)

Item(e, ies, modalidade, periodo, text, confidence) ==
    [titulo |-> e.title, ies |-> ies, link |-> e.link, text |-> text, area |-> <<>>,
     nivel |-> NivelOf(text, e.title), modalidade |-> modalidade, periodo |-> periodo,
     gratuito |-> TRUE, confidence |-> confidence, enriched |-> FALSE]

RssItem(e, ies) ==
    LET found == ModalidadeOf(e.title \o e.text)
        p     == PeriodoOf(e.text)
    IN Item(e, ies, IF found = "desconhecida" THEN "presencial" ELSE found, p, e.text,
            IF p # None THEN 55 ELSE 40)

ArticleItem(e, ies) ==
    LET p == PeriodoOf(e.text)
    IN Item(e, ies, ModalidadeOf(e.text), p, e.text, IF p # None THEN 45 ELSE 30)

AnchorItem(e, ies) == Item(e, ies, ModalidadeOf(e.title), None, e.title, 35)

Chosen(entries) == Sift(entries, {e \in Entry : ToSet(e.title) \cap Relevant # {}})

\* The anchors by their address; a text is 8 to 200 characters long.
Distinct(anchors) ==
    LET fit    == Sift(anchors, {a \in Entry : a.fits})
        firsts == {i \in DOMAIN fit : \A j \in 1 .. i - 1 : fit[j].link # fit[i].link}
        places == Sift([i \in DOMAIN fit |-> i], firsts)
    IN [k \in DOMAIN places |-> fit[places[k]]]

FirstItems(s) == SubSeq(s, 1, IF Len(s) < Limit THEN Len(s) ELSE Limit)

\* parse_response, as the sequence of what it yields; building an item whose
\* period is inverted raises and ends it.
Yields(r) ==
    LET articles == Chosen(r.entries)
        anchors  == Distinct(Chosen(r.anchors))
    IN CASE r.kind = "rss" ->
              FirstItems([i \in DOMAIN articles |-> RssItem(articles[i], r.ies)])
         [] r.kind = "html" /\ articles # <<>> ->
              FirstItems([i \in DOMAIN articles |-> ArticleItem(articles[i], r.ies)])
         [] r.kind = "html" /\ articles = <<>> ->
              FirstItems([i \in DOMAIN anchors |-> AnchorItem(anchors[i], r.ies)])
         [] OTHER -> <<>>

-----------------------------------------------------------------------------
(* LLMEditalEnricher.enrich on the fields of an answer, None when it is    *)
(* null: whatever is there overwrites, `desconhecido' included.            *)

Or(value, otherwise) == IF value # None THEN value ELSE otherwise

EnrichRaises(a) == a.confidence = None \/ Inverted(a.periodo)

\* A period without dates counts as none.
Enriched(item, a) ==
    [item EXCEPT !.titulo     = Or(a.titulo, @),
                 !.ies        = Or(a.ies, @),
                 !.nivel      = Or(a.nivel, @),
                 !.modalidade = Or(a.modalidade, @),
                 !.area       = Or(a.area, @),
                 !.gratuito   = Or(a.gratuito, @),
                 !.periodo    = IF a.periodo = None \/ a.periodo = [de |-> None, ate |-> None]
                                THEN @ ELSE a.periodo,
                 !.enriched   = TRUE]

-----------------------------------------------------------------------------
(* canonical_hash; all the items here are of one fonte_codigo.             *)

Normalized(text) == [i \in DOMAIN text |-> Ascii[text[i]]]

KeyAsWritten(item) ==
    [titulo |-> item.titulo, ies |-> item.ies, nivel |-> item.nivel,
     modalidade |-> item.modalidade, periodo |-> item.periodo]

CanonicalHash(item) ==
    [titulo |-> Normalized(item.titulo), ies |-> AsciiName[item.ies], nivel |-> item.nivel,
     modalidade |-> item.modalidade, periodo |-> item.periodo]
=============================================================================
