---------------------------- MODULE ItemReading ----------------------------
(***************************************************************************)
(* What the pipeline makes of the pages of one spider, feed after feed:    *)
(* the items read by the parser, changed by the LLM, keyed, classified,    *)
(* stored and matched.  Each item is one transaction of a single slot; the *)
(* interleaving of several is EditalPipeline's subject.                    *)
(***************************************************************************)
EXTENDS FeedParsing, MatchRules

CONSTANTS
    Responses,   \* what the source may answer
    Answers,     \* what the LLM may answer
    Whitelists,  \* the eligible institutions of a run
    MaxFeeds     \* bound on the feeds read

AreaAlvo          == [area : STRING, modo : {"exact", "cross_discipline"}, peso : Nat,
                      requer_aceita_cs : BOOLEAN]
SubscriberProfile == [areas_alvo : Seq(AreaAlvo), score_minimo : Nat,
                      niveis_aceitos : SUBSET NivelValues,
                      modalidades_aceitas : SUBSET ModalidadeValues,
                      apenas_gratuitos : BOOLEAN, apenas_ies_emec_publicas : BOOLEAN]

\* ParsedEdital, and what the LLM answers, with None where it has nothing to say.
ItemType == [titulo : Texts, ies : Names, link : STRING, text : Texts, area : Texts,
             nivel : NivelValues, modalidade : ModalidadeValues, periodo : Periodo \cup {None},
             gratuito : BOOLEAN, confidence : 0 .. 100, enriched : BOOLEAN]
AnswerType == [titulo : Texts \cup {None}, ies : Names \cup {None}, area : Texts \cup {None},
               nivel : NivelValues \cup {None}, modalidade : ModalidadeValues \cup {None},
               periodo : Periodo \cup {None}, gratuito : BOOLEAN \cup {None},
               confidence : 0 .. 100 \cup {None}]

ASSUME ReadingAssumption ==
    /\ Profiles \in [Subs -> SubscriberProfile]
    /\ Responses \subseteq RawResponse
    /\ Answers \subseteq AnswerType
    /\ MaxFeeds \in Nat
    /\ None \notin ItemType
    /\ \A eligible \in Whitelists : eligible \subseteq DOMAIN Institutions

VARIABLES
    feed,     \* the items the generator has still to yield
    item,     \* the one in hand, None between two
    wl,       \* the whitelist the orchestrator was built with
    rows,     \* table editais: canonical hash -> row; `enriched' is history, and
              \*   `text' what the simhash was computed from
    matches,  \* table matches, with the name and the whitelist that admitted each
    feeds,    \* feeds begun
    due,      \* history: what the last feed promised, what of it is stored,
    taken,    \*   whether it has pushed a dead letter, and what went wrong
    letter,   \*   beside its items
    mishap

\* Of a feed: the push of its letter raised, its process was stopped, or a commit of
\* its own was not acknowledged.
Mishaps     == {"none", "push", "stop", "commit"}
tables      == <<rows, matches>>
readingVars == <<feed, item, wl, rows, matches, feeds, due, taken, letter, mishap>>

ReadingInit ==
    /\ feed = <<>>
    /\ item = None
    /\ wl = {}
    /\ rows = [k \in {} |-> None]
    /\ matches = {}
    /\ feeds = 0
    /\ due = 0
    /\ taken = 0
    /\ letter = FALSE
    /\ mishap = "none"

\* A response has come back to _process_url.
BeginFeed(r, eligible) ==
    /\ feed = <<>> /\ item = None
    /\ feeds < MaxFeeds
    /\ feeds' = feeds + 1
    /\ feed' = Yields(r)
    /\ due' = Len(Yields(r))
    /\ taken' = 0
    /\ letter' = FALSE
    /\ mishap' = "none"
    /\ wl' = eligible
    /\ UNCHANGED <<item, tables>>

\* The handler of _process_url pushes a letter, which may raise in its turn.
Handled(what) ==
    \/ letter' = TRUE /\ mishap' = what
    \/ letter' = letter /\ mishap' = "push"

\* An exception ends the generator, and with it the feed.
GiveUpItemOnly ==
    /\ item' = None
    /\ feed' = IF item = None THEN Tail(feed) ELSE feed
    /\ UNCHANGED <<wl, tables, feeds, due, taken, letter, mishap>>

GiveUp ==
    /\ item' = None
    /\ feed' = <<>>
    /\ Handled(mishap)
    /\ UNCHANGED <<wl, tables, feeds, due, taken>>

\* The process dies or the task is cancelled: no handler runs.
Stopped ==
    /\ item # None \/ feed # <<>>
    /\ item' = None
    /\ feed' = <<>>
    /\ mishap' = "stop"
    /\ UNCHANGED <<wl, tables, feeds, due, taken, letter>>

ItemRaises ==
    /\ item = None /\ feed # <<>>
    /\ Inverted(Head(feed).periodo)
    /\ GiveUp

Take(i) ==
    /\ item' = i
    /\ feed' = Tail(feed)
    /\ UNCHANGED <<wl, tables, feeds, due, taken, letter, mishap>>

\* Confident enough, or no LLM, or no answer of it that parses.
NextItem ==
    /\ item = None /\ feed # <<>>
    /\ ~ Inverted(Head(feed).periodo)
    /\ Take(Head(feed))

EnrichItem(a) ==
    /\ item = None /\ feed # <<>>
    /\ ~ Inverted(Head(feed).periodo)
    /\ Head(feed).confidence < Threshold
    /\ IF EnrichRaises(a) THEN GiveUp ELSE Take(Enriched(Head(feed), a))

-----------------------------------------------------------------------------
(* _process_parsed, from the hashes to the commit                          *)

Key     == CanonicalHash(item)
IesRow  == FoundIes(item.ies)
Words   == ToSet(Normalized(item.titulo \o item.text \o item.area))
Summary == IF item.text = <<>> THEN item.titulo ELSE item.text
NewRow  == [nivel |-> item.nivel, modalidade |-> item.modalidade, periodo |-> item.periodo,
            area |-> AreaOf(Words, None), gratuito |-> item.gratuito,
            ies |-> IF IesRow = {} THEN None ELSE CHOOSE c \in IesRow : TRUE,
            titulo |-> item.titulo, text |-> Summary, link |-> item.link,
            enriched |-> item.enriched]

Interested(row) == {s \in Subs : Matched(row, item.ies, wl, Profiles[s])}
Records(ss)     == {[key |-> Key, ies |-> item.ies, sub |-> s, wl |-> wl] : s \in ss}
HasMatch(s)     == \E m \in matches : m.key = Key /\ m.sub = s

\* The transaction has committed; if the connection is lost before the answer, the
\* commit raises and the handler takes the item for a failed one.
Done ==
    /\ item' = None
    /\ taken' = taken + 1
    /\ \/ UNCHANGED <<feed, letter, mishap>>
       \/ feed' = <<>> /\ Handled("commit")
    /\ UNCHANGED <<wl, feeds, due>>

\* A value too long for its column, a lost connection, the victim of a deadlock.
StatementRaises == item # None /\ GiveUp

\* scalar_one_or_none on an ambiguous institution name.
IesIsAmbiguous ==
    /\ item # None
    /\ Cardinality(IesRow) > 1
    /\ GiveUp

InsertItem ==
    /\ item # None
    /\ Cardinality(IesRow) <= 1
    /\ Key \notin DOMAIN rows
    /\ rows' = [k \in DOMAIN rows \cup {Key} |-> IF k = Key THEN NewRow ELSE rows[k]]
    /\ matches' = matches \cup Records(Interested(NewRow))
    /\ Done

\* What EditalRepository.upsert changes of a row it finds.
MergedRefreshing(row) == [NewRow EXCEPT !.link = row.link, !.enriched = row.enriched]
Merged(row) == [row EXCEPT !.text = Summary]

\* An equal text is a cosmetic change, another one may be near enough to be.
CosmeticChange ==
    /\ item # None
    /\ Cardinality(IesRow) <= 1
    /\ Key \in DOMAIN rows
    /\ rows' = [rows EXCEPT ![Key] = Merged(@)]
    /\ UNCHANGED matches
    /\ Done

\* The match of a subscriber who has one violates uq_match_subscriber_edital.
UpdateItem ==
    /\ item # None
    /\ Cardinality(IesRow) <= 1
    /\ Key \in DOMAIN rows
    /\ rows[Key].text # Summary
    /\ LET row == Merged(rows[Key]) IN
         IF \E s \in Interested(row) : HasMatch(s)
         THEN GiveUp
         ELSE /\ rows' = [rows EXCEPT ![Key] = row]
              /\ matches' = matches \cup Records(Interested(row))
              /\ Done

ReadingNext ==
    \/ \E r \in Responses, eligible \in Whitelists : BeginFeed(r, eligible)
    \/ Stopped
    \/ ItemRaises
    \/ NextItem
    \/ \E a \in Answers : EnrichItem(a)
    \/ StatementRaises
    \/ IesIsAmbiguous
    \/ InsertItem
    \/ CosmeticChange
    \/ UpdateItem

-----------------------------------------------------------------------------
(* Properties                                                              *)

RowType  == [titulo : Texts, ies : DOMAIN Institutions \cup {None}, link : STRING, text : Texts,
             area : ToSet(Areas) \cup {None}, nivel : NivelValues, modalidade : ModalidadeValues,
             periodo : Periodo \cup {None}, gratuito : BOOLEAN, enriched : BOOLEAN]

\* EditalModel.to_entity builds the enums and the period of a row again, and raises if
\* a value is unknown or the period the wrong way round: every later reading would.
Readable(row) ==
    /\ row.nivel \in NivelValues /\ row.modalidade \in ModalidadeValues
    /\ LET p == row.periodo IN p # None => p.de = None \/ p.ate = None \/ p.de <= p.ate

\* Types; and every stored row is one that can be read again.
ReadingTypeOK ==
    /\ feed \in Seq(ItemType)
    /\ item \in ItemType \cup {None}
    /\ wl \subseteq DOMAIN Institutions
    /\ \A k \in DOMAIN rows : rows[k] \in RowType /\ Readable(rows[k])
    /\ \A m \in matches :
          m.ies \in Names /\ m.sub \in Subs /\ m.wl \subseteq DOMAIN Institutions
    /\ feeds \in 0 .. MaxFeeds
    /\ due \in 0 .. Limit /\ taken \in 0 .. due
    /\ letter \in BOOLEAN /\ mishap \in Mishaps

\* When the generator, the LLM's answer or a statement raises half-way, the rest of
\* the feed is lost (_process_url).  A feed that ends before all it promised is stored
\* has pushed a dead letter, unless the push itself raised or the process stopped; and
\* there is no letter of a feed that is stored whole, unless a commit of it was taken
\* for a failure.
LossLeavesTrace ==
    item = None /\ feed = <<>> =>
      /\ taken < due => letter \/ mishap \in {"push", "stop"}
      /\ letter => taken < due \/ mishap = "commit"

\* A match never comes to stand on a row that does not deserve it: the row as it is
\* now still passes the filters and the score of its subscriber, however often the
\* page and the answers of the LLM have changed since (upsert, MatchEngine.evaluate).
MatchJustified ==
    \A m \in matches :
      /\ m.key \in DOMAIN rows
      /\ Matched(rows[m.key], m.ies, m.wl, Profiles[m.sub])

\* What the source may put in a feed; and whether it always heads one page with one
\* title, the accents apart, under one institution.
Written(r) == ToSet(r.entries) \cup ToSet(r.anchors)
TitlesStable ==
    \A r, q \in Responses : \A e \in Written(r), f \in Written(q) :
      e.link = f.link => /\ Normalized(e.title) = Normalized(f.title)
                         /\ AsciiName[r.ies] = AsciiName[q.ies]

\* When it does, a subscriber has two matches for one page only if the LLM has
\* read it or the page has changed its level, its modality or its dates: accents, the
\* text, the area and a second reading do not announce it again (canonical_hash).
AnnouncedTwiceHasCause ==
    \A m, n \in matches :
      LET r == rows[m.key]  q == rows[n.key]
      IN m.sub = n.sub /\ m.key # n.key /\ r.link = q.link =>
           \/ r.enriched \/ q.enriched
           \/ <<r.nivel, r.modalidade, r.periodo>> # <<q.nivel, q.modalidade, q.periodo>>
=============================================================================
