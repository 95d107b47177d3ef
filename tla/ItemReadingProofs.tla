-------------------------- MODULE ItemReadingProofs --------------------------
(***************************************************************************)
(* For any profiles, responses and answers of the LLM, and with a client   *)
(* of the listing beside: what the parser yields is typed and can be read  *)
(* again, a lost item leaves a letter unless no handler ran or its push    *)
(* raised, no match comes to stand on a row that does not deserve it, one  *)
(* page is announced once, and an undisturbed walk through the pages shows *)
(* all.  All of them turn on what an update leaves alone; how a score is   *)
(* summed plays no part.                                                   *)
(***************************************************************************)
EXTENDS EditalListing, SiftingProofs, SequenceTheorems, FiniteSetTheorems

IsRow(row) ==
    row = [nivel |-> row.nivel, modalidade |-> row.modalidade, periodo |-> row.periodo,
           area |-> row.area, gratuito |-> row.gratuito, ies |-> row.ies,
           titulo |-> row.titulo, text |-> row.text, link |-> row.link,
           enriched |-> row.enriched]

RowsAreRows ==
    /\ rows = [k \in DOMAIN rows |-> rows[k]]
    /\ \A k \in DOMAIN rows : IsRow(rows[k])

IInv == RowsAreRows /\ MatchJustified

\* A match looks at no column that a later reading of the page may change.
LEMMA MatchIgnoresMerge ==
    ASSUME NEW row, IsRow(row), NEW asked, NEW eligible, NEW profile
    PROVE  /\ IsRow(Merged(row))
           /\ Matched(Merged(row), asked, eligible, profile)
                <=> Matched(row, asked, eligible, profile)
<1>1. Merged(row) = [nivel |-> row.nivel, modalidade |-> row.modalidade,
                     periodo |-> row.periodo, area |-> row.area, gratuito |-> row.gratuito,
                     ies |-> row.ies, titulo |-> row.titulo, text |-> Summary,
                     link |-> row.link, enriched |-> row.enriched]
  BY DEF IsRow, Merged
<1> QED
  BY <1>1 DEF IsRow, Matched

\* The match that an item records is justified by the row it is stored with.
Justified(m, row) == Matched(row, m.ies, m.wl, Profiles[m.sub])

LEMMA RecordedAreJustified ==
    ASSUME NEW row, NEW m \in Records(Interested(row))
    PROVE  m.key = Key /\ Justified(m, row)
<1>1. PICK s \in Interested(row) : m = [key |-> Key, ies |-> item.ies, sub |-> s, wl |-> wl]
  BY DEF Records
<1>2. m.ies = item.ies
  BY <1>1
<1>3. Matched(row, item.ies, wl, Profiles[s])
  BY <1>1 DEF Interested
<1> QED
  BY <1>1, <1>2, <1>3 DEF Justified

LEMMA InsertKeeps == ASSUME IInv, InsertItem PROVE IInv'
<1>1. IsRow(NewRow)
  BY DEF IsRow, NewRow
<1>2. /\ rows' = [k \in DOMAIN rows \cup {Key} |-> IF k = Key THEN NewRow ELSE rows[k]]
      /\ matches' = matches \cup Records(Interested(NewRow))
      /\ Key \notin DOMAIN rows
  BY DEF InsertItem
<1>3. RowsAreRows'
  <2>1. DOMAIN rows' = DOMAIN rows \cup {Key}
    BY <1>2
  <2>2. \A k \in DOMAIN rows' : IsRow(rows'[k])
    BY <1>1, <1>2, <2>1 DEF IInv, RowsAreRows
  <2> QED
    BY <1>2, <2>1, <2>2 DEF RowsAreRows, IsRow
<1>4. ASSUME NEW m \in matches' PROVE m.key \in DOMAIN rows' /\ Justified(m, rows'[m.key])
  <2>1. CASE m \in matches
    BY <1>2, <2>1 DEF IInv, MatchJustified, Justified
  <2>2. CASE m \in Records(Interested(NewRow))
    BY <1>2, <2>2, RecordedAreJustified
  <2> QED
    BY <1>2, <2>1, <2>2
<1> QED
  BY <1>3, <1>4 DEF IInv, MatchJustified, Justified

LEMMA RevisionKeeps ==
    ASSUME IInv, Key \in DOMAIN rows,
           rows' = [rows EXCEPT ![Key] = Merged(rows[Key])],
           \A m \in matches' \ matches : m.key = Key /\ Justified(m, Merged(rows[Key]))
    PROVE  IInv'
<1>1. /\ DOMAIN rows' = DOMAIN rows
      /\ \A k \in DOMAIN rows : rows'[k] = IF k = Key THEN Merged(rows[Key]) ELSE rows[k]
      /\ rows' = [k \in DOMAIN rows' |-> rows'[k]]
  BY DEF IInv, RowsAreRows
<1>2. RowsAreRows'
  BY <1>1, MatchIgnoresMerge DEF IInv, RowsAreRows, IsRow
<1>3. ASSUME NEW m \in matches' PROVE m.key \in DOMAIN rows' /\ Justified(m, rows'[m.key])
  <2>1. CASE m \in matches
    <3>1. m.key \in DOMAIN rows /\ Justified(m, rows[m.key]) /\ IsRow(rows[m.key])
      BY <2>1 DEF IInv, MatchJustified, Justified, RowsAreRows
    <3> QED
      BY <1>1, <3>1, MatchIgnoresMerge DEF Justified
  <2>2. CASE m \notin matches
    BY <1>1, <1>3, <2>2
  <2> QED
    BY <2>1, <2>2
<1> QED
  BY <1>2, <1>3 DEF IInv, MatchJustified, Justified

LEMMA StepIInv == IInv /\ [Next]_vars => IInv'
<1> SUFFICES ASSUME IInv, [Next]_vars PROVE IInv'
  OBVIOUS
<1>1. ASSUME UNCHANGED tables PROVE IInv'
  BY <1>1 DEF tables, IInv, RowsAreRows, MatchJustified
<1>2. CASE InsertItem
  BY <1>2, InsertKeeps
<1>3. CASE CosmeticChange
  <2>1. Key \in DOMAIN rows /\ rows' = [rows EXCEPT ![Key] = Merged(rows[Key])]
    BY <1>3, Zenon DEF CosmeticChange
  <2>2. \A m \in matches' \ matches : m.key = Key /\ Justified(m, Merged(rows[Key]))
    BY <1>3 DEF CosmeticChange
  <2> QED
    BY <2>1, <2>2, RevisionKeeps
<1>4. CASE UpdateItem
  <2>1. CASE \E s \in Interested(Merged(rows[Key])) : HasMatch(s)
    BY <1>1, <1>4, <2>1 DEF UpdateItem, GiveUp
  <2>2. CASE ~ \E s \in Interested(Merged(rows[Key])) : HasMatch(s)
    <3>1. /\ Key \in DOMAIN rows
          /\ rows' = [rows EXCEPT ![Key] = Merged(rows[Key])]
          /\ matches' = matches \cup Records(Interested(Merged(rows[Key])))
      BY <1>4, <2>2 DEF UpdateItem
    <3>2. \A m \in matches' \ matches : m.key = Key /\ Justified(m, Merged(rows[Key]))
      BY <3>1, RecordedAreJustified
    <3> QED
      BY <3>1, <3>2, RevisionKeeps
  <2> QED
    BY <2>1, <2>2
<1>5. CASE ReadingNext /\ ~ InsertItem /\ ~ CosmeticChange /\ ~ UpdateItem
  <2>1. UNCHANGED tables
    BY <1>5 DEF ReadingNext, BeginFeed, Stopped, ItemRaises, NextItem, EnrichItem,
       StatementRaises, IesIsAmbiguous, GiveUp, Take
  <2> QED
    BY <1>1, <2>1
<1>6. CASE ~ Reads
  <2>1. UNCHANGED tables
    BY <1>6 DEF Next, BeginWalk, CountRows, ReadPage, Midnight, vars, readingVars, tables
  <2> QED
    BY <1>1, <2>1
<1> QED
  BY <1>2, <1>3, <1>4, <1>5, <1>6 DEF Reads

(***************************************************************************)
(* A match stays one that its subscriber should have: the row it names     *)
(* still passes the filters and the score under the whitelist that         *)
(* admitted it, however often the page and the LLM's answers have changed  *)
(* since (EditalRepository.upsert, MatchEngine.evaluate).                  *)
(***************************************************************************)
THEOREM MatchesAreJustified == Spec => []MatchJustified
<1>1. Init => IInv
  BY DEF Init, ReadingInit, IInv, RowsAreRows, MatchJustified
<1>2. IInv => MatchJustified
  BY DEF IInv
<1> QED
  BY <1>1, <1>2, StepIInv, PTL DEF Spec

-----------------------------------------------------------------------------
(* What the parser makes of a text.                                        *)

LEMMA ParsingConstants ==
    /\ DOMAIN DayOf \subseteq DOMAIN Ascii
    /\ \A w \in DOMAIN DayOf : DayOf[w] \in Nat
    /\ Before \in Nat /\ After \in Nat /\ HeadLen \in Nat /\ Limit \in Nat
  BY ParsingAssumption

LEMMA SiftElements ==
    ASSUME NEW T, NEW s \in Seq(T), NEW S
    PROVE  /\ Sift(s, S) \in Seq(T) /\ Len(Sift(s, S)) \in Nat
           /\ DOMAIN Sift(s, S) = 1 .. Len(Sift(s, S))
           /\ \A k \in DOMAIN Sift(s, S) :
                /\ Sift(s, S)[k] \in S /\ Sift(s, S)[k] \in T
                /\ Sift(s, S)[k] \in ToSet(s)
<1> DEFINE kept == Sift(s, S)
<1>1. kept \in Seq(T) /\ \A k \in DOMAIN kept : kept[k] \in S
  BY SiftTyped
<1>2. PICK g \in [DOMAIN kept -> DOMAIN s] : \A k \in DOMAIN kept : kept[k] = s[g[k]]
  BY SiftPlaces
<1> HIDE DEF kept
<1>3. ASSUME NEW k \in DOMAIN kept PROVE kept[k] \in ToSet(s) /\ kept[k] \in T
  <2>1. g[k] \in DOMAIN s /\ kept[k] = s[g[k]]
    BY <1>2
  <2> QED
    BY <2>1 DEF ToSet
<1> QED
  BY <1>1, <1>3 DEF kept

LEMMA FirstOfTyped ==
    ASSUME NEW T, NEW order \in Seq(T), NEW text, NEW otherwise
    PROVE  \/ FirstOf(order, text, otherwise) = otherwise
           \/ /\ FirstOf(order, text, otherwise) \in ToSet(order)
              /\ FirstOf(order, text, otherwise) \in ToSet(text)
<1> DEFINE hits == Sift(order, ToSet(text))
<1>1. FirstOf(order, text, otherwise) = IF hits = <<>> THEN otherwise ELSE hits[1]
  BY DEF FirstOf
<1>2. hits \in Seq(T) /\ \A k \in DOMAIN hits : hits[k] \in ToSet(text) /\ hits[k] \in ToSet(order)
  BY SiftElements
<1> HIDE DEF hits
<1>3. hits # <<>> => 1 \in DOMAIN hits
  BY <1>2
<1> QED
  BY <1>1, <1>2, <1>3

LEMMA TuplesTyped ==
    ASSUME NEW T, NEW a \in T, NEW b \in T, NEW c \in T, NEW d \in T, NEW e \in T
    PROVE  <<a, b, c, d>> \in Seq(T) /\ <<a, b, c, d, e>> \in Seq(T)
<1>1. <<a, b, c, d>> \in [1 .. 4 -> T] /\ <<a, b, c, d, e>> \in [1 .. 5 -> T]
  OBVIOUS
<1> QED
  BY <1>1

LEMMA LevelsTyped ==
    ASSUME NEW text, NEW title
    PROVE  NivelOf(text, title) \in NivelValues /\ ModalidadeOf(text) \in ModalidadeValues
<1>1. /\ Niveis \in Seq({"mba", "mestrado_profissional", "mestrado_academico", "doutorado",
                         "especializacao"})
      /\ Modalidades \in Seq({"uab", "semipresencial", "ead", "presencial"})
  BY TuplesTyped DEF Niveis, Modalidades
<1>2. \A t : /\ FirstOf(Niveis, t, "desconhecido") \in NivelValues
             /\ FirstOf(Modalidades, t, "desconhecida") \in ModalidadeValues
  BY <1>1, FirstOfTyped DEF NivelValues, ModalidadeValues
<1> QED
  BY <1>2 DEF NivelOf, ModalidadeOf

LEMMA PartTyped ==
    ASSUME NEW T, NEW s \in Seq(T), NEW a \in Nat \ {0}, NEW b \in Int, b <= Len(s)
    PROVE  SubSeq(s, a, b) \in Seq(T)
<1>1. \A i \in a .. b : s[i] \in T
  BY ElementOfSeq
<1> QED
  BY <1>1, SubSeqProperties

LEMMA WindowTyped ==
    ASSUME NEW text \in Texts
    PROVE  Window(text) \in Texts
<1> DEFINE keys == <<"inscric", "prazo", "periodo de inscri", "submissao">>
           key == FirstOf(keys, text, None)
           IsFirst(n) == text[n] = key /\ \A m \in DOMAIN text : text[m] = key => n <= m
           i == CHOOSE n \in DOMAIN text : IsFirst(n)
           head == IF Len(text) < HeadLen THEN Len(text) ELSE HeadLen
           from == IF i > Before THEN i - Before ELSE 1
           to   == IF i + After < Len(text) THEN i + After ELSE Len(text)
<1>1. Window(text) = IF key = None THEN SubSeq(text, 1, head) ELSE SubSeq(text, from, to)
  BY DEF Window
<1>2. text \in Seq(DOMAIN Ascii) /\ Len(text) \in Nat /\ DOMAIN text = 1 .. Len(text)
  BY DEF Texts
<1>3. keys \in Seq({"inscric", "prazo", "periodo de inscri", "submissao"})
  BY TuplesTyped
<1>4. CASE key = None
  <2>1. head \in Int /\ head <= Len(text)
    BY <1>2, ParsingConstants
  <2> HIDE DEF head, key
  <2>2. SubSeq(text, 1, head) \in Seq(DOMAIN Ascii)
    BY <1>2, <2>1, PartTyped
  <2> QED
    BY <1>1, <1>4, <2>2 DEF Texts
<1>5. CASE key # None
  <2>1. key \in ToSet(text)
    BY <1>3, <1>5, FirstOfTyped
  <2> HIDE DEF key
  <2> DEFINE places == {n \in DOMAIN text : text[n] = key}
  <2>2. places \subseteq Nat /\ places # {}
    BY <1>2, <2>1 DEF ToSet
  <2>3. \E n \in places : \A m \in places : n <= m
    BY <2>2, LeastOfSet
  <2>4. \E n \in DOMAIN text : IsFirst(n)
    BY <2>3
  <2>5. i \in 1 .. Len(text)
    BY <1>2, <2>4
  <2> HIDE DEF i
  <2>6. from \in Nat \ {0} /\ to \in Int /\ to <= Len(text)
    BY <1>2, <2>5, ParsingConstants
  <2> HIDE DEF from, to
  <2>7. SubSeq(text, from, to) \in Seq(DOMAIN Ascii)
    BY <1>2, <2>6, PartTyped
  <2> QED
    BY <1>1, <1>5, <2>7 DEF Texts
<1> QED
  BY <1>4, <1>5

LEMMA PeriodoTyped ==
    ASSUME NEW text \in Texts
    PROVE  PeriodoOf(text) \in Periodo \cup {None}
<1> DEFINE win   == Window(text)
           dates == Sift(win, DOMAIN DayOf)
           ends  == ToSet(win) \cap {"ate", "limite", "prazo"} # {}
<1>1. win \in Seq(DOMAIN Ascii)
  BY WindowTyped DEF Texts
<1>2. PeriodoOf(text) =
        CASE Len(dates) = 0          -> None
          [] Len(dates) = 1 /\ ends   -> [de |-> None, ate |-> DayOf[dates[1]]]
          [] Len(dates) = 1 /\ ~ ends -> [de |-> DayOf[dates[1]], ate |-> None]
          [] Len(dates) > 1          -> [de |-> DayOf[dates[1]], ate |-> DayOf[dates[2]]]
  BY DEF PeriodoOf
<1> HIDE DEF win
<1>3. /\ Len(dates) \in Nat /\ DOMAIN dates = 1 .. Len(dates)
      /\ \A k \in DOMAIN dates : dates[k] \in DOMAIN DayOf
  BY <1>1, SiftElements
<1> HIDE DEF dates, ends
<1>4. \A k \in DOMAIN dates : DayOf[dates[k]] \in Days
  BY <1>3 DEF Days
<1>5. CASE Len(dates) = 0
  BY <1>2, <1>5
<1>6. CASE Len(dates) = 1
  <2>1. DayOf[dates[1]] \in Days
    BY <1>3, <1>4, <1>6
  <2>2. CASE ends
    <3>1. PeriodoOf(text) = [de |-> None, ate |-> DayOf[dates[1]]]
      BY <1>2, <1>6, <2>2
    <3> QED
      BY <2>1, <3>1 DEF Periodo
  <2>3. CASE ~ ends
    <3>1. PeriodoOf(text) = [de |-> DayOf[dates[1]], ate |-> None]
      BY <1>2, <1>6, <2>3
    <3> QED
      BY <2>1, <3>1 DEF Periodo
  <2> QED
    BY <2>2, <2>3
<1>7. CASE Len(dates) > 1
  <2>1. DayOf[dates[1]] \in Days /\ DayOf[dates[2]] \in Days
    BY <1>3, <1>4, <1>7
  <2>2. PeriodoOf(text) = [de |-> DayOf[dates[1]], ate |-> DayOf[dates[2]]]
    BY <1>2, <1>3, <1>7
  <2> QED
    BY <2>1, <2>2 DEF Periodo
<1> QED
  BY <1>3, <1>5, <1>6, <1>7

-----------------------------------------------------------------------------
(* What the parser yields.                                                 *)

\* The item an entry becomes, as far as its key and its address go.
OfEntry(i, e, ies) == i.titulo = e.title /\ i.ies = ies /\ i.link = e.link /\ ~ i.enriched

LEMMA ItemTyped ==
    ASSUME NEW e \in Entry, NEW ies \in Names, NEW m \in ModalidadeValues,
           NEW p \in Periodo \cup {None}, NEW text \in Texts, NEW confidence \in 0 .. 100
    PROVE  /\ Item(e, ies, m, p, text, confidence) \in ItemType
           /\ OfEntry(Item(e, ies, m, p, text, confidence), e, ies)
<1>1. NivelOf(text, e.title) \in NivelValues
  BY LevelsTyped
<1>2. e.title \in Texts /\ e.link \in STRING
  BY DEF Entry
<1>3. <<>> \in Texts
  BY DEF Texts
<1> QED
  BY <1>1, <1>2, <1>3 DEF Item, ItemType, OfEntry

LEMMA EntriesTyped ==
    ASSUME NEW e \in Entry, NEW ies \in Names
    PROVE  /\ RssItem(e, ies) \in ItemType /\ OfEntry(RssItem(e, ies), e, ies)
           /\ ArticleItem(e, ies) \in ItemType /\ OfEntry(ArticleItem(e, ies), e, ies)
           /\ AnchorItem(e, ies) \in ItemType /\ OfEntry(AnchorItem(e, ies), e, ies)
<1>1. e.title \in Texts /\ e.text \in Texts
  BY DEF Entry
<1>2. PeriodoOf(e.text) \in Periodo \cup {None}
  BY <1>1, PeriodoTyped
<1>3. \A t : ModalidadeOf(t) \in ModalidadeValues
  BY LevelsTyped
<1>4. "presencial" \in ModalidadeValues
  <2>1. Modalidades[4] = "presencial" /\ 4 \in DOMAIN Modalidades
    BY DEF Modalidades
  <2>2. Modalidades[4] \in ToSet(Modalidades)
    BY <2>1 DEF ToSet
  <2> QED
    BY <2>1, <2>2 DEF ModalidadeValues
<1>5. RssItem(e, ies) \in ItemType /\ OfEntry(RssItem(e, ies), e, ies)
  <2> DEFINE found == ModalidadeOf(e.title \o e.text)
             p == PeriodoOf(e.text)
             m == IF found = "desconhecida" THEN "presencial" ELSE found
             confidence == IF p # None THEN 55 ELSE 40
  <2>1. RssItem(e, ies) = Item(e, ies, m, p, e.text, confidence)
    BY DEF RssItem
  <2>2. m \in ModalidadeValues /\ confidence \in 0 .. 100 /\ p \in Periodo \cup {None}
    BY <1>2, <1>3, <1>4
  <2> HIDE DEF m, p, confidence
  <2> QED
    BY <1>1, <2>1, <2>2, ItemTyped
<1>6. ArticleItem(e, ies) \in ItemType /\ OfEntry(ArticleItem(e, ies), e, ies)
  <2> DEFINE p == PeriodoOf(e.text)
             confidence == IF p # None THEN 45 ELSE 30
             m == ModalidadeOf(e.text)
  <2>1. ArticleItem(e, ies) = Item(e, ies, m, p, e.text, confidence)
    BY DEF ArticleItem
  <2>2. confidence \in 0 .. 100 /\ p \in Periodo \cup {None} /\ m \in ModalidadeValues
    BY <1>2, <1>3
  <2> HIDE DEF m, p, confidence
  <2> QED
    BY <1>1, <2>1, <2>2, ItemTyped
<1>7. AnchorItem(e, ies) \in ItemType /\ OfEntry(AnchorItem(e, ies), e, ies)
  <2> DEFINE m == ModalidadeOf(e.title)
  <2>1. AnchorItem(e, ies) = Item(e, ies, m, None, e.title, 35)
    BY DEF AnchorItem
  <2>2. m \in ModalidadeValues /\ 35 \in 0 .. 100
    BY <1>3
  <2> HIDE DEF m
  <2> QED
    BY <1>1, <2>1, <2>2, ItemTyped
<1> QED
  BY <1>5, <1>6, <1>7

LEMMA ChosenTyped ==
    ASSUME NEW entries \in Seq(Entry)
    PROVE  /\ Chosen(entries) \in Seq(Entry)
           /\ \A k \in DOMAIN Chosen(entries) : Chosen(entries)[k] \in ToSet(entries)
  BY SiftElements DEF Chosen

LEMMA DistinctTyped ==
    ASSUME NEW anchors \in Seq(Entry)
    PROVE  /\ Distinct(anchors) \in Seq(Entry)
           /\ \A k \in DOMAIN Distinct(anchors) : Distinct(anchors)[k] \in ToSet(anchors)
<1> DEFINE fit    == Sift(anchors, {a \in Entry : a.fits})
           firsts == {i \in DOMAIN fit : \A j \in 1 .. i - 1 : fit[j].link # fit[i].link}
           numbers == [i \in DOMAIN fit |-> i]
           places == Sift(numbers, firsts)
           d == [k \in DOMAIN places |-> fit[places[k]]]
<1>1. Distinct(anchors) = d
  BY DEF Distinct
<1>2. /\ fit \in Seq(Entry) /\ Len(fit) \in Nat /\ DOMAIN fit = 1 .. Len(fit)
      /\ \A k \in DOMAIN fit : fit[k] \in Entry /\ fit[k] \in ToSet(anchors)
  BY SiftElements
<1> HIDE DEF fit
<1>3. numbers \in Seq(DOMAIN fit)
  BY <1>2
<1> HIDE DEF numbers
<1>4. /\ Len(places) \in Nat /\ DOMAIN places = 1 .. Len(places)
      /\ \A k \in DOMAIN places : places[k] \in DOMAIN fit
  BY <1>3, SiftElements
<1> HIDE DEF places
<1>5. \A k \in DOMAIN places : d[k] \in Entry /\ d[k] \in ToSet(anchors)
  BY <1>2, <1>4
<1>6. d \in [1 .. Len(places) -> Entry] /\ DOMAIN d = DOMAIN places
  BY <1>4, <1>5
<1>7. d \in Seq(Entry)
  BY <1>4, <1>6
<1> QED
  BY <1>1, <1>5, <1>6, <1>7

LEMMA FirstItemsTyped ==
    ASSUME NEW T, NEW s \in Seq(T)
    PROVE  /\ FirstItems(s) \in Seq(T) /\ Len(FirstItems(s)) \in 0 .. Limit
           /\ \A k \in DOMAIN FirstItems(s) : k \in DOMAIN s /\ FirstItems(s)[k] = s[k]
<1> DEFINE n == IF Len(s) < Limit THEN Len(s) ELSE Limit
<1>1. n \in Nat /\ n <= Len(s) /\ n <= Limit /\ Len(s) \in Nat /\ DOMAIN s = 1 .. Len(s)
  BY ParsingConstants
<1>2. FirstItems(s) = SubSeq(s, 1, n)
  BY DEF FirstItems
<1> HIDE DEF n
<1>3. \A i \in 1 .. n : s[i] \in T
  BY <1>1, ElementOfSeq
<1>4. /\ SubSeq(s, 1, n) \in Seq(T)
      /\ Len(SubSeq(s, 1, n)) = IF 1 <= n THEN n - 1 + 1 ELSE 0
      /\ \A i \in 1 .. n - 1 + 1 : SubSeq(s, 1, n)[i] = s[1 + i - 1]
  BY <1>1, <1>3, SubSeqProperties
<1>5. Len(SubSeq(s, 1, n)) = n
  BY <1>1, <1>4
<1>6. \A i \in 1 .. n : SubSeq(s, 1, n)[i] = s[i]
  BY <1>1, <1>4
<1>7. DOMAIN SubSeq(s, 1, n) = 1 .. n
  BY <1>4, <1>5
<1> QED
  BY <1>1, <1>2, <1>4, <1>5, <1>6, <1>7, ParsingConstants

\* An item that came out of a response.
FromPage(i) == \E r \in Responses : \E e \in Written(r) : OfEntry(i, e, r.ies)

LEMMA YieldsTyped ==
    ASSUME NEW r \in Responses
    PROVE  /\ Yields(r) \in Seq(ItemType) /\ Len(Yields(r)) \in 0 .. Limit
           /\ \A k \in DOMAIN Yields(r) : FromPage(Yields(r)[k])
<1>1. r.entries \in Seq(Entry) /\ r.anchors \in Seq(Entry) /\ r.ies \in Names
      /\ r.kind \in {"rss", "html", "other"}
  BY ReadingAssumption DEF RawResponse
<1> DEFINE articles == Chosen(r.entries)
           anchors  == Distinct(Chosen(r.anchors))
           Good(s) == s \in Seq(ItemType) /\ \A k \in DOMAIN s : FromPage(s[k])
           all == [i \in DOMAIN articles |-> RssItem(articles[i], r.ies)]
           some == [i \in DOMAIN articles |-> ArticleItem(articles[i], r.ies)]
           other == [i \in DOMAIN anchors |-> AnchorItem(anchors[i], r.ies)]
<1>2. articles \in Seq(Entry) /\ \A k \in DOMAIN articles : articles[k] \in Written(r)
  BY <1>1, ChosenTyped DEF Written
<1>3. anchors \in Seq(Entry) /\ \A k \in DOMAIN anchors : anchors[k] \in Written(r)
  <2>1. /\ Chosen(r.anchors) \in Seq(Entry)
        /\ \A k \in DOMAIN Chosen(r.anchors) : Chosen(r.anchors)[k] \in ToSet(r.anchors)
    BY <1>1, ChosenTyped
  <2>2. ToSet(Chosen(r.anchors)) \subseteq ToSet(r.anchors)
    BY <2>1 DEF ToSet
  <2>3. /\ anchors \in Seq(Entry)
        /\ \A k \in DOMAIN anchors : anchors[k] \in ToSet(Chosen(r.anchors))
    BY <2>1, DistinctTyped
  <2> QED
    BY <2>2, <2>3 DEF Written
<1>4. Yields(r) = CASE r.kind = "rss" -> FirstItems(all)
                    [] r.kind = "html" /\ articles # <<>> -> FirstItems(some)
                    [] r.kind = "html" /\ articles = <<>> -> FirstItems(other)
                    [] OTHER -> <<>>
  BY DEF Yields
<1> HIDE DEF articles, anchors
<1>5. /\ Len(articles) \in Nat /\ DOMAIN articles = 1 .. Len(articles)
      /\ Len(anchors) \in Nat /\ DOMAIN anchors = 1 .. Len(anchors)
      /\ \A k \in DOMAIN articles : articles[k] \in Entry
      /\ \A k \in DOMAIN anchors : anchors[k] \in Entry
  BY <1>2, <1>3
<1>6. Good(all)
  <2>1. all \in [1 .. Len(articles) -> ItemType]
    BY <1>1, <1>5, EntriesTyped
  <2>2. all \in Seq(ItemType)
    BY <1>5, <2>1
  <2>3. ASSUME NEW k \in DOMAIN all PROVE FromPage(all[k])
    <3>1. OfEntry(all[k], articles[k], r.ies) /\ articles[k] \in Written(r)
      BY <1>1, <1>2, <1>5, EntriesTyped
    <3> QED
      BY <3>1 DEF FromPage
  <2> QED
    BY <2>2, <2>3
<1>7. Good(some)
  <2>1. some \in [1 .. Len(articles) -> ItemType]
    BY <1>1, <1>5, EntriesTyped
  <2>2. some \in Seq(ItemType)
    BY <1>5, <2>1
  <2>3. ASSUME NEW k \in DOMAIN some PROVE FromPage(some[k])
    <3>1. OfEntry(some[k], articles[k], r.ies) /\ articles[k] \in Written(r)
      BY <1>1, <1>2, <1>5, EntriesTyped
    <3> QED
      BY <3>1 DEF FromPage
  <2> QED
    BY <2>2, <2>3
<1>8. Good(other)
  <2>1. other \in [1 .. Len(anchors) -> ItemType]
    BY <1>1, <1>5, EntriesTyped
  <2>2. other \in Seq(ItemType)
    BY <1>5, <2>1
  <2>3. ASSUME NEW k \in DOMAIN other PROVE FromPage(other[k])
    <3>1. OfEntry(other[k], anchors[k], r.ies) /\ anchors[k] \in Written(r)
      BY <1>1, <1>3, <1>5, EntriesTyped
    <3> QED
      BY <3>1 DEF FromPage
  <2> QED
    BY <2>2, <2>3
<1> HIDE DEF all, some, other
<1>9. ASSUME NEW s, Good(s) PROVE Good(FirstItems(s)) /\ Len(FirstItems(s)) \in 0 .. Limit
  BY <1>9, FirstItemsTyped
<1>10. Good(<<>>) /\ Len(<<>>) \in 0 .. Limit
  BY ParsingConstants
<1> HIDE DEF Good
<1>11. Good(Yields(r)) /\ Len(Yields(r)) \in 0 .. Limit
  BY <1>1, <1>4, <1>6, <1>7, <1>8, <1>9, <1>10
<1> QED
  BY <1>11 DEF Good

\* The anchors by their address: none twice, and none that fits left out.
LEMMA DistinctLinks ==
    ASSUME NEW anchors \in Seq(Entry)
    PROVE  /\ \A k, l \in DOMAIN Distinct(anchors) :
                k # l => Distinct(anchors)[k].link # Distinct(anchors)[l].link
           /\ \A a \in ToSet(anchors) : a.fits =>
                \E k \in DOMAIN Distinct(anchors) : Distinct(anchors)[k].link = a.link
<1> DEFINE fit    == Sift(anchors, {a \in Entry : a.fits})
           firsts == {i \in DOMAIN fit : \A j \in 1 .. i - 1 : fit[j].link # fit[i].link}
           numbers == [i \in DOMAIN fit |-> i]
           places == Sift(numbers, firsts)
           d == [k \in DOMAIN places |-> fit[places[k]]]
<1>1. Distinct(anchors) = d
  BY DEF Distinct
<1>2. fit \in Seq(Entry) /\ Len(fit) \in Nat /\ DOMAIN fit = 1 .. Len(fit)
  BY SiftElements
<1>3. ASSUME NEW a \in ToSet(anchors), a.fits PROVE \E i \in DOMAIN fit : fit[i] = a
  <2>1. PICK i \in DOMAIN anchors : anchors[i] = a
    BY DEF ToSet
  <2> DEFINE S == {b \in Entry : b.fits}
  <2>2. anchors[i] \in S
    BY <1>3, <2>1
  <2> HIDE DEF S
  <2>3. \E k \in DOMAIN Sift(anchors, S) : Sift(anchors, S)[k] = anchors[i]
    BY <2>1, <2>2, SiftKeeps
  <2> QED
    BY <2>1, <2>3 DEF S
<1> HIDE DEF fit
<1>4. /\ numbers \in Seq(DOMAIN fit) /\ DOMAIN numbers = 1 .. Len(fit)
      /\ \A i \in DOMAIN fit : i \in DOMAIN numbers /\ numbers[i] = i
  BY <1>2
<1> HIDE DEF numbers
<1>5. /\ Len(places) \in Nat /\ DOMAIN places = 1 .. Len(places)
      /\ \A k \in DOMAIN places : places[k] \in firsts
  BY <1>4, SiftElements
<1>6. PICK g \in [DOMAIN places -> DOMAIN numbers] :
        /\ \A k \in DOMAIN places : places[k] = numbers[g[k]]
        /\ \A k, l \in DOMAIN places : k < l => g[k] < g[l]
  BY <1>4, SiftPlaces
<1>7. \A k, l \in DOMAIN places : k < l => places[k] < places[l]
  BY <1>2, <1>4, <1>6
<1>8. \A q \in firsts : \E k \in DOMAIN places : places[k] = q
  <2> SUFFICES ASSUME NEW q \in firsts PROVE \E k \in DOMAIN places : places[k] = q
    OBVIOUS
  <2>1. q \in DOMAIN numbers /\ numbers[q] = q
    BY <1>4
  <2> HIDE DEF firsts
  <2> QED
    BY <1>4, <2>1, SiftKeeps
<1> HIDE DEF places
<1>9. ASSUME NEW k \in DOMAIN d, NEW l \in DOMAIN d, k < l PROVE d[k].link # d[l].link
  <2>1. places[k] \in 1 .. places[l] - 1 /\ places[l] \in firsts
    BY <1>2, <1>5, <1>7, <1>9
  <2> QED
    BY <2>1
<1>10. ASSUME NEW k \in DOMAIN d, NEW l \in DOMAIN d, k # l PROVE d[k].link # d[l].link
  <2>1. k < l \/ l < k
    BY <1>5, <1>10
  <2> HIDE DEF d
  <2> QED
    BY <1>9, <2>1
<1>11. ASSUME NEW a \in ToSet(anchors), a.fits PROVE \E k \in DOMAIN d : d[k].link = a.link
  <2> DEFINE same == {i \in DOMAIN fit : fit[i].link = a.link}
  <2>1. same # {} /\ same \subseteq Nat
    BY <1>2, <1>3, <1>11
  <2>2. PICK q \in same : \A i \in same : q <= i
    BY <2>1, LeastOfSet
  <2>3. q \in firsts
    BY <1>2, <2>2
  <2>4. PICK k \in DOMAIN places : places[k] = q
    BY <1>8, <2>3
  <2> QED
    BY <2>2, <2>4
<1> QED
  BY <1>1, <1>10, <1>11

(***************************************************************************)
(* The fallback to the anchors of a page (_parse_html_listing) yields no   *)
(* address twice and, unless it stops at the limit, the address of every   *)
(* relevant anchor that is neither too short nor too long, whichever       *)
(* repetitions stand between.                                              *)
(***************************************************************************)
THEOREM AnchorsYieldedOnce ==
    ASSUME NEW r \in Responses, r.kind = "html", Chosen(r.entries) = <<>>
    PROVE  /\ \A k, l \in DOMAIN Yields(r) : k # l => Yields(r)[k].link # Yields(r)[l].link
           /\ Len(Yields(r)) < Limit =>
                \A a \in ToSet(r.anchors) : a.fits /\ ToSet(a.title) \cap Relevant # {} =>
                  \E k \in DOMAIN Yields(r) : Yields(r)[k].link = a.link
<1> DEFINE anchors == Distinct(Chosen(r.anchors))
           items   == [i \in DOMAIN anchors |-> AnchorItem(anchors[i], r.ies)]
<1>1. r.anchors \in Seq(Entry) /\ r.ies \in Names
  BY ReadingAssumption DEF RawResponse
<1>2. Yields(r) = FirstItems(items)
  BY DEF Yields
<1>3. Chosen(r.anchors) \in Seq(Entry)
  BY <1>1, ChosenTyped
<1>4. /\ anchors \in Seq(Entry)
      /\ \A k, l \in DOMAIN anchors : k # l => anchors[k].link # anchors[l].link
      /\ \A a \in ToSet(Chosen(r.anchors)) : a.fits =>
           \E k \in DOMAIN anchors : anchors[k].link = a.link
  BY <1>3, DistinctTyped, DistinctLinks
<1>5. ASSUME NEW a \in ToSet(r.anchors), ToSet(a.title) \cap Relevant # {}
      PROVE  a \in ToSet(Chosen(r.anchors))
  <2> DEFINE S == {e \in Entry : ToSet(e.title) \cap Relevant # {}}
  <2>1. PICK i \in DOMAIN r.anchors : r.anchors[i] = a
    BY DEF ToSet
  <2>2. a \in S
    BY <1>1, <1>5, <2>1
  <2> HIDE DEF S
  <2>3. \E k \in DOMAIN Sift(r.anchors, S) : Sift(r.anchors, S)[k] = a
    BY <1>1, <2>1, <2>2, SiftKeeps
  <2>4. Chosen(r.anchors) = Sift(r.anchors, S)
    BY DEF Chosen, S
  <2> QED
    BY <2>3, <2>4 DEF ToSet
<1> HIDE DEF anchors
<1>6. Len(anchors) \in Nat /\ DOMAIN anchors = 1 .. Len(anchors)
  BY <1>4
<1>7. items \in [1 .. Len(anchors) -> ItemType]
  <2>1. \A k \in DOMAIN anchors : anchors[k] \in Entry
    BY <1>4, <1>6
  <2>2. \A k \in DOMAIN anchors : AnchorItem(anchors[k], r.ies) \in ItemType
    BY <1>1, <2>1, EntriesTyped
  <2> QED
    BY <1>6, <2>2
<1>8. items \in Seq(ItemType) /\ DOMAIN items = DOMAIN anchors /\ Len(items) = Len(anchors)
  BY <1>6, <1>7
<1>9. \A k \in DOMAIN items : items[k].link = anchors[k].link
  BY <1>8 DEF AnchorItem, Item
<1> HIDE DEF items
<1>10. \A k \in DOMAIN FirstItems(items) : k \in DOMAIN items /\ FirstItems(items)[k] = items[k]
  BY <1>8, FirstItemsTyped
<1>11. ASSUME Len(FirstItems(items)) < Limit PROVE FirstItems(items) = items
  <2> DEFINE n == IF Len(items) < Limit THEN Len(items) ELSE Limit
  <2>1. n \in 0 .. Len(items) /\ Len(items) \in Nat /\ Limit \in Nat
    BY <1>8, <1>6, ParsingConstants
  <2>2. FirstItems(items) = SubSeq(items, 1, n)
    BY DEF FirstItems
  <2>3. Len(SubSeq(items, 1, n)) = n
    <3>1. \A i \in 1 .. n : items[i] \in ItemType
      BY <1>8, <2>1
    <3> HIDE DEF n
    <3>2. Len(SubSeq(items, 1, n)) = IF 1 <= n THEN n - 1 + 1 ELSE 0
      BY <2>1, <3>1, SubSeqProperties
    <3> QED
      BY <2>1, <3>2
  <2>4. n = Len(items)
    BY <1>11, <2>1, <2>2, <2>3
  <2> HIDE DEF n
  <2> QED
    BY <1>8, <2>2, <2>4, SubSeqFull
<1> QED
  BY <1>2, <1>4, <1>5, <1>8, <1>9, <1>10, <1>11

-----------------------------------------------------------------------------
(* Types, and what becomes of a feed.                                      *)

LEMMA ReadingConstants ==
    /\ Answers \subseteq AnswerType /\ MaxFeeds \in Nat /\ None \notin ItemType
    /\ \A eligible \in Whitelists : eligible \subseteq DOMAIN Institutions
  BY ReadingAssumption

\* What a feed has promised is stored, in hand or still to come, until a letter or a
\* mishap says that some of it may be lost; no item in hand has its dates the wrong
\* way round.
Going == ~ letter /\ mishap = "none"

Accounted ==
    /\ ~ Going => feed = <<>> /\ item = None
    /\ Going => due = taken + Len(feed) + (IF item = None THEN 0 ELSE 1)
    /\ letter => taken < due \/ mishap = "commit"
    /\ mishap = "commit" => letter

InHand == item # None => ~ Inverted(item.periodo)

RInv == ReadingTypeOK /\ Accounted /\ InHand

LEMMA HeadTyped ==
    ASSUME RInv, item = None, feed # <<>>
    PROVE  /\ Head(feed) \in ItemType /\ Tail(feed) \in Seq(ItemType)
           /\ Len(Tail(feed)) = Len(feed) - 1 /\ Len(feed) \in Nat \ {0}
           /\ Going /\ due = taken + Len(feed)
<1>1. feed \in Seq(ItemType) /\ due \in Nat /\ taken \in Nat
  BY DEF RInv, ReadingTypeOK
<1>2. /\ Head(feed) \in ItemType /\ Tail(feed) \in Seq(ItemType)
      /\ Len(Tail(feed)) = Len(feed) - 1
  BY <1>1, HeadTailProperties
<1>3. Len(feed) \in Nat \ {0}
  BY <1>1, EmptySeq
<1>4. Going /\ due = taken + Len(feed)
  BY <1>1, <1>3 DEF RInv, Accounted
<1> QED
  BY <1>2, <1>3, <1>4

LEMMA OpenFeed ==
    ASSUME RInv, item # None
    PROVE  item \in ItemType /\ Going /\ due = taken + Len(feed) + 1 /\ Len(feed) \in Nat
           /\ due \in Nat /\ taken \in Nat /\ taken < due
<1>1. feed \in Seq(ItemType) /\ due \in Nat /\ taken \in Nat /\ item \in ItemType
  BY DEF RInv, ReadingTypeOK
<1>2. Going /\ due = taken + Len(feed) + 1 /\ Len(feed) \in Nat
  BY <1>1 DEF RInv, Accounted
<1> QED
  BY <1>1, <1>2

\* An open feed has an item that is not stored yet.
LEMMA OpenIsIncomplete ==
    ASSUME RInv, item # None \/ feed # <<>>
    PROVE  Going /\ taken \in Nat /\ due \in Nat /\ taken < due
<1>1. CASE item # None
  BY <1>1, OpenFeed
<1>2. CASE item = None
  <2>1. Going /\ due = taken + Len(feed) /\ Len(feed) \in Nat \ {0}
    BY <1>2, HeadTyped
  <2>2. taken \in Nat /\ due \in Nat
    BY DEF RInv, ReadingTypeOK
  <2> QED
    BY <2>1, <2>2
<1> QED
  BY <1>1, <1>2

\* A feed that is closed with an item missing, by a letter or by a mishap.
LEMMA Closed ==
    ASSUME RInv, item # None \/ feed # <<>>,
           item' = None, feed' = <<>>, UNCHANGED <<wl, tables, feeds, due, taken>>,
           \/ letter' = TRUE /\ mishap' = "none"
           \/ letter' = FALSE /\ mishap' \in {"push", "stop"}
    PROVE  RInv'
<1>1. taken < due
  BY OpenIsIncomplete
<1>2. UNCHANGED <<wl, rows, matches, feeds, due, taken>>
  BY DEF tables
<1>3. letter' \in BOOLEAN /\ mishap' \in Mishaps
  BY DEF Mishaps
<1>4. ReadingTypeOK'
  <2>1. <<>> \in Seq(ItemType)
    OBVIOUS
  <2> QED
    BY <1>2, <1>3, <2>1 DEF RInv, ReadingTypeOK
<1>5. Accounted'
  BY <1>1, <1>2 DEF Accounted, Going
<1> QED
  BY <1>4, <1>5 DEF RInv, InHand

LEMMA GivenUp ==
    ASSUME RInv, item # None \/ feed # <<>>, GiveUp
    PROVE  RInv'
<1>1. letter = FALSE /\ mishap = "none"
  BY OpenIsIncomplete DEF Going, RInv, ReadingTypeOK
<1>2. \/ letter' = TRUE /\ mishap' = "none"
      \/ letter' = FALSE /\ mishap' \in {"push", "stop"}
  BY <1>1 DEF GiveUp, Handled
<1>3. item' = None /\ feed' = <<>> /\ UNCHANGED <<wl, tables, feeds, due, taken>>
  BY DEF GiveUp
<1> QED
  BY <1>2, <1>3, Closed

LEMMA StoppedFeed ==
    ASSUME RInv, Stopped
    PROVE  RInv'
<1>1. letter' = FALSE /\ mishap' = "stop"
  BY OpenIsIncomplete DEF Going, RInv, ReadingTypeOK, Stopped
<1>2. /\ item # None \/ feed # <<>>
      /\ item' = None /\ feed' = <<>> /\ UNCHANGED <<wl, tables, feeds, due, taken>>
  BY DEF Stopped
<1> QED
  BY <1>1, <1>2, Closed

LEMMA Taken ==
    ASSUME RInv, item = None, feed # <<>>, NEW i \in ItemType, ~ Inverted(i.periodo), Take(i)
    PROVE  RInv'
<1>1. /\ Tail(feed) \in Seq(ItemType) /\ Len(Tail(feed)) = Len(feed) - 1
      /\ Len(feed) \in Nat \ {0} /\ Going /\ due = taken + Len(feed)
  BY HeadTyped
<1>2. /\ item' = i /\ feed' = Tail(feed)
      /\ UNCHANGED <<wl, rows, matches, feeds, due, taken, letter, mishap>>
  BY DEF Take, tables
<1>3. i # None
  BY ReadingConstants
<1>4. ReadingTypeOK'
  BY <1>1, <1>2 DEF RInv, ReadingTypeOK
<1>5. Accounted'
  <2>1. taken \in Nat
    BY DEF RInv, ReadingTypeOK
  <2>2. due = taken + Len(Tail(feed)) + 1
    BY <1>1, <2>1
  <2> QED
    BY <1>1, <1>2, <1>3, <2>2 DEF Accounted, Going
<1> QED
  BY <1>2, <1>4, <1>5 DEF RInv, InHand

LEMMA EnrichedTyped ==
    ASSUME NEW i \in ItemType, NEW a \in AnswerType, ~ EnrichRaises(a), ~ Inverted(i.periodo)
    PROVE  /\ Enriched(i, a) \in ItemType /\ ~ Inverted(Enriched(i, a).periodo)
           /\ Enriched(i, a).enriched
<1> DEFINE p == IF a.periodo = None \/ a.periodo = [de |-> None, ate |-> None]
                THEN i.periodo ELSE a.periodo
<1>1. Enriched(i, a) =
        [titulo |-> Or(a.titulo, i.titulo), ies |-> Or(a.ies, i.ies), link |-> i.link,
         text |-> i.text, area |-> Or(a.area, i.area), nivel |-> Or(a.nivel, i.nivel),
         modalidade |-> Or(a.modalidade, i.modalidade), periodo |-> p,
         gratuito |-> Or(a.gratuito, i.gratuito), confidence |-> i.confidence,
         enriched |-> TRUE]
  <2> DEFINE e == Enriched(i, a)
  <2>1. /\ e.titulo = Or(a.titulo, i.titulo) /\ e.ies = Or(a.ies, i.ies)
        /\ e.link = i.link /\ e.text = i.text /\ e.area = Or(a.area, i.area)
        /\ e.nivel = Or(a.nivel, i.nivel) /\ e.modalidade = Or(a.modalidade, i.modalidade)
        /\ e.gratuito = Or(a.gratuito, i.gratuito) /\ e.confidence = i.confidence
        /\ e.enriched = TRUE
    BY DEF Enriched, ItemType
  <2>2. e.periodo = p
    BY DEF Enriched, ItemType
  <2>3. e = [f \in DOMAIN i |-> e[f]]
    BY DEF Enriched, ItemType
  <2>4. DOMAIN i = {"titulo", "ies", "link", "text", "area", "nivel", "modalidade", "periodo",
                    "gratuito", "confidence", "enriched"}
    BY DEF ItemType
  <2> HIDE DEF e, p
  <2> QED
    BY <2>1, <2>2, <2>3, <2>4 DEF e
<1>2. /\ Or(a.titulo, i.titulo) \in Texts /\ Or(a.ies, i.ies) \in Names
      /\ Or(a.area, i.area) \in Texts /\ Or(a.nivel, i.nivel) \in NivelValues
      /\ Or(a.modalidade, i.modalidade) \in ModalidadeValues
      /\ Or(a.gratuito, i.gratuito) \in BOOLEAN
  BY DEF Or, ItemType, AnswerType
<1>3. p \in Periodo \cup {None} /\ ~ Inverted(p)
  <2>1. i.periodo \in Periodo \cup {None} /\ a.periodo \in Periodo \cup {None}
    BY DEF ItemType, AnswerType
  <2>2. ~ Inverted(a.periodo)
    BY DEF EnrichRaises
  <2> HIDE DEF Inverted
  <2> QED
    BY <2>1, <2>2
<1> HIDE DEF p
<1>4. Enriched(i, a).periodo = p /\ Enriched(i, a).enriched
  BY <1>1
<1> QED
  BY <1>1, <1>2, <1>3, <1>4 DEF ItemType

LEMMA SummaryTyped ==
    ASSUME item \in ItemType
    PROVE  Summary \in Texts
  BY DEF Summary, ItemType

LEMMA AreaTyped == ASSUME NEW words PROVE AreaOf(words, None) \in ToSet(Areas) \cup {None}
<1> DEFINE S == {c \in ToSet(Areas) : /\ Hits(c, words) > 0
                                      /\ \A d \in ToSet(Areas) : Hits(d, words) <= Hits(c, words)}
           best == Sift(Areas, S)
<1>1. AreaOf(words, None) = IF best = <<>> THEN None ELSE best[1]
  BY DEF AreaOf
<1>2. Areas \in Seq(DOMAIN KeywordsOf)
  BY RulesAssumption
<1> HIDE DEF S
<1>3. /\ Len(best) \in Nat /\ DOMAIN best = 1 .. Len(best) /\ best \in Seq(DOMAIN KeywordsOf)
      /\ \A k \in DOMAIN best : best[k] \in ToSet(Areas)
  BY <1>2, SiftElements
<1> HIDE DEF best
<1>4. best # <<>> => 1 \in DOMAIN best
  BY <1>3
<1> QED
  BY <1>1, <1>3, <1>4

LEMMA NewRowTyped ==
    ASSUME item \in ItemType, InHand, item # None
    PROVE  NewRow \in RowType /\ Readable(NewRow)
<1>1. Summary \in Texts /\ AreaOf(Words, None) \in ToSet(Areas) \cup {None}
  BY SummaryTyped, AreaTyped
<1> DEFINE code == IF IesRow = {} THEN None ELSE CHOOSE c \in IesRow : TRUE
<1>2. code \in DOMAIN Institutions \cup {None}
  BY DEF IesRow, FoundIes
<1>3. /\ item.nivel \in NivelValues /\ item.modalidade \in ModalidadeValues
      /\ item.periodo \in Periodo \cup {None} /\ item.gratuito \in BOOLEAN
      /\ item.titulo \in Texts /\ item.link \in STRING /\ item.enriched \in BOOLEAN
  BY DEF ItemType
<1>4. NewRow = [nivel |-> item.nivel, modalidade |-> item.modalidade, periodo |-> item.periodo,
                area |-> AreaOf(Words, None), gratuito |-> item.gratuito, ies |-> code,
                titulo |-> item.titulo, text |-> Summary, link |-> item.link,
                enriched |-> item.enriched]
  BY DEF NewRow
<1> HIDE DEF code
<1>5. NewRow \in RowType
  BY <1>1, <1>2, <1>3, <1>4 DEF RowType
<1>6. /\ NewRow.nivel = item.nivel /\ NewRow.modalidade = item.modalidade
      /\ NewRow.periodo = item.periodo
  BY <1>4
<1>7. ASSUME NEW p \in Periodo \cup {None}, ~ Inverted(p), p # None
      PROVE  p.de = None \/ p.ate = None \/ p.de <= p.ate
  <2>1. p.de \in Days \cup {None} /\ p.ate \in Days \cup {None}
    BY <1>7 DEF Periodo
  <2>2. Days \subseteq Nat
    BY ParsingConstants DEF Days
  <2>3. p.de = None \/ p.ate = None \/ ~ (p.de > p.ate)
    BY <1>7 DEF Inverted
  <2>4. CASE p.de # None /\ p.ate # None
    <3>1. p.de \in Nat /\ p.ate \in Nat
      BY <2>1, <2>2, <2>4
    <3> QED
      BY <2>3, <2>4, <3>1
  <2> QED
    BY <2>4
<1>8. Readable(NewRow)
  BY <1>3, <1>6, <1>7 DEF Readable, InHand
<1> QED
  BY <1>5, <1>8

LEMMA MergedTyped ==
    ASSUME item \in ItemType, NEW row \in RowType, Readable(row)
    PROVE  Merged(row) \in RowType /\ Readable(Merged(row))
<1>1. Merged(row) = [nivel |-> row.nivel, modalidade |-> row.modalidade,
                     periodo |-> row.periodo, area |-> row.area, gratuito |-> row.gratuito,
                     ies |-> row.ies, titulo |-> row.titulo, text |-> Summary,
                     link |-> row.link, enriched |-> row.enriched]
  BY DEF RowType, Merged
<1>2. Merged(row) \in RowType
  BY <1>1, SummaryTyped DEF RowType
<1>3. /\ Merged(row).nivel = row.nivel /\ Merged(row).modalidade = row.modalidade
      /\ Merged(row).periodo = row.periodo
  BY <1>1
<1> QED
  BY <1>2, <1>3 DEF Readable

RowsTyped == \A k \in DOMAIN rows : rows[k] \in RowType /\ Readable(rows[k])
OneMatchTyped(m) == m.ies \in Names /\ m.sub \in Subs /\ m.wl \subseteq DOMAIN Institutions
MatchesTyped == \A m \in matches : OneMatchTyped(m)

LEMMA StoredItem ==
    ASSUME RInv, item # None, Done, RowsTyped', MatchesTyped'
    PROVE  RInv'
<1>1. /\ item \in ItemType /\ Going /\ due = taken + Len(feed) + 1 /\ Len(feed) \in Nat
      /\ due \in Nat /\ taken \in Nat /\ taken < due
  BY OpenFeed
<1>2. item' = None /\ taken' = taken + 1 /\ UNCHANGED <<wl, feeds, due>>
  BY DEF Done
<1>3. CASE UNCHANGED <<feed, letter, mishap>>
  <2>1. ReadingTypeOK'
    BY <1>1, <1>2, <1>3 DEF RInv, ReadingTypeOK, RowsTyped, MatchesTyped, OneMatchTyped
  <2>2. Accounted'
    BY <1>1, <1>2, <1>3 DEF Accounted, Going
  <2> QED
    BY <1>2, <2>1, <2>2 DEF RInv, InHand
<1>4. CASE feed' = <<>> /\ Handled("commit")
  <2>1. \/ letter' = TRUE /\ mishap' = "commit"
        \/ letter' = FALSE /\ mishap' = "push"
    BY <1>1, <1>4 DEF Handled, Going, RInv, ReadingTypeOK
  <2>2. letter' \in BOOLEAN /\ mishap' \in Mishaps
    BY <2>1 DEF Mishaps
  <2>3. <<>> \in Seq(ItemType)
    OBVIOUS
  <2>4. ReadingTypeOK'
    BY <1>1, <1>2, <1>4, <2>2, <2>3 DEF RInv, ReadingTypeOK, RowsTyped, MatchesTyped, OneMatchTyped
  <2>5. Accounted'
    BY <1>2, <1>4, <2>1 DEF Accounted, Going
  <2> QED
    BY <1>2, <2>4, <2>5 DEF RInv, InHand
<1> QED
  BY <1>3, <1>4 DEF Done

LEMMA RecordsTyped ==
    ASSUME RInv, item # None, NEW row
    PROVE  \A m \in Records(Interested(row)) : OneMatchTyped(m)
<1>1. item.ies \in Names /\ wl \subseteq DOMAIN Institutions
  BY OpenFeed DEF ItemType, RInv, ReadingTypeOK
<1> QED
  BY <1>1 DEF Records, Interested, OneMatchTyped

LEMMA RInvReads == ASSUME RInv, RowsAreRows, ReadingNext PROVE RInv'
<1>0. RowsTyped /\ MatchesTyped
  BY DEF RInv, ReadingTypeOK, RowsTyped, MatchesTyped, OneMatchTyped
<1>1. ASSUME NEW r \in Responses, NEW eligible \in Whitelists, BeginFeed(r, eligible) PROVE RInv'
  <2>1. Yields(r) \in Seq(ItemType) /\ Len(Yields(r)) \in 0 .. Limit
    BY YieldsTyped
  <2>2. /\ item = None /\ feeds < MaxFeeds /\ feeds' = feeds + 1 /\ feed' = Yields(r)
        /\ due' = Len(Yields(r)) /\ taken' = 0 /\ letter' = FALSE /\ mishap' = "none"
        /\ wl' = eligible
        /\ UNCHANGED <<item, rows, matches>>
    BY <1>1 DEF BeginFeed, tables
  <2>3. feeds' \in 0 .. MaxFeeds /\ wl' \subseteq DOMAIN Institutions
    BY <2>2, ReadingConstants DEF RInv, ReadingTypeOK
  <2>4. due' \in 0 .. Limit /\ taken' \in 0 .. due'
    BY <2>1, <2>2
  <2>5. ReadingTypeOK'
    BY <2>1, <2>2, <2>3, <2>4 DEF RInv, ReadingTypeOK, Mishaps
  <2>6. Accounted'
    BY <2>1, <2>2 DEF Accounted, Going
  <2> QED
    BY <2>2, <2>5, <2>6 DEF RInv, InHand
<1>2. CASE ItemRaises
  BY <1>2, GivenUp DEF ItemRaises
<1>3. CASE NextItem
  BY <1>3, HeadTyped, Taken DEF NextItem
<1>4. ASSUME NEW a \in Answers, EnrichItem(a) PROVE RInv'
  <2>1. item = None /\ feed # <<>> /\ ~ Inverted(Head(feed).periodo) /\ a \in AnswerType
    BY <1>4, ReadingConstants DEF EnrichItem
  <2>2. CASE EnrichRaises(a)
    BY <1>4, <2>1, <2>2, GivenUp DEF EnrichItem
  <2>3. CASE ~ EnrichRaises(a)
    <3>1. Enriched(Head(feed), a) \in ItemType /\ ~ Inverted(Enriched(Head(feed), a).periodo)
      BY <2>1, <2>3, HeadTyped, EnrichedTyped
    <3> QED
      BY <1>4, <2>1, <2>3, <3>1, Taken DEF EnrichItem
  <2> QED
    BY <2>2, <2>3
<1>5. CASE StatementRaises \/ IesIsAmbiguous
  BY <1>5, GivenUp DEF StatementRaises, IesIsAmbiguous
<1>10. CASE Stopped
  BY <1>10, StoppedFeed
<1>6. CASE InsertItem
  <2>1. /\ item # None /\ Done
        /\ rows' = [k \in DOMAIN rows \cup {Key} |-> IF k = Key THEN NewRow ELSE rows[k]]
        /\ matches' = matches \cup Records(Interested(NewRow))
    BY <1>6 DEF InsertItem
  <2>2. NewRow \in RowType /\ Readable(NewRow)
    BY <2>1, OpenFeed, NewRowTyped DEF RInv
  <2>3. RowsTyped' /\ MatchesTyped'
    BY <1>0, <2>1, <2>2, RecordsTyped DEF RowsTyped, MatchesTyped
  <2> QED
    BY <2>1, <2>3, StoredItem
<1>7. ASSUME Key \in DOMAIN rows, rows' = [rows EXCEPT ![Key] = Merged(rows[Key])], item # None
      PROVE  RowsTyped'
  <2>1. /\ DOMAIN rows' = DOMAIN rows
        /\ \A k \in DOMAIN rows : rows'[k] = IF k = Key THEN Merged(rows[Key]) ELSE rows[k]
    BY <1>7 DEF RowsAreRows
  <2>2. Merged(rows[Key]) \in RowType /\ Readable(Merged(rows[Key]))
    BY <1>0, <1>7, OpenFeed, MergedTyped DEF RowsTyped
  <2> QED
    BY <1>0, <2>1, <2>2 DEF RowsTyped
<1>8. CASE CosmeticChange
  <2>1. /\ item # None /\ Done /\ matches' = matches /\ Key \in DOMAIN rows
        /\ rows' = [rows EXCEPT ![Key] = Merged(rows[Key])]
    BY <1>8, Zenon DEF CosmeticChange
  <2> QED
    BY <1>0, <1>7, <2>1, StoredItem DEF MatchesTyped
<1>9. CASE UpdateItem
  <2>1. CASE \E s \in Interested(Merged(rows[Key])) : HasMatch(s)
    BY <1>9, <2>1, GivenUp DEF UpdateItem
  <2>2. CASE ~ \E s \in Interested(Merged(rows[Key])) : HasMatch(s)
    <3>1. /\ item # None /\ Key \in DOMAIN rows /\ Done
          /\ rows' = [rows EXCEPT ![Key] = Merged(rows[Key])]
          /\ matches' = matches \cup Records(Interested(Merged(rows[Key])))
      BY <1>9, <2>2 DEF UpdateItem
    <3>2. MatchesTyped'
      BY <1>0, <3>1, RecordsTyped DEF MatchesTyped
    <3> QED
      BY <1>7, <3>1, <3>2, StoredItem
  <2> QED
    BY <2>1, <2>2
<1> QED
  BY <1>1, <1>2, <1>3, <1>4, <1>5, <1>6, <1>8, <1>9, <1>10 DEF ReadingNext

LEMMA ReadsOrRests ==
    ASSUME [Next]_vars
    PROVE  ReadingNext \/ UNCHANGED readingVars
  BY DEF Next, Reads, BeginWalk, CountRows, ReadPage, Midnight, vars

LEMMA RInvInvariant == Spec => [](RInv /\ IInv)
<1>1. Init => RInv /\ IInv
  <2>1. ASSUME Init PROVE RInv
    <3>1. <<>> \in Seq(ItemType) /\ Len(<<>>) = 0
      OBVIOUS
    <3>2. /\ feed = <<>> /\ item = None /\ wl = {} /\ DOMAIN rows = {} /\ matches = {}
          /\ feeds = 0 /\ due = 0 /\ taken = 0 /\ letter = FALSE /\ mishap = "none"
      BY <2>1 DEF Init, ReadingInit
    <3>3. 0 \in 0 .. MaxFeeds /\ 0 \in 0 .. Limit /\ 0 \in 0 .. 0
      BY ReadingConstants, ParsingConstants
    <3>4. ReadingTypeOK
      BY <3>1, <3>2, <3>3 DEF ReadingTypeOK, Mishaps
    <3> QED
      BY <3>1, <3>2, <3>4 DEF RInv, Accounted, Going, InHand
  <2> QED
    BY <2>1 DEF Init, ReadingInit, IInv, RowsAreRows, MatchJustified
<1>2. RInv /\ IInv /\ [Next]_vars => (RInv /\ IInv)'
  <2> SUFFICES ASSUME RInv, IInv, [Next]_vars PROVE RInv' /\ IInv'
    OBVIOUS
  <2>1. IInv'
    BY StepIInv
  <2>2. CASE ReadingNext
    BY <2>1, <2>2, RInvReads DEF IInv
  <2>3. CASE UNCHANGED readingVars
    BY <2>1, <2>3 DEF RInv, ReadingTypeOK, Accounted, Going, InHand, readingVars, tables
  <2> QED
    BY <2>2, <2>3, ReadsOrRests
<1> QED
  BY <1>1, <1>2, PTL DEF Spec

(***************************************************************************)
(* Types; and every stored row can be read again: its level, its modality  *)
(* and its period are such as EditalModel.to_entity builds, whatever the   *)
(* pages and the LLM say.                                                  *)
(***************************************************************************)
THEOREM ReadingTyped == Spec => []ReadingTypeOK
<1>1. RInv /\ IInv => ReadingTypeOK
  BY DEF RInv
<1> QED
  BY <1>1, RInvInvariant, PTL

(***************************************************************************)
(* A feed that loses an item has pushed a dead letter, unless the push     *)
(* raised or the process stopped, and one that is stored whole has not,    *)
(* unless the answer to a commit was lost (_process_url, get_session).     *)
(***************************************************************************)
THEOREM LettersTellLosses == Spec => []LossLeavesTrace
<1>1. RInv => LossLeavesTrace
  <2> SUFFICES ASSUME RInv, item = None, feed = <<>> PROVE LossLeavesTrace
    BY DEF LossLeavesTrace
  <2>1. /\ taken \in Nat /\ due \in Nat /\ Len(<<>>) = 0
        /\ letter \in BOOLEAN /\ mishap \in Mishaps
    BY DEF RInv, ReadingTypeOK
  <2>2. CASE Going
    <3>1. due = taken /\ ~ letter
      BY <2>1, <2>2 DEF RInv, Accounted, Going
    <3> QED
      BY <2>1, <3>1 DEF LossLeavesTrace
  <2>3. CASE ~ Going
    <3>1. letter \/ mishap \in {"push", "stop"}
      BY <2>1, <2>3 DEF RInv, Accounted, Going, Mishaps
    <3> QED
      BY <3>1 DEF RInv, Accounted, LossLeavesTrace
  <2> QED
    BY <2>2, <2>3
<1> QED
  BY <1>1, RInvInvariant, PTL

-----------------------------------------------------------------------------
(* One page, one announcement.                                             *)

\* A key that says of its row what the row says of itself and, unless the LLM has read
\* the page, what the page says.
Labels(k, row) ==
    /\ k = [titulo |-> k.titulo, ies |-> k.ies, nivel |-> row.nivel,
            modalidade |-> row.modalidade, periodo |-> row.periodo]
    /\ ~ row.enriched =>
         \E r \in Responses : \E e \in Written(r) :
           k.titulo = Normalized(e.title) /\ k.ies = AsciiName[r.ies] /\ row.link = e.link

\* Only what the LLM has touched says anything that is on no page.
AsOnPage ==
    /\ \A i \in DOMAIN feed : FromPage(feed[i])
    /\ item # None /\ ~ item.enriched => FromPage(item)
    /\ \A k \in DOMAIN rows : Labels(k, rows[k])

LEMMA NewRowLabelled ==
    ASSUME AsOnPage, item # None
    PROVE  Labels(Key, NewRow)
<1>1. Key = [titulo |-> Normalized(item.titulo), ies |-> AsciiName[item.ies],
             nivel |-> item.nivel, modalidade |-> item.modalidade, periodo |-> item.periodo]
  BY DEF Key, CanonicalHash
<1>2. /\ NewRow.nivel = item.nivel /\ NewRow.modalidade = item.modalidade
      /\ NewRow.periodo = item.periodo /\ NewRow.enriched = item.enriched
      /\ NewRow.link = item.link
  BY DEF NewRow
<1>3. ASSUME ~ item.enriched
      PROVE  \E r \in Responses : \E e \in Written(r) :
               /\ Key.titulo = Normalized(e.title) /\ Key.ies = AsciiName[r.ies]
               /\ NewRow.link = e.link
  <2>1. PICK r \in Responses : \E e \in Written(r) : OfEntry(item, e, r.ies)
    BY <1>3 DEF AsOnPage, FromPage
  <2>2. PICK e \in Written(r) : OfEntry(item, e, r.ies)
    BY <2>1
  <2> QED
    BY <1>1, <1>2, <2>2 DEF OfEntry
<1> QED
  BY <1>1, <1>2, <1>3 DEF Labels

LEMMA MergeLabelled ==
    ASSUME NEW k, NEW row, IsRow(row), Labels(k, row)
    PROVE  Labels(k, Merged(row))
<1>1. Merged(row) = [nivel |-> row.nivel, modalidade |-> row.modalidade,
                     periodo |-> row.periodo, area |-> row.area, gratuito |-> row.gratuito,
                     ies |-> row.ies, titulo |-> row.titulo, text |-> Summary,
                     link |-> row.link, enriched |-> row.enriched]
  BY DEF IsRow, Merged
<1> QED
  BY <1>1 DEF Labels

LEMMA StaysOnPage == ASSUME RInv, RowsAreRows, AsOnPage, ReadingNext PROVE AsOnPage'
<1>1. ASSUME NEW r \in Responses, NEW eligible \in Whitelists, BeginFeed(r, eligible)
      PROVE  AsOnPage'
  BY <1>1, YieldsTyped DEF BeginFeed, tables, AsOnPage
<1>2. ASSUME item' = None, feed' = <<>> \/ feed' = feed, UNCHANGED rows PROVE AsOnPage'
  BY <1>2 DEF AsOnPage
<1>3. ASSUME GiveUp PROVE AsOnPage'
  BY <1>2, <1>3 DEF GiveUp, tables
<1>4. ASSUME item = None, feed # <<>>
      PROVE  FromPage(Head(feed)) /\ \A i \in DOMAIN Tail(feed) : FromPage(Tail(feed)[i])
  <2>1. feed \in Seq(ItemType)
    BY DEF RInv, ReadingTypeOK
  <2>2. Len(feed) \in Nat /\ DOMAIN feed = 1 .. Len(feed) /\ Len(feed) # 0
    BY <1>4, <2>1, EmptySeq
  <2>3. Head(feed) = feed[1] /\ Len(Tail(feed)) = Len(feed) - 1
        /\ \A i \in 1 .. Len(Tail(feed)) : Tail(feed)[i] = feed[i + 1]
    BY <1>4, <2>1, HeadTailProperties
  <2>4. DOMAIN Tail(feed) = 1 .. Len(feed) - 1
    BY <1>4, <2>1, <2>2, <2>3
  <2> QED
    BY <2>2, <2>3, <2>4 DEF AsOnPage
<1>5. ASSUME NEW i, item = None, feed # <<>>, Take(i), ~ i.enriched => FromPage(i)
      PROVE  AsOnPage'
  BY <1>4, <1>5 DEF Take, tables, AsOnPage
<1>6. CASE NextItem
  BY <1>4, <1>5, <1>6 DEF NextItem
<1>7. ASSUME NEW a \in Answers, EnrichItem(a) PROVE AsOnPage'
  <2>1. item = None /\ feed # <<>> /\ ~ Inverted(Head(feed).periodo) /\ a \in AnswerType
    BY <1>7, ReadingConstants DEF EnrichItem
  <2>2. CASE EnrichRaises(a)
    BY <1>3, <1>7, <2>2 DEF EnrichItem
  <2>3. CASE ~ EnrichRaises(a)
    <3>1. Enriched(Head(feed), a).enriched
      BY <2>1, <2>3, HeadTyped, EnrichedTyped
    <3> QED
      BY <1>5, <1>7, <2>1, <2>3, <3>1 DEF EnrichItem
  <2> QED
    BY <2>2, <2>3
<1>8. CASE Stopped \/ ItemRaises \/ StatementRaises \/ IesIsAmbiguous
  BY <1>2, <1>3, <1>8 DEF Stopped, ItemRaises, StatementRaises, IesIsAmbiguous, tables
<1>9. CASE InsertItem
  <2>1. /\ item' = None /\ (feed' = feed \/ feed' = <<>>) /\ item # None
        /\ rows' = [k \in DOMAIN rows \cup {Key} |-> IF k = Key THEN NewRow ELSE rows[k]]
    BY <1>9 DEF InsertItem, Done
  <2> QED
    BY <2>1, NewRowLabelled DEF AsOnPage
<1>10. ASSUME Key \in DOMAIN rows, rows' = [rows EXCEPT ![Key] = Merged(rows[Key])], Done
       PROVE  AsOnPage'
  <2>1. /\ DOMAIN rows' = DOMAIN rows
        /\ \A k \in DOMAIN rows : rows'[k] = IF k = Key THEN Merged(rows[Key]) ELSE rows[k]
    BY <1>10 DEF RowsAreRows
  <2>2. item' = None /\ (feed' = feed \/ feed' = <<>>)
    BY <1>10 DEF Done
  <2>3. IsRow(rows[Key]) /\ Labels(Key, rows[Key])
    BY <1>10 DEF RowsAreRows, AsOnPage
  <2>4. Labels(Key, Merged(rows[Key]))
    BY <2>3, MergeLabelled
  <2> QED
    BY <2>1, <2>2, <2>4 DEF AsOnPage
<1>11. CASE CosmeticChange
  <2>1. Key \in DOMAIN rows /\ rows' = [rows EXCEPT ![Key] = Merged(rows[Key])] /\ Done
    BY <1>11, Zenon DEF CosmeticChange
  <2> QED
    BY <1>10, <2>1
<1>12. CASE UpdateItem
  <2>1. CASE \E s \in Interested(Merged(rows[Key])) : HasMatch(s)
    BY <1>3, <1>12, <2>1 DEF UpdateItem
  <2>2. CASE ~ \E s \in Interested(Merged(rows[Key])) : HasMatch(s)
    BY <1>10, <1>12, <2>2 DEF UpdateItem
  <2> QED
    BY <2>1, <2>2
<1> QED
  BY <1>1, <1>6, <1>7, <1>8, <1>9, <1>11, <1>12 DEF ReadingNext

(***************************************************************************)
(* Where the pages keep their titles, the accents apart: a subscriber is   *)
(* told twice of one page only if the LLM has read it or the page has      *)
(* changed its level, its modality or its dates (canonical_hash).  What is *)
(* stored without the LLM stands under a key that says what is on the      *)
(* page, and an update leaves alone all that the key is made of.           *)
(***************************************************************************)
THEOREM SecondAnnouncementHasCause ==
    ASSUME TitlesStable
    PROVE  Spec => []AnnouncedTwiceHasCause
<1>1. Init => AsOnPage
  BY DEF Init, ReadingInit, AsOnPage
<1>2. AsOnPage /\ RInv /\ IInv /\ [Next]_vars => AsOnPage'
  <2> SUFFICES ASSUME AsOnPage, RInv, IInv, [Next]_vars PROVE AsOnPage'
    OBVIOUS
  <2>1. CASE ReadingNext
    BY <2>1, StaysOnPage DEF IInv
  <2>2. CASE UNCHANGED readingVars
    BY <2>2 DEF AsOnPage, readingVars, tables
  <2> QED
    BY <2>1, <2>2, ReadsOrRests
<1>3. AsOnPage /\ IInv => AnnouncedTwiceHasCause
  <2> SUFFICES ASSUME AsOnPage, IInv, NEW m \in matches, NEW n \in matches,
                      m.key # n.key, rows[m.key].link = rows[n.key].link,
                      ~ rows[m.key].enriched, ~ rows[n.key].enriched,
                      <<rows[m.key].nivel, rows[m.key].modalidade, rows[m.key].periodo>>
                        = <<rows[n.key].nivel, rows[n.key].modalidade, rows[n.key].periodo>>
               PROVE  FALSE
    BY DEF AnnouncedTwiceHasCause
  <2>1. m.key \in DOMAIN rows /\ n.key \in DOMAIN rows
    BY DEF IInv, MatchJustified
  <2>2. Labels(m.key, rows[m.key]) /\ Labels(n.key, rows[n.key])
    BY <2>1 DEF AsOnPage
  <2>3. m.key.titulo = n.key.titulo /\ m.key.ies = n.key.ies
    BY <2>2 DEF Labels, TitlesStable
  <2>4. /\ rows[m.key].nivel = rows[n.key].nivel
        /\ rows[m.key].modalidade = rows[n.key].modalidade
        /\ rows[m.key].periodo = rows[n.key].periodo
    OBVIOUS
  <2> QED
    BY <2>2, <2>3, <2>4 DEF Labels
<1> QED
  BY <1>1, <1>2, <1>3, RInvInvariant, PTL DEF Spec

-----------------------------------------------------------------------------
(* A walk through the pages of the listing.                                *)

\* A sequence that has every element of a finite set once has nothing else.
LEMMA Enumerates ==
    ASSUME NEW S, IsFiniteSet(S), NEW s \in SetToSeqs(S)
    PROVE  /\ s \in Seq(S) /\ Len(s) = Cardinality(S) /\ Len(s) \in Nat
           /\ DOMAIN s = 1 .. Len(s)
           /\ \A i, j \in DOMAIN s : i # j => s[i] # s[j]
           /\ \A k \in S : \E i \in DOMAIN s : s[i] = k
<1> DEFINE n == Cardinality(S)
<1>1. n \in Nat
  BY FS_CardinalityType
<1>2. s \in [1 .. n -> S] /\ \A i, j \in 1 .. n : i # j => s[i] # s[j]
  BY DEF SetToSeqs
<1> HIDE DEF n
<1>3. s \in Seq(S) /\ Len(s) = n /\ DOMAIN s = 1 .. n
  BY <1>1, <1>2
<1>4. s \in Injection(1 .. n, S)
  BY <1>2 DEF Injection, IsInjective
<1>5. Cardinality(1 .. n) = n
  <2>1. Cardinality(1 .. n) = IF 1 > n THEN 0 ELSE n - 1 + 1
    BY <1>1, FS_Interval
  <2> QED
    BY <1>1, <2>1
<1>6. s \in Surjection(1 .. n, S)
  BY <1>4, <1>5, FS_Injection DEF n
<1> QED
  BY <1>1, <1>2, <1>3, <1>6 DEF Surjection, n

\* There is one enumeration of a set along a strict order.
LEMMA OneOrder ==
    ASSUME NEW S, IsFiniteSet(S), NEW R,
           \A a, b \in S : <<a, b>> \in R => <<b, a>> \notin R,
           NEW s \in SetToSeqs(S), NEW t \in SetToSeqs(S),
           \A i, j \in DOMAIN s : i < j => <<s[i], s[j]>> \in R,
           \A i, j \in DOMAIN t : i < j => <<t[i], t[j]>> \in R
    PROVE  s = t
<1>1. /\ s \in Seq(S) /\ t \in Seq(S) /\ Len(s) = Len(t) /\ Len(s) \in Nat
      /\ DOMAIN s = 1 .. Len(s) /\ DOMAIN t = 1 .. Len(s)
  BY Enumerates
<1>0. /\ \A k \in S : (\E i \in 1 .. Len(s) : s[i] = k) /\ \E i \in 1 .. Len(s) : t[i] = k
      /\ \A i, j \in 1 .. Len(s) : i # j => s[i] # s[j] /\ t[i] # t[j]
  <2>1. \A k \in S : \E i \in DOMAIN s : s[i] = k
    BY Enumerates
  <2>2. \A k \in S : \E i \in DOMAIN t : t[i] = k
    BY Enumerates
  <2>3. \A i, j \in DOMAIN s : i # j => s[i] # s[j]
    BY Enumerates
  <2>4. \A i, j \in DOMAIN t : i # j => t[i] # t[j]
    BY Enumerates
  <2> QED
    BY <1>1, <2>1, <2>2, <2>3, <2>4
<1> DEFINE apart == {i \in 1 .. Len(s) : s[i] # t[i]}
<1>2. CASE apart # {}
  <2>1. PICK i \in apart : \A j \in apart : i <= j
    <3>1. apart \subseteq Nat
      BY <1>1
    <3> QED
      BY <1>2, <3>1, LeastOfSet
  <2>2. i \in 1 .. Len(s) /\ s[i] # t[i] /\ \A j \in 1 .. Len(s) : j < i => s[j] = t[j]
    BY <1>1, <2>1
  <2>3. s[i] \in S /\ t[i] \in S
    BY <1>1, <2>2
  <2>4. PICK j \in 1 .. Len(s) : t[j] = s[i]
    BY <1>0, <2>3
  <2>5. i < j
    <3>1. i # j
      BY <2>2, <2>4
    <3>2. j < i => s[j] = s[i] /\ j # i
      BY <2>2, <2>4
    <3>3. ~ (j < i)
      BY <1>0, <2>2, <3>2
    <3> QED
      BY <1>1, <2>2, <3>1, <3>3
  <2>6. PICK k \in 1 .. Len(s) : s[k] = t[i]
    BY <1>0, <2>3
  <2>7. i < k
    <3>1. i # k
      BY <2>2, <2>6
    <3>2. k < i => t[k] = t[i] /\ k # i
      BY <2>2, <2>6
    <3>3. ~ (k < i)
      BY <1>0, <2>2, <3>2
    <3> QED
      BY <1>1, <2>2, <3>1, <3>3
  <2>8. <<t[i], s[i]>> \in R /\ <<s[i], t[i]>> \in R
    BY <1>1, <2>2, <2>4, <2>5, <2>6, <2>7
  <2> QED
    BY <2>3, <2>8
<1>3. CASE apart = {}
  BY <1>1, <1>3, SeqEqual
<1> QED
  BY <1>2, <1>3

\* Without ties the sort has one outcome.
LEMMA OneListing ==
    ASSUME NEW S, IsFiniteSet(S), NoTies(S), \A k \in S : Ate(rows[k]) \in Nat \cup {None},
           NEW s \in SetToSeqs(S), NEW t \in SetToSeqs(S), Ordered(s), Ordered(t)
    PROVE  s = t
<1> DEFINE R == {p \in S \X S :
                  /\ Ate(rows[p[1]]) # None
                  /\ Ate(rows[p[2]]) = None \/ Ate(rows[p[1]]) < Ate(rows[p[2]])}
<1>1. ASSUME NEW a \in S, NEW b \in S, <<a, b>> \in R PROVE <<b, a>> \notin R
  BY <1>1
<1>2. ASSUME NEW u \in SetToSeqs(S), Ordered(u), NEW i \in DOMAIN u, NEW j \in DOMAIN u, i < j
      PROVE  <<u[i], u[j]>> \in R
  <2>1. u[i] \in S /\ u[j] \in S /\ u[i] # u[j]
    <3>1. u \in Seq(S) /\ DOMAIN u = 1 .. Len(u) /\ Len(u) \in Nat
          /\ \A k, l \in DOMAIN u : k # l => u[k] # u[l]
      BY Enumerates
    <3> QED
      BY <1>2, <3>1
  <2>2. Ate(rows[u[i]]) # Ate(rows[u[j]])
    BY <2>1 DEF NoTies
  <2>3. Ate(rows[u[j]]) # None => Ate(rows[u[i]]) # None /\ Ate(rows[u[i]]) <= Ate(rows[u[j]])
    BY <1>2 DEF Ordered
  <2>4. Ate(rows[u[i]]) \in Nat \cup {None} /\ Ate(rows[u[j]]) \in Nat \cup {None}
    BY <2>1
  <2> QED
    BY <2>1, <2>2, <2>3, <2>4
<1> HIDE DEF R
<1> QED
  BY <1>1, <1>2, OneOrder

WalkFields == {"onlyOpen", "total", "shown", "ended", "offset", "quiet"}
Asked == Selected(walk.onlyOpen)
Upto(n, s) == IF n < Len(s) THEN n ELSE Len(s)

\* A walk that nothing disturbs has shown the beginning of the listing, as far as it
\* has come, and the last total it has read is still the number of rows there are.
Walking ==
    walk # None =>
      /\ walk = [f \in WalkFields |-> walk[f]]
      /\ walk.offset \in Nat
      /\ walk.quiet /\ walk.total # None => walk.total = Cardinality(Asked)
      /\ walk.quiet /\ NoTies(Asked) =>
           /\ ~ walk.ended => \A s \in SetToSeqs(Asked) :
                Ordered(s) => walk.shown = SubSeq(s, 1, Upto(walk.offset, s))
           /\ walk.ended => /\ Len(walk.shown) = Cardinality(Asked)
                            /\ ToSet(walk.shown) = Asked

FiniteTable == IsFiniteSet(DOMAIN rows)

LEMMA ListedRows ==
    ASSUME RInv, FiniteTable
    PROVE  /\ \A k \in DOMAIN rows : Ate(rows[k]) \in Nat \cup {None}
           /\ IsFiniteSet(Asked) /\ Asked \subseteq DOMAIN rows
<1>1. ASSUME NEW k \in DOMAIN rows PROVE Ate(rows[k]) \in Nat \cup {None}
  <2>1. rows[k].periodo \in Periodo \cup {None}
    BY DEF RInv, ReadingTypeOK, RowType
  <2>2. rows[k].periodo # None => rows[k].periodo.ate \in Days \cup {None}
    BY <2>1 DEF Periodo
  <2>3. Days \subseteq Nat
    BY ParsingConstants DEF Days
  <2> QED
    BY <2>2, <2>3 DEF Ate
<1>2. Asked \subseteq DOMAIN rows
  BY DEF Asked, Selected
<1> QED
  BY <1>1, <1>2, FS_Subset DEF FiniteTable

\* A page continues what has been shown, and the last one completes it.
LEMMA PageContinues ==
    ASSUME RInv, FiniteTable, Walking, ReadPage
    PROVE  Walking'
<1>1. PICK s \in SetToSeqs(Asked) :
        /\ Ordered(s)
        /\ walk' = [walk EXCEPT
                     !.shown  = walk.shown \o SubSeq(s, walk.offset + 1, Upto(walk.offset + PageSize, s)),
                     !.offset = walk.offset + PageSize,
                     !.total  = None,
                     !.ended  = walk.offset + PageSize >= walk.total]
  BY DEF ReadPage, Asked, Upto
<1>2. walk # None /\ ~ walk.ended /\ walk.total # None /\ UNCHANGED <<rows, today>>
  BY DEF ReadPage, readingVars, tables
<1>3. walk = [f \in WalkFields |-> walk[f]] /\ walk.offset \in Nat
  BY <1>2 DEF Walking
<1>4. /\ walk'.shown = walk.shown \o SubSeq(s, walk.offset + 1, Upto(walk.offset + PageSize, s))
      /\ walk'.offset = walk.offset + PageSize /\ walk'.total = None
      /\ walk'.quiet = walk.quiet /\ walk'.onlyOpen = walk.onlyOpen
  BY <1>1, <1>3 DEF WalkFields
<1>5. walk'.ended <=> walk.offset + PageSize >= walk.total
  BY <1>1, <1>3 DEF WalkFields
<1>6. walk' = [f \in WalkFields |-> walk'[f]]
  BY <1>1, <1>3 DEF WalkFields
<1>7. Asked' = Asked
  BY <1>2, <1>4 DEF Asked, Selected, Ate
<1>8. PageSize \in Nat
  BY ListingAssumption
<1>9. ASSUME walk.quiet, NoTies(Asked)
      PROVE  walk'.shown = SubSeq(s, 1, Upto(walk.offset + PageSize, s))
  <2> DEFINE m == Upto(walk.offset, s)
             n == Upto(walk.offset + PageSize, s)
  <2>1. walk.shown = SubSeq(s, 1, m)
    BY <1>1, <1>2, <1>9 DEF Walking
  <2>2. s \in Seq(Asked) /\ Len(s) \in Nat
    BY ListedRows, Enumerates
  <2>3. m \in 0 .. Len(s) /\ n \in m .. Len(s)
    BY <1>3, <1>8, <2>2 DEF Upto
  <2>4. SubSeq(s, 1, m) \o SubSeq(s, m + 1, n) = SubSeq(s, 1, n)
    <3>1. 1 \in 1 .. Len(s) + 1 /\ m \in 1 - 1 .. Len(s) /\ n \in m .. Len(s)
      BY <2>2, <2>3
    <3> HIDE DEF m, n
    <3> QED
      BY <2>2, <3>1, ConcatAdjacentSubSeq
  <2>5. SubSeq(s, walk.offset + 1, n) = SubSeq(s, m + 1, n)
    <3>1. CASE walk.offset < Len(s)
      BY <3>1 DEF Upto
    <3>2. CASE ~ (walk.offset < Len(s))
      <4>1. m = Len(s) /\ n = Len(s) /\ walk.offset >= Len(s)
        BY <1>3, <1>8, <2>2, <3>2 DEF Upto
      <4> HIDE DEF m, n
      <4>2. n < walk.offset + 1 /\ n < m + 1
        BY <1>3, <2>2, <4>1
      <4>3. walk.offset + 1 \in Int /\ m + 1 \in Int /\ n \in Int
        BY <1>3, <2>2, <4>1
      <4> QED
        BY <4>2, <4>3, SubSeqEmpty
    <3> QED
      BY <3>1, <3>2
  <2> QED
    BY <1>4, <2>1, <2>4, <2>5
<1>10. ASSUME walk.quiet, NoTies(Asked), NEW t \in SetToSeqs(Asked), Ordered(t)
       PROVE  t = s
  BY <1>1, <1>10, ListedRows, OneListing
<1>11. ASSUME walk.quiet, NoTies(Asked), walk'.ended
       PROVE  Len(walk'.shown) = Cardinality(Asked) /\ ToSet(walk'.shown) = Asked
  <2>1. /\ s \in Seq(Asked) /\ Len(s) \in Nat /\ Len(s) = Cardinality(Asked)
        /\ DOMAIN s = 1 .. Len(s) /\ \A k \in Asked : \E i \in DOMAIN s : s[i] = k
    BY ListedRows, Enumerates
  <2>2. walk.offset + PageSize >= Len(s)
    BY <1>2, <1>5, <1>11, <2>1 DEF Walking
  <2>3. Upto(walk.offset + PageSize, s) = Len(s)
    BY <1>3, <1>8, <2>1, <2>2 DEF Upto
  <2>4. walk'.shown = s
    BY <1>9, <1>11, <2>1, <2>3, SubSeqFull
  <2>5. ToSet(s) = Asked
    BY <2>1 DEF ToSet
  <2> QED
    BY <2>1, <2>4, <2>5
<1>12. NoTies(Asked)' => NoTies(Asked)
  BY <1>2, <1>7 DEF NoTies, Ate
<1>13. ASSUME walk.quiet, NoTies(Asked), NEW t \in SetToSeqs(Asked), Ordered(t)'
       PROVE  walk'.shown = SubSeq(t, 1, Upto(walk.offset + PageSize, t))
  <2>1. Ordered(t)
    BY <1>2, <1>13 DEF Ordered, Ate
  <2> QED
    BY <1>9, <1>10, <1>13, <2>1
<1>14. walk'.offset \in Nat
  BY <1>3, <1>4, <1>8
<1> QED
  BY <1>4, <1>6, <1>7, <1>11, <1>12, <1>13, <1>14 DEF Walking, Upto

\* What is asked for, its order and its ties are those of the keys and their dates.
LEMMA QuietStep ==
    ASSUME Walking, DOMAIN rows' = DOMAIN rows, walk' = walk, today' = today,
           \A k \in DOMAIN rows : Ate(rows'[k]) = Ate(rows[k])
    PROVE  Walking'
<1>1. Asked' = Asked /\ Asked \subseteq DOMAIN rows
  BY DEF Asked, Selected, Ate
<1>2. NoTies(Asked)' <=> NoTies(Asked)
  BY <1>1 DEF NoTies, Ate
<1>3. ASSUME NEW s \in SetToSeqs(Asked) PROVE Ordered(s)' <=> Ordered(s)
  <2>1. \A i \in DOMAIN s : s[i] \in DOMAIN rows
    BY <1>1 DEF SetToSeqs
  <2> QED
    BY <2>1 DEF Ordered, Ate
<1> QED
  BY <1>1, <1>2, <1>3 DEF Walking, Upto

LEMMA NoisyStep ==
    ASSUME Walking, walk' = Disturbed
    PROVE  Walking'
<1>1. CASE walk # None
  <2>1. walk' = [walk EXCEPT !.quiet = FALSE] /\ walk = [f \in WalkFields |-> walk[f]]
    BY <1>1 DEF Disturbed, Walking
  <2>2. /\ walk'.quiet = FALSE /\ walk'.offset = walk.offset
        /\ walk' = [f \in WalkFields |-> walk'[f]]
    BY <2>1 DEF WalkFields
  <2> QED
    BY <1>1, <2>2 DEF Walking
<1>2. CASE walk = None
  BY <1>2 DEF Disturbed, Walking
<1> QED
  BY <1>1, <1>2

\* An update moves no date; only a new row changes which there are.
LEMMA ReadingMovesNoDate ==
    ASSUME RowsAreRows, FiniteTable, ReadingNext
    PROVE  /\ FiniteTable'
           /\ DOMAIN rows' = DOMAIN rows => \A k \in DOMAIN rows : Ate(rows'[k]) = Ate(rows[k])
<1>1. CASE rows' = rows
  BY <1>1 DEF FiniteTable
<1>2. CASE InsertItem
  <2>1. DOMAIN rows' = DOMAIN rows \cup {Key} /\ Key \notin DOMAIN rows
    BY <1>2 DEF InsertItem
  <2> QED
    BY <2>1, FS_AddElement DEF FiniteTable
<1>3. ASSUME Key \in DOMAIN rows, rows' = [rows EXCEPT ![Key] = Merged(rows[Key])]
      PROVE  DOMAIN rows' = DOMAIN rows /\ \A k \in DOMAIN rows : Ate(rows'[k]) = Ate(rows[k])
  <2>1. /\ DOMAIN rows' = DOMAIN rows
        /\ \A k \in DOMAIN rows : rows'[k] = IF k = Key THEN Merged(rows[Key]) ELSE rows[k]
    BY <1>3 DEF RowsAreRows
  <2>2. Merged(rows[Key]).periodo = rows[Key].periodo
    BY <1>3 DEF RowsAreRows, IsRow, Merged
  <2> QED
    BY <2>1, <2>2 DEF Ate
<1>4. CASE CosmeticChange
  <2>1. Key \in DOMAIN rows /\ rows' = [rows EXCEPT ![Key] = Merged(rows[Key])]
    BY <1>4, Zenon DEF CosmeticChange
  <2> QED
    BY <1>3, <2>1 DEF FiniteTable
<1>5. CASE UpdateItem
  <2>1. CASE \E s \in Interested(Merged(rows[Key])) : HasMatch(s)
    BY <1>1, <1>5, <2>1 DEF UpdateItem, GiveUp, tables
  <2>2. CASE ~ \E s \in Interested(Merged(rows[Key])) : HasMatch(s)
    BY <1>3, <1>5, <2>2 DEF UpdateItem, FiniteTable
  <2> QED
    BY <2>1, <2>2
<1>6. CASE ReadingNext /\ ~ InsertItem /\ ~ CosmeticChange /\ ~ UpdateItem
  <2>1. rows' = rows
    BY <1>6 DEF ReadingNext, BeginFeed, Stopped, ItemRaises, NextItem, EnrichItem,
       StatementRaises, IesIsAmbiguous, GiveUp, Take, tables
  <2> QED
    BY <1>1, <2>1
<1> QED
  BY <1>2, <1>4, <1>5, <1>6

LEMMA WalkGoesOn ==
    ASSUME RInv, IInv, FiniteTable, Walking, [Next]_vars
    PROVE  FiniteTable' /\ Walking'
<1>0. ASSUME ~ Reads PROVE rows' = rows
  BY <1>0 DEF Next, BeginWalk, CountRows, ReadPage, Midnight, vars, readingVars, tables
<1>8. FiniteTable'
  BY <1>0, ReadingMovesNoDate DEF Reads, IInv, FiniteTable
<1> SUFFICES Walking'
  BY <1>8
<1>1. CASE Reads
  <2>1. DOMAIN rows' = DOMAIN rows => \A k \in DOMAIN rows : Ate(rows'[k]) = Ate(rows[k])
    BY <1>1, ReadingMovesNoDate DEF Reads, IInv
  <2>2. CASE DOMAIN rows' = DOMAIN rows
    BY <1>1, <2>1, <2>2, QuietStep DEF Reads
  <2>3. CASE DOMAIN rows' # DOMAIN rows
    BY <1>1, <2>1, <2>3, NoisyStep DEF Reads
  <2> QED
    BY <2>2, <2>3
<1>3. ASSUME NEW onlyOpen \in BOOLEAN, BeginWalk(onlyOpen) PROVE Walking'
  <2>1. walk' = [onlyOpen |-> onlyOpen, total |-> None, shown |-> <<>>, ended |-> FALSE,
                 offset |-> 0, quiet |-> TRUE]
    BY <1>3 DEF BeginWalk
  <2>2. rows' = rows
    BY <1>3 DEF BeginWalk, readingVars, tables
  <2>3. IsFiniteSet(Asked')
    <3>1. Asked' \subseteq DOMAIN rows
      BY <2>2 DEF Asked, Selected
    <3> QED
      BY <3>1, FS_Subset DEF FiniteTable
  <2>4. ASSUME NEW s \in SetToSeqs(Asked') PROVE SubSeq(s, 1, Upto(0, s)) = <<>>
    <3>1. Len(s) \in Nat
      BY <2>3, Enumerates
    <3>2. Upto(0, s) = 0
      BY <3>1 DEF Upto
    <3> QED
      BY <3>2, SubSeqEmpty
  <2>5. walk' = [f \in WalkFields |-> walk'[f]]
    BY <2>1 DEF WalkFields
  <2>6. walk'.offset = 0 /\ walk'.total = None /\ ~ walk'.ended /\ walk'.shown = <<>>
    BY <2>1
  <2>7. \A s \in SetToSeqs(Asked') : walk'.shown = SubSeq(s, 1, Upto(walk'.offset, s))
    BY <2>4, <2>6
  <2> QED
    BY <2>5, <2>6, <2>7 DEF Walking, Upto
<1>4. CASE CountRows
  <2>1. /\ walk # None /\ walk' = [walk EXCEPT !.total = Cardinality(Asked)]
        /\ rows' = rows /\ today' = today
    BY <1>4 DEF CountRows, readingVars, tables, Asked
  <2>2. walk = [f \in WalkFields |-> walk[f]] /\ walk.offset \in Nat
    BY <2>1 DEF Walking
  <2>3. /\ walk'.total = Cardinality(Asked) /\ walk'.offset = walk.offset
        /\ walk'.shown = walk.shown /\ walk'.onlyOpen = walk.onlyOpen
        /\ walk'.ended = walk.ended /\ walk'.quiet = walk.quiet
        /\ walk' = [f \in WalkFields |-> walk'[f]]
    BY <2>1, <2>2 DEF WalkFields
  <2>4. Asked' = Asked
    BY <2>1, <2>3 DEF Asked, Selected, Ate
  <2> QED
    <3>1. NoTies(Asked)' => NoTies(Asked)
      BY <2>1, <2>4 DEF NoTies, Ate
    <3>2. walk.quiet /\ NoTies(Asked) /\ walk.ended =>
            Len(walk.shown) = Cardinality(Asked) /\ ToSet(walk.shown) = Asked
      BY <2>1 DEF Walking
    <3>3. ASSUME walk.quiet, NoTies(Asked), ~ walk.ended, NEW t \in SetToSeqs(Asked), Ordered(t)'
          PROVE  walk.shown = SubSeq(t, 1, Upto(walk.offset, t))
      <4>1. Ordered(t)
        BY <2>1, <3>3 DEF Ordered, Ate
      <4> QED
        BY <2>1, <3>3, <4>1 DEF Walking
    <3> QED
      BY <2>2, <2>3, <2>4, <3>1, <3>2, <3>3 DEF Walking, Upto
<1>5. CASE ReadPage
  BY <1>5, PageContinues
<1>6. CASE Midnight
  BY <1>6, NoisyStep DEF Midnight
<1>7. CASE UNCHANGED vars
  BY <1>7, QuietStep DEF vars, readingVars, listingVars, tables
<1> QED
  BY <1>1, <1>3, <1>4, <1>5, <1>6, <1>7 DEF Next

(***************************************************************************)
(* A client that goes through the pages of any size sees every edital it   *)
(* asked for, once, if nothing is stored and the day does not change       *)
(* meanwhile and no two dates are equal (list_editais): then the sort has  *)
(* one outcome, although no second key fixes it, updates included.         *)
(***************************************************************************)
THEOREM QuietWalksCover == Spec => []QuietWalkCovers
<1>1. Init => FiniteTable /\ Walking
  BY FS_EmptySet DEF Init, ReadingInit, ListingInit, FiniteTable, Walking
<1>2. FiniteTable /\ Walking /\ RInv /\ IInv /\ [Next]_vars => (FiniteTable /\ Walking)'
  BY WalkGoesOn
<1>3. Walking => QuietWalkCovers
  BY DEF Walking, QuietWalkCovers, Asked
<1> QED
  BY <1>1, <1>2, <1>3, RInvInvariant, PTL DEF Spec
=============================================================================
