--------------------------- MODULE EditalListing ---------------------------
(***************************************************************************)
(* GET /v1/editais beside the pipeline: a client that walks the pages of   *)
(* the editais, one request and so one transaction of two statements per   *)
(* page, while the table grows and the day changes.                        *)
(***************************************************************************)
EXTENDS ItemReading

CONSTANTS
    PageSize,   \* `limit'
    MaxWalks    \* bound on the walks

ASSUME ListingAssumption == PageSize \in Nat \ {0}

VARIABLES
    today,   \* date.today()
    walk,    \* where the client stands, None when it has no walk
    walks    \* walks begun

listingVars == <<today, walk, walks>>
vars        == <<readingVars, listingVars>>

LastDay == CHOOSE d \in Days : \A e \in Days : e <= d

ListingInit ==
    /\ today = 1
    /\ walk = None
    /\ walks = 0

\* The column inscricao_ate.
Ate(row) == IF row.periodo = None THEN None ELSE row.periodo.ate

\* The rows a request selects, by their keys.
Selected(onlyOpen) ==
    {k \in DOMAIN rows : onlyOpen => Ate(rows[k]) = None \/ Ate(rows[k]) >= today}

\* ORDER BY inscricao_ate ASC NULLS LAST: equal dates come in any order.
AnyOrder(s) == TRUE
Ordered(s) ==
    \A i, j \in DOMAIN s :
      i < j /\ Ate(rows[s[j]]) # None =>
        Ate(rows[s[i]]) # None /\ Ate(rows[s[i]]) <= Ate(rows[s[j]])

\* The client asks for the first page.
BeginWalk(onlyOpen) ==
    /\ walk # None => walk.ended
    /\ walks < MaxWalks
    /\ walks' = walks + 1
    /\ walk' = [onlyOpen |-> onlyOpen, total |-> None, shown |-> <<>>, ended |-> FALSE,
                offset |-> 0, quiet |-> TRUE]
    /\ UNCHANGED <<readingVars, today>>

CountRows ==
    /\ walk # None /\ ~ walk.ended /\ walk.total = None
    /\ walk' = [walk EXCEPT !.total = Cardinality(Selected(walk.onlyOpen))]
    /\ UNCHANGED <<readingVars, today, walks>>

\* The client goes on as long as the total says there is more.
ReadPage ==
    /\ walk # None /\ ~ walk.ended /\ walk.total # None
    /\ \E s \in SetToSeqs(Selected(walk.onlyOpen)) :
         /\ Ordered(s)
         /\ walk' = [walk EXCEPT
                       !.shown  = @ \o SubSeq(s, walk.offset + 1,
                                              IF walk.offset + PageSize < Len(s)
                                              THEN walk.offset + PageSize ELSE Len(s)),
                       !.offset = @ + PageSize,
                       !.total  = None,
                       !.ended  = walk.offset + PageSize >= walk.total]
    /\ UNCHANGED <<readingVars, today, walks>>

\* `quiet' is history: neither a new row nor a new day since the walk began.
Disturbed == IF walk # None THEN [walk EXCEPT !.quiet = FALSE] ELSE None

Midnight ==
    /\ today < LastDay
    /\ today' = today + 1
    /\ walk' = Disturbed
    /\ UNCHANGED <<readingVars, walks>>

Reads ==
    /\ ReadingNext
    /\ walk' = IF DOMAIN rows' # DOMAIN rows THEN Disturbed ELSE walk
    /\ UNCHANGED <<today, walks>>

Init == ReadingInit /\ ListingInit

Next ==
    \/ Reads
    \/ \E onlyOpen \in BOOLEAN : BeginWalk(onlyOpen)
    \/ CountRows
    \/ ReadPage
    \/ Midnight

Spec == Init /\ [][Next]_vars

-----------------------------------------------------------------------------
(* Properties                                                              *)

NoTies(S) == \A j, k \in S : Ate(rows[j]) = Ate(rows[k]) => j = k

\* A client that goes through the pages sees every edital it asked for, once, if
\* nothing is stored and the day does not change meanwhile and no two dates are
\* equal: the sort has no second key, so editais of one date may change places
\* between two pages (list_editais).
QuietWalkCovers ==
    LET S == IF walk # None THEN Selected(walk.onlyOpen) ELSE {}
    IN walk # None /\ walk.ended /\ walk.quiet /\ NoTies(S) =>
         /\ Len(walk.shown) = Cardinality(S)
         /\ ToSet(walk.shown) = S
=============================================================================
