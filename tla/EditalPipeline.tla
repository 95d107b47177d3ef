--------------------------- MODULE EditalPipeline ---------------------------
(***************************************************************************)
(* PipelineOrchestrator over the database.  A scraper is a slot of the     *)
(* orchestrator's Semaphore(4), of the worker's process or of another (a   *)
(* `pem run-spider' beside it).  It walks the feed of one URL at a time    *)
(* and handles each item in one READ COMMITTED transaction that            *)
(* deduplicates it, stores it and records one match per interested         *)
(* subscriber.  An exception rolls the transaction back, abandons the rest *)
(* of the feed and pushes a dead letter.                                   *)
(*                                                                         *)
(* `edital', `matches' and `active' are the committed tables; `tx' is what *)
(* one open session has read and written.  The unique indexes and the row  *)
(* lock of an UPDATE are PostgreSQL's: a second writer waits, then fails   *)
(* or overwrites.                                                          *)
(***************************************************************************)
EXTENDS Simhash

CONSTANTS
    Scrapers,   \* slots that process URLs, of one process or of several
    Hashes,     \* canonical hashes
    Attrs,      \* what a match depends on and the hash does not cover (area, gratuity)
    Items,      \* the parsed items the sources may yield
    Subs,       \* subscribers
    Accepted,   \* the subscribers the match engine accepts, by attribute
    FeedLen,    \* bound on the items of one feed
    None        \* an absent row, item or attribute

\* `oversize' names what does not fit its column.  "url_pdf" is written by both
\* paths of upsert, "titulo" stands for the columns only the INSERT writes (titulo
\* and url_origem, cut by nobody, and vagas, which the LLM may answer in any type).
Columns == {"titulo", "url_pdf"}
Item    == [hash : Hashes, sim : UInt, attr : Attrs, oversize : SUBSET Columns]
Row     == [sim : BigInt, attr : Attrs]
Changes == {"INSERT", "COSMETIC", "UPDATE"}
Errors  == {"fetch", "parser", "range", "integrity", "database"}
Labels  == {"idle", "feed", "select", "upsert", "insert", "profiles", "match", "failed"}
Session == [item   : Item \cup {None},
            change : Changes \cup {None},
            write  : {"none", "dirty", "insert", "update"},
            attr   : Attrs \cup {None},
            seen   : SUBSET Subs,
            todo   : SUBSET Subs,
            added  : SUBSET Subs]

ASSUME PipelineAssumption ==
    /\ Items \subseteq Item
    /\ Accepted \in [Attrs -> SUBSET Subs]
    /\ FeedLen \in Nat \ {0}
    /\ None \notin Row \cup Item \cup Attrs \cup Changes \cup Errors

VARIABLES
    edital,    \* canonical hash -> committed row of table editais
    matches,   \* canonical hash -> subscribers with a committed match record
    active,    \* subscribers with ativo = true
    dlq,       \* whether the list of dead letters, which nobody reads, holds any
    pc,        \* where each scraper stands
    left,      \* items its feed may still yield
    tx,        \* its open session
    err,       \* the exception it is handling
    audience   \* history: the active subscribers read by the inserting transaction

db   == <<edital, matches, audience>>
vars == <<edital, matches, active, dlq, pc, left, tx, err, audience>>

\* A session that has written nothing.
Fresh(item, change) == [item |-> item, change |-> change, write |-> "none",
                        attr |-> None, seen |-> {}, todo |-> {}, added |-> {}]
NoTx == Fresh(None, None)

Init ==
    /\ edital = [h \in Hashes |-> None]
    /\ matches = [h \in Hashes |-> {}]
    /\ active \in SUBSET Subs
    /\ dlq = FALSE
    /\ pc = [p \in Scrapers |-> "idle"]
    /\ left = [p \in Scrapers |-> 0]
    /\ tx = [p \in Scrapers |-> NoTx]
    /\ err = [p \in Scrapers |-> None]
    /\ audience = [h \in Hashes |-> {}]

Goto(p, label) == pc' = [pc EXCEPT ![p] = label]
HashOf(p)      == tx[p].item.hash

-----------------------------------------------------------------------------
(* ChangeDetector.classify, on the row as to_entity converts it.           *)

ClassifyStrict(row, sim) ==
    IF row = None THEN "INSERT"
    ELSE IF Hamming(ToUnsigned(row.sim), sim) < Near THEN "COSMETIC"
    ELSE "UPDATE"

Classify(row, sim) ==
    IF row = None THEN "INSERT"
    ELSE IF Hamming(ToUnsigned(row.sim), sim) <= Near THEN "COSMETIC"
    ELSE "UPDATE"

\* The value from_entity hands to the driver on INSERT, and the one
\* EditalRepository.upsert assigns on UPDATE.
RawInsertedSim(sim) == sim
InsertedSim(sim) == ToSigned(sim)
UpdatedSim(sim)  == sim

\* Whether every column of the INSERT takes its value.
ColumnsTake(item) == InsertedSim(item.sim) \in BigInt /\ item.oversize = {}

(* What PostgreSQL makes a statement of p wait for.                        *)

\* An INSERT waits for an uncommitted INSERT of the same canonical hash.
NoUniqueHash(p) == TRUE
InsertFree(p) ==
    \A q \in Scrapers \ {p} : tx[q].write = "insert" => HashOf(q) # HashOf(p)

\* An UPDATE of a row waits for another uncommitted UPDATE of it.
RowFree(p) ==
    tx[p].write = "dirty" =>
        \A q \in Scrapers \ {p} : tx[q].write = "update" => HashOf(q) # HashOf(p)

\* An INSERT into matches waits for an uncommitted match of the same pair.
MatchFree(p, s) ==
    \A q \in Scrapers \ {p} : s \in tx[q].added => HashOf(q) # HashOf(p)

\* A pending UPDATE whose simhash the driver cannot encode as BIGINT, or whose
\* url_pdf is too long.
Overflows(p) ==
    /\ tx[p].write = "dirty"
    /\ \/ UpdatedSim(tx[p].item.sim) \notin BigInt
       \/ "url_pdf" \in tx[p].item.oversize

\* The session after a flush: a dirty row has been sent and is locked.
Flushed(p) == IF tx[p].write = "dirty" THEN "update" ELSE tx[p].write

\* The exception handler of _process_url runs next; get_session has rolled back.
Fail(p, reason) ==
    /\ Goto(p, "failed")
    /\ err' = [err EXCEPT ![p] = reason]
    /\ tx' = [tx EXCEPT ![p] = Fresh(None, tx[p].change)]
    /\ UNCHANGED <<db, active, dlq, left>>

-----------------------------------------------------------------------------
(* PipelineOrchestrator._process_url                                       *)

FetchSucceeds(p) ==
    /\ pc[p] = "idle"
    /\ Goto(p, "feed")
    /\ left' = [left EXCEPT ![p] = FeedLen]
    /\ UNCHANGED <<db, active, dlq, tx, err>>

\* A ScrapingError.  Any other exception escapes the task: it changes nothing here.
FetchFails(p) ==
    /\ pc[p] = "idle"
    /\ Fail(p, "fetch")

\* The generator yields an item: enrichment and classification have run, the
\* hashes are computed, and a session is open.
NextItemUnbounded(p, i) ==
    /\ pc[p] = "feed"
    /\ left' = [left EXCEPT ![p] = @ - 1]
    /\ tx' = [tx EXCEPT ![p] = Fresh(i, None)]
    /\ Goto(p, "select")
    /\ UNCHANGED <<db, active, dlq, err>>

NextItem(p, i) ==
    /\ pc[p] = "feed"
    /\ left[p] > 0
    /\ left' = [left EXCEPT ![p] = @ - 1]
    /\ tx' = [tx EXCEPT ![p] = Fresh(i, None)]
    /\ Goto(p, "select")
    /\ UNCHANGED <<db, active, dlq, err>>

\* The generator raises, or an enrichment step before the session is opened does.
ParserRaises(p) ==
    /\ pc[p] = "feed"
    /\ left[p] > 0
    /\ Fail(p, "parser")

FeedEnds(p) ==
    /\ pc[p] = "feed"
    /\ Goto(p, "idle")
    /\ left' = [left EXCEPT ![p] = 0]
    /\ UNCHANGED <<db, active, dlq, tx, err>>

\* The handler pushes the dead letter; what was left of the feed is dropped.
DeadLetterFetchOnly(p) ==
    /\ pc[p] = "failed"
    /\ err[p] = "fetch"
    /\ dlq' = TRUE
    /\ Goto(p, "idle")
    /\ left' = [left EXCEPT ![p] = 0]
    /\ tx' = [tx EXCEPT ![p] = NoTx]
    /\ err' = [err EXCEPT ![p] = None]
    /\ UNCHANGED <<db, active>>

DeadLetter(p) ==
    /\ pc[p] = "failed"
    /\ dlq' = TRUE
    /\ Goto(p, "idle")
    /\ left' = [left EXCEPT ![p] = 0]
    /\ tx' = [tx EXCEPT ![p] = NoTx]
    /\ err' = [err EXCEPT ![p] = None]
    /\ UNCHANGED <<db, active>>

-----------------------------------------------------------------------------
(* PipelineOrchestrator._process_parsed, one action per await of the       *)
(* transaction                                                             *)

SelectExisting(p) ==
    /\ pc[p] = "select"
    /\ tx' = [tx EXCEPT ![p].change = Classify(edital[HashOf(p)], tx[p].item.sim)]
    /\ Goto(p, "upsert")
    /\ UNCHANGED <<db, active, dlq, left, err>>

\* A cosmetic change goes straight to the commit, any other to the subscribers.
AfterUpsert(p) ==
    Goto(p, IF tx[p].change = "COSMETIC" THEN "match" ELSE "profiles")

\* EditalRepository.upsert reads the hash again.  A row found is changed in the
\* session only: under an equal simhash there is a row to send if another of the
\* assigned columns differs, as a url_pdf that does not fit always does.
UpsertFinds(p) ==
    /\ pc[p] = "upsert"
    /\ edital[HashOf(p)] # None
    /\ \E write \in {"dirty", "none"} :
         /\ write = "none" => /\ edital[HashOf(p)].sim = UpdatedSim(tx[p].item.sim)
                              /\ "url_pdf" \notin tx[p].item.oversize
         /\ tx' = [tx EXCEPT ![p].write = write, ![p].attr = edital[HashOf(p)].attr]
    /\ AfterUpsert(p)
    /\ UNCHANGED <<db, active, dlq, left, err>>

UpsertMisses(p) ==
    /\ pc[p] = "upsert"
    /\ edital[HashOf(p)] = None
    /\ Goto(p, "insert")
    /\ UNCHANGED <<db, active, dlq, left, tx, err>>

InsertEdital(p) ==
    /\ pc[p] = "insert"
    /\ InsertFree(p)
    /\ edital[HashOf(p)] = None
    /\ ColumnsTake(tx[p].item)
    /\ tx' = [tx EXCEPT ![p].write = "insert", ![p].attr = tx[p].item.attr]
    /\ AfterUpsert(p)
    /\ UNCHANGED <<db, active, dlq, left, err>>

\* A value is refused before the row reaches the unique index and waits there.
InsertFails(p) ==
    /\ pc[p] = "insert"
    /\ \/ ~ ColumnsTake(tx[p].item) /\ Fail(p, "range")
       \/ /\ ColumnsTake(tx[p].item)
          /\ InsertFree(p)
          /\ edital[HashOf(p)] # None
          /\ Fail(p, "integrity")

\* The engine scores the persisted edital, not the parsed one.
ListAtivosScoringParsed(p) ==
    /\ pc[p] = "profiles"
    /\ tx' = [tx EXCEPT ![p].seen = active,
                        ![p].todo = active \cap Accepted[tx[p].item.attr]]
    /\ Goto(p, "match")
    /\ UNCHANGED <<db, active, dlq, left, err>>

ListAtivos(p) ==
    /\ pc[p] = "profiles"
    /\ tx' = [tx EXCEPT ![p].seen = active, ![p].todo = active \cap Accepted[tx[p].attr]]
    /\ Goto(p, "match")
    /\ UNCHANGED <<db, active, dlq, left, err>>

\* MatchRepository.add flushes: the pending UPDATE first, then the match.
AddMatch(p, s) ==
    /\ pc[p] = "match"
    /\ s \in tx[p].todo
    /\ ~ Overflows(p)
    /\ RowFree(p)
    /\ MatchFree(p, s)
    /\ s \notin matches[HashOf(p)]
    /\ tx' = [tx EXCEPT ![p].write = Flushed(p), ![p].todo = @ \ {s}, ![p].added = @ \cup {s}]
    /\ UNCHANGED <<db, active, dlq, pc, left, err>>

AddMatchFails(p, s) ==
    /\ pc[p] = "match"
    /\ s \in tx[p].todo
    /\ \/ Overflows(p) /\ Fail(p, "range")
       \/ /\ ~ Overflows(p)
          /\ RowFree(p)
          /\ MatchFree(p, s)
          /\ s \in matches[HashOf(p)]
          /\ Fail(p, "integrity")

\* What COMMIT makes visible.
PublishWholeItem(p) ==
    LET h == HashOf(p) IN
    /\ edital' = IF tx[p].write = "none" THEN edital
                 ELSE [edital EXCEPT ![h] = [sim  |-> InsertedSim(tx[p].item.sim),
                                             attr |-> tx[p].item.attr]]
    /\ matches' = [matches EXCEPT ![h] = @ \cup tx[p].added]
    /\ audience' = IF tx[p].write = "insert"
                   THEN [audience EXCEPT ![h] = tx[p].seen]
                   ELSE audience

Publish(p) ==
    LET h == HashOf(p) IN
    /\ edital' = CASE tx[p].write = "insert" ->
                        [edital EXCEPT ![h] = [sim  |-> InsertedSim(tx[p].item.sim),
                                               attr |-> tx[p].attr]]
                   [] tx[p].write \in {"dirty", "update"} ->
                        [edital EXCEPT ![h].sim = UpdatedSim(tx[p].item.sim)]
                   [] tx[p].write = "none" -> edital
    /\ matches' = [matches EXCEPT ![h] = @ \cup tx[p].added]
    /\ audience' = IF tx[p].write = "insert"
                   THEN [audience EXCEPT ![h] = tx[p].seen]
                   ELSE audience

ReadyToCommit(p) ==
    /\ pc[p] = "match"
    /\ tx[p].todo = {}
    /\ ~ Overflows(p)
    /\ RowFree(p)

Commit(p) ==
    /\ ReadyToCommit(p)
    /\ Publish(p)
    /\ tx' = [tx EXCEPT ![p] = NoTx]
    /\ Goto(p, "feed")
    /\ UNCHANGED <<active, dlq, left, err>>

CommitFails(p) ==
    /\ pc[p] = "match"
    /\ tx[p].todo = {}
    /\ Overflows(p)
    /\ Fail(p, "range")

-----------------------------------------------------------------------------
(* Failures the program does not cause, and the other writer               *)

\* Any statement of the transaction may raise: an ambiguous institution name,
\* a lost connection, a deadlock victim.
InTransaction(p) == pc[p] \in {"select", "upsert", "insert", "profiles", "match"}

DatabaseRaises(p) ==
    /\ InTransaction(p)
    /\ Fail(p, "database")

\* Subscribers are listed without an order, so two transactions may add the
\* matches of one edital in opposite orders: each holds a pair the other waits
\* for.  PostgreSQL detects it and cancels one of them.  (A transaction that
\* waits for a row lock has no match yet and is on no such cycle.)
WaitsForMatch(p) ==
    /\ pc[p] = "match"
    /\ tx[p].todo # {}
    /\ RowFree(p)
    /\ \A s \in tx[p].todo : ~ MatchFree(p, s)

Deadlocked(p) ==
    \E D \in SUBSET Scrapers :
        /\ p \in D
        /\ \A x \in D : /\ WaitsForMatch(x)
                        /\ \E y \in D \ {x} : /\ tx[x].todo \cap tx[y].added # {}
                                               /\ HashOf(x) = HashOf(y)

DeadlockVictim(p) ==
    /\ Deadlocked(p)
    /\ Fail(p, "database")

\* The connection is lost after the server has committed.
CommitUnacknowledged(p) ==
    /\ ReadyToCommit(p)
    /\ Publish(p)
    /\ tx' = [tx EXCEPT ![p] = Fresh(None, tx[p].change)]
    /\ err' = [err EXCEPT ![p] = "database"]
    /\ Goto(p, "failed")
    /\ UNCHANGED <<active, dlq, left>>

\* The process dies and the server rolls its transaction back; or the push of the
\* dead letter raises, which leaves the slot as free and as silent.
Crash(p) ==
    /\ pc[p] # "idle"
    /\ Goto(p, "idle")
    /\ left' = [left EXCEPT ![p] = 0]
    /\ tx' = [tx EXCEPT ![p] = NoTx]
    /\ err' = [err EXCEPT ![p] = None]
    /\ UNCHANGED <<db, active, dlq>>

\* `pem seed' stores a subscriber with ativo = true; nothing deactivates one.
SeedSubscriber(s) ==
    /\ active' = active \cup {s}
    /\ UNCHANGED <<db, dlq, pc, left, tx, err>>

-----------------------------------------------------------------------------
\* What the scraper does by itself once it has a response.
Progress(p) ==
    \/ \E i \in Items : NextItem(p, i)
    \/ FeedEnds(p)
    \/ DeadLetter(p)
    \/ SelectExisting(p)
    \/ UpsertFinds(p)
    \/ UpsertMisses(p)
    \/ InsertEdital(p)
    \/ InsertFails(p)
    \/ ListAtivos(p)
    \/ \E s \in Subs : AddMatch(p, s) \/ AddMatchFails(p, s)
    \/ Commit(p)
    \/ CommitFails(p)
    \/ DeadlockVictim(p)

Disturbance(p) ==
    \/ ParserRaises(p)
    \/ DatabaseRaises(p)
    \/ CommitUnacknowledged(p)
    \/ Crash(p)

Next ==
    \/ \E p \in Scrapers :
         FetchSucceeds(p) \/ FetchFails(p) \/ Progress(p) \/ Disturbance(p)
    \/ \E s \in Subs : SeedSubscriber(s)

Spec == Init /\ [][Next]_vars

\* A scraper that holds a response keeps being scheduled.  Strong, because the
\* lock queues of PostgreSQL are first come, first served: a waiter is woken
\* when the holder ends, before a later writer of the same key.
FairSpec == Spec /\ \A p \in Scrapers : SF_vars(Progress(p))

-----------------------------------------------------------------------------
TypeOK ==
    /\ edital \in [Hashes -> Row \cup {None}]
    /\ matches \in [Hashes -> SUBSET Subs]
    /\ audience \in [Hashes -> SUBSET Subs]
    /\ active \in SUBSET Subs
    /\ dlq \in BOOLEAN
    /\ pc \in [Scrapers -> Labels]
    /\ left \in [Scrapers -> 0 .. FeedLen]
    /\ tx \in [Scrapers -> Session]
    /\ err \in [Scrapers -> Errors \cup {None}]

(***************************************************************************)
(* What an open session may rely on while other scrapers commit: the row   *)
(* it found is still there with the same attributes, the row it inserted   *)
(* is nobody else's, and the matches it has added or still owes are those  *)
(* of the subscribers it listed.                                           *)
(***************************************************************************)
InSession(p) == pc[p] \in {"profiles", "match"}

SessionKeeps(p) ==
    /\ InTransaction(p) => tx[p].item \in Items
    /\ ~ InSession(p) => tx[p].write = "none"
    /\ pc[p] # "match" => tx[p].seen = {} /\ tx[p].todo = {} /\ tx[p].added = {}
    /\ InSession(p) =>
          /\ IF tx[p].write = "insert"
             THEN /\ edital[HashOf(p)] = None
                  /\ InsertFree(p)
                  /\ tx[p].attr = tx[p].item.attr
             ELSE edital[HashOf(p)] # None /\ tx[p].attr = edital[HashOf(p)].attr
          /\ tx[p].write = "update" => UpdatedSim(tx[p].item.sim) \in BigInt
          /\ tx[p].added \cup tx[p].todo = tx[p].seen \cap Accepted[tx[p].attr]

SessionConsistent == \A p \in Scrapers : SessionKeeps(p)

(***************************************************************************)
(* Atomicity of persist + match (one session per item, orchestrator        *)
(* _process_parsed): whatever crashes, races and rollbacks happen, a       *)
(* stored edital has a match for every subscriber it was scored for and    *)
(* accepted by when it was first stored, no match the engine would refuse, *)
(* and an edital that is not stored has none.                              *)
(***************************************************************************)
MatchSetExact ==
    \A h \in Hashes :
        IF edital[h] = None
        THEN matches[h] = {}
        ELSE /\ matches[h] \subseteq Accepted[edital[h].attr]
             /\ audience[h] \cap Accepted[edital[h].attr] \subseteq matches[h]

(***************************************************************************)
(* The transactions of _process_parsed are as good as indivisible: the     *)
(* committed tables change only as EditalCatalog allows, in spite of stale *)
(* reads, races on the unique indexes, rollbacks and crashes.              *)
(***************************************************************************)
Catalog == INSTANCE EditalCatalog WITH Fingerprints <- BigInt
ImplementsCatalog == Catalog!Spec

(***************************************************************************)
(* The simhash of an edital that nobody has stored never keeps it out: the *)
(* driver takes it (from_entity converts it), and the unique indexes have  *)
(* room for the row and its matches.  A range or integrity error is about  *)
(* an edital that is stored already, or about a text or number that its    *)
(* column does not hold, which no code cuts or checks before the INSERT.   *)
(***************************************************************************)
FirstScrapeAccepted ==
    [][\A p \in Scrapers :
         pc[p] # "failed" /\ pc'[p] = "failed" /\ err'[p] \in {"range", "integrity"} =>
            edital[HashOf(p)] # None \/ tx[p].item.oversize # {}]_vars

(***************************************************************************)
(* change_detector.py:4 and models/edital.py:104: a re-scrape that changes *)
(* nothing but a few bits is accepted silently.  The update path stores    *)
(* the unsigned simhash, so every edital with the top bit set fails.       *)
(***************************************************************************)
CosmeticRescrapeAccepted ==
    \A p \in Scrapers : pc[p] = "failed" /\ tx[p].change = "COSMETIC" => err[p] = "database"

(***************************************************************************)
(* change_detector.py:5: an edital whose text diverged is notified again.  *)
(* The second match record violates the unique index, the transaction is   *)
(* rolled back, and nothing of the update is kept.                         *)
(***************************************************************************)
UpdateRenotified ==
    \A p \in Scrapers : pc[p] = "failed" /\ tx[p].change = "UPDATE" => err[p] # "integrity"

(***************************************************************************)
(* A run that has got a response ends: scrapers that wait for each other's *)
(* row locks never wait for ever, and a failed item still lets the handler *)
(* finish (_process_url, with PostgreSQL granting free locks).             *)
(***************************************************************************)
RunEnds == \A p \in Scrapers : pc[p] = "feed" ~> pc[p] = "idle"
=============================================================================
