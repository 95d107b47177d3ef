------------------------------ MODULE EmecGate ------------------------------
(***************************************************************************)
(* The tables that are filled from files: the institutions of e-MEC, which *)
(* gate the matches, and what `pem seed' stores.  A job of the worker and  *)
(* a command may run at once.  A refresh reads data/emec_seed.json and     *)
(* upserts its institutions one by one in one READ COMMITTED transaction   *)
(* without autoflush: a changed column is sent at the next flush, a new    *)
(* row at once.  A crawl captures the eligible institutions as its         *)
(* whitelist, and refreshes first when there is none.                      *)
(***************************************************************************)
EXTENDS Integers, Sequences, Sifting

CONSTANTS
    Procs,        \* executions of jobs and commands
    Codes,        \* keys of table ies (codigo_emec)
    Others,       \* keys of tables subscribers and fontes
    Kept,         \* the fontes among them, whose upsert leaves a row alone
    Cats,         \* values of the other columns an upsert rewrites
    SeedFiles,    \* what data/emec_seed.json may hold: <<>> when it is missing
    SeedBatches,  \* what `pem seed' upserts
    RowOrder,     \* the order of the primary keys, in which a flush sends updates
    None          \* no row

Keys     == Codes \cup Others
Row      == [ativa : BOOLEAN, gratuita : BOOLEAN, cat : Cats]
Columns  == {"ativa", "gratuita", "cat"}
SeedLine == [codigo : Codes, ativa : BOOLEAN, publica : BOOLEAN, cat : Cats]
Upserts  == [key : Keys, row : Row]
GateJobs == {"refresh", "crawl", "scrape", "seed"}
Ended    == {"idle", "done"}
Busy     == {"whitelist", "load", "upsert", "insert", "commit", "rebuild"}

ASSUME GateAssumption ==
    /\ Codes \cap Others = {}
    /\ Kept \subseteq Others
    /\ \A f \in SeedFiles : /\ f \in Seq(SeedLine)
                            /\ \A i, j \in DOMAIN f : f[i].codigo = f[j].codigo => i = j
    /\ \A b \in SeedBatches : /\ b \in Seq([key : Others, row : Row])
                              /\ \A i, j \in DOMAIN b : b[i].key = b[j].key => i = j
    /\ RowOrder \in [Keys -> Nat]
    /\ \A k, l \in Keys : RowOrder[k] = RowOrder[l] => k = l
    /\ None \notin Row

VARIABLES
    onlypublic,  \* the setting emec_only_public
    table,       \* the committed rows
    pc,          \* where each job stands
    job,         \* which job it is, None when none runs
    batch,       \* what it upserts
    at,          \* the upsert it is at
    dirty,       \* changed columns not sent yet, as <<key, column>>
    sent,        \* changed columns sent: their rows are locked
    made,        \* keys of the rows inserted
    wl,          \* the whitelist it has captured
    over,        \* history: keys others have committed since it read them
    loaded       \* history: the codes of each committed refresh

txs      == <<batch, at, dirty, sent, made>>
gateVars == <<onlypublic, table, pc, job, batch, at, dirty, sent, made, wl, over, loaded>>

GateInit ==
    /\ onlypublic \in BOOLEAN
    /\ table = [k \in Keys |-> None]
    /\ pc = [p \in Procs |-> "idle"]
    /\ job = [p \in Procs |-> None]
    /\ batch = [p \in Procs |-> <<>>]
    /\ at = [p \in Procs |-> 1]
    /\ dirty = [p \in Procs |-> {}]
    /\ sent = [p \in Procs |-> {}]
    /\ made = [p \in Procs |-> {}]
    /\ wl = [p \in Procs |-> {}]
    /\ over = [p \in Procs |-> {}]
    /\ loaded = {}

Become(p, label) == pc' = [pc EXCEPT ![p] = label]

CloseSession(p) ==
    /\ dirty' = [dirty EXCEPT ![p] = {}]
    /\ sent' = [sent EXCEPT ![p] = {}]
    /\ made' = [made EXCEPT ![p] = {}]

\* What a crawl upserted is remembered for the whitelist it builds next; any
\* other job is over, and so is one that fails.
EndJobKeepingPlace(p) ==
    /\ Become(p, "idle")
    /\ job' = [job EXCEPT ![p] = None]
    /\ batch' = [batch EXCEPT ![p] = <<>>]
    /\ wl' = [wl EXCEPT ![p] = {}]
    /\ UNCHANGED at

EndJob(p) ==
    /\ Become(p, "idle")
    /\ job' = [job EXCEPT ![p] = None]
    /\ batch' = [batch EXCEPT ![p] = <<>>]
    /\ at' = [at EXCEPT ![p] = 1]
    /\ wl' = [wl EXCEPT ![p] = {}]

-----------------------------------------------------------------------------
(* The file and the whitelist                                              *)

\* EmecClient.listar_ies_elegiveis
ListedAnyState(f) ==
    LET lines == Sift(f, {r \in SeedLine : onlypublic => r.publica})
    IN [i \in DOMAIN lines |-> [key |-> lines[i].codigo,
                                row |-> [ativa |-> TRUE, gratuita |-> lines[i].publica,
                                         cat |-> lines[i].cat]]]

Listed(f) ==
    LET lines == Sift(f, {r \in SeedLine : r.ativa /\ (onlypublic => r.publica)})
    IN [i \in DOMAIN lines |-> [key |-> lines[i].codigo,
                                row |-> [ativa |-> lines[i].ativa, gratuita |-> lines[i].publica,
                                         cat |-> lines[i].cat]]]

\* IESRepository.list_elegiveis
Eligible == {c \in Codes : table[c] # None /\ table[c].ativa /\ table[c].gratuita}

\* A job starts: in the worker, at its hour or at boot, or as a command.
StartJob(p, j) ==
    /\ pc[p] = "idle"
    /\ job' = [job EXCEPT ![p] = j]
    /\ Become(p, IF j \in {"crawl", "scrape"} THEN "whitelist" ELSE "load")
    /\ UNCHANGED <<onlypublic, table, txs, wl, over, loaded>>

\* run_single_spider goes on with an empty whitelist, run_all_spiders_job
\* refreshes the table and reads it once more.
BuildWhitelistInsisting(p) ==
    /\ pc[p] \in {"whitelist", "rebuild"}
    /\ wl' = [wl EXCEPT ![p] = Eligible]
    /\ Become(p, IF job[p] = "crawl" /\ Eligible = {} THEN "load" ELSE "done")
    /\ at' = [at EXCEPT ![p] = 1]
    /\ UNCHANGED <<onlypublic, table, job, batch, dirty, sent, made, over, loaded>>

BuildWhitelist(p) ==
    /\ pc[p] \in {"whitelist", "rebuild"}
    /\ wl' = [wl EXCEPT ![p] = Eligible]
    /\ Become(p, IF pc[p] = "whitelist" /\ job[p] = "crawl" /\ Eligible = {}
                 THEN "load" ELSE "done")
    /\ UNCHANGED <<onlypublic, table, job, txs, over, loaded>>

\* The spiders have run with it (Crawl).
SpidersEnd(p) ==
    /\ pc[p] = "done"
    /\ EndJob(p)
    /\ over' = [over EXCEPT ![p] = {}]
    /\ UNCHANGED <<onlypublic, table, dirty, sent, made, loaded>>

\* The first look at the file, which is read whole; a deployment may replace it
\* at any time.  Or the rows of `pem seed'.
LoadBatch(p) ==
    /\ pc[p] = "load"
    /\ \E b \in IF job[p] = "seed" THEN SeedBatches ELSE {Listed(f) : f \in SeedFiles} :
         batch' = [batch EXCEPT ![p] = b]
    /\ Become(p, "upsert")
    /\ UNCHANGED <<onlypublic, table, job, at, dirty, sent, made, wl, over, loaded>>

-----------------------------------------------------------------------------
(* The upserts of one transaction                                          *)

Current(p)  == batch[p][at[p]]
KeysOf(D)   == {d[1] : d \in D}

\* The columns whose value changes: SQLAlchemy sends no others.
Changed(u) == {<<u.key, c>> : c \in {d \in Columns : table[u.key][d] # u.row[d]}}

UpsertFindsRow(p) ==
    /\ pc[p] = "upsert"
    /\ at[p] <= Len(batch[p])
    /\ table[Current(p).key] # None
    /\ dirty' = [dirty EXCEPT ![p] =
                   IF Current(p).key \in Kept THEN @ ELSE @ \cup Changed(Current(p))]
    /\ at' = [at EXCEPT ![p] = @ + 1]
    /\ UNCHANGED <<onlypublic, table, pc, job, batch, sent, made, wl, over, loaded>>

UpsertFindsNone(p) ==
    /\ pc[p] = "upsert"
    /\ at[p] <= Len(batch[p])
    /\ table[Current(p).key] = None
    /\ Become(p, "insert")
    /\ UNCHANGED <<onlypublic, table, job, txs, wl, over, loaded>>

BatchEnds(p) ==
    /\ pc[p] = "upsert"
    /\ at[p] > Len(batch[p])
    /\ Become(p, "commit")
    /\ UNCHANGED <<onlypublic, table, job, txs, wl, over, loaded>>

\* A flush sends the updates first, in the order of the primary keys.
NextUpdate(p) ==
    CHOOSE k \in KeysOf(dirty[p]) : \A l \in KeysOf(dirty[p]) : RowOrder[k] <= RowOrder[l]

Flushing(p)  == pc[p] \in {"insert", "commit"} /\ dirty[p] # {}

\* Whom p waits for: the holder of a row lock, or of an uncommitted equal key.
WaitsFor(p) ==
    IF Flushing(p) THEN {q \in Procs \ {p} : NextUpdate(p) \in KeysOf(sent[q])}
    ELSE IF pc[p] = "insert" THEN {q \in Procs \ {p} : Current(p).key \in made[q]}
    ELSE {}

SendUpdate(p) ==
    /\ Flushing(p)
    /\ WaitsFor(p) = {}
    /\ LET row == {d \in dirty[p] : d[1] = NextUpdate(p)} IN
         /\ sent' = [sent EXCEPT ![p] = @ \cup row]
         /\ dirty' = [dirty EXCEPT ![p] = @ \ row]
    /\ UNCHANGED <<onlypublic, table, pc, job, batch, at, made, wl, over, loaded>>

\* get_session rolls back, and the exception ends the job.
FailJob(p) ==
    /\ EndJob(p)
    /\ CloseSession(p)
    /\ over' = [over EXCEPT ![p] = {}]
    /\ UNCHANGED <<onlypublic, table, loaded>>

ReadyToInsert(p) == pc[p] = "insert" /\ ~ Flushing(p) /\ WaitsFor(p) = {}

InsertAndCommit(p) ==
    /\ ReadyToInsert(p)
    /\ table[Current(p).key] = None
    /\ table' = [table EXCEPT ![Current(p).key] = Current(p).row]
    /\ at' = [at EXCEPT ![p] = @ + 1]
    /\ Become(p, "upsert")
    /\ UNCHANGED <<onlypublic, job, batch, dirty, sent, made, wl, over, loaded>>

InsertRow(p) ==
    /\ ReadyToInsert(p)
    /\ table[Current(p).key] = None
    /\ made' = [made EXCEPT ![p] = @ \cup {Current(p).key}]
    /\ at' = [at EXCEPT ![p] = @ + 1]
    /\ Become(p, "upsert")
    /\ UNCHANGED <<onlypublic, table, job, batch, dirty, sent, wl, over, loaded>>

\* Somebody has committed the key since it was looked for.
InsertRefused(p) ==
    /\ ReadyToInsert(p)
    /\ table[Current(p).key] # None
    /\ FailJob(p)

WrittenBy(p) == KeysOf(sent[p]) \cup made[p]
ReadBy(q)    == {batch[q][i].key : i \in {j \in DOMAIN batch[q] :
                                            j < at[q] \/ (j = at[q] /\ pc[q] = "insert")}}

Stored(p, k) ==
    LET row == batch[p][CHOOSE i \in DOMAIN batch[p] : batch[p][i].key = k].row IN
    IF k \in made[p] THEN row
    ELSE [c \in Columns |-> IF <<k, c>> \in sent[p] THEN row[c] ELSE table[k][c]]

\* The end of a transaction whose updates have been sent.
Publishes(p) ==
    /\ table' = [k \in Keys |-> IF k \in WrittenBy(p) THEN Stored(p, k) ELSE table[k]]
    /\ over' = [q \in Procs |->
                  CASE q # p -> over[q] \cup (ReadBy(q) \cap WrittenBy(p))
                    [] q = p /\ job[p] = "crawl" -> over[q]
                    [] OTHER -> {}]
    /\ loaded' = IF job[p] = "seed" THEN loaded
                 ELSE loaded \cup {{batch[p][i].key : i \in DOMAIN batch[p]}}
    /\ CloseSession(p)
    /\ UNCHANGED onlypublic

Rebuild(p) == Become(p, "rebuild") /\ UNCHANGED <<job, batch, at, wl>>

CommitUnflushed(p) ==
    /\ pc[p] = "commit"
    /\ Publishes(p)
    /\ IF job[p] = "crawl" THEN Rebuild(p) ELSE EndJob(p)

CommitAndGoOn(p) ==
    /\ pc[p] = "commit"
    /\ dirty[p] = {}
    /\ Publishes(p)
    /\ IF job[p] = "crawl" THEN Become(p, "done") /\ UNCHANGED <<job, batch, at, wl>>
       ELSE EndJob(p)

CommitBatch(p) ==
    /\ pc[p] = "commit"
    /\ dirty[p] = {}
    /\ Publishes(p)
    /\ IF job[p] = "crawl" THEN Rebuild(p) ELSE EndJob(p)

\* Files of two versions may list the same new institutions in two orders.
Deadlock(p) ==
    \E D \in SUBSET Procs : p \in D /\ \A x \in D : WaitsFor(x) \cap D # {}

DeadlockAborts(p) ==
    /\ Deadlock(p)
    /\ FailJob(p)

\* A statement raises, or the process dies and the server rolls back.
JobAborts(p) ==
    /\ pc[p] \in Busy
    /\ FailJob(p)

-----------------------------------------------------------------------------
GateStep(p) ==
    \/ BuildWhitelist(p)
    \/ SpidersEnd(p)
    \/ LoadBatch(p)
    \/ UpsertFindsRow(p)
    \/ UpsertFindsNone(p)
    \/ BatchEnds(p)
    \/ SendUpdate(p)
    \/ InsertRow(p)
    \/ InsertRefused(p)
    \/ CommitBatch(p)
    \/ DeadlockAborts(p)

GateNext ==
    \/ \E p \in Procs : GateStep(p) \/ JobAborts(p)
    \/ \E p \in Procs, j \in GateJobs : StartJob(p, j)

GateSpec == GateInit /\ [][GateNext]_gateVars

\* A job that runs keeps being scheduled; PostgreSQL serves the waiters of a
\* lock first come, first served, so that no later job overtakes one for ever.
FairGateSpec == GateSpec /\ \A p \in Procs : SF_gateVars(GateStep(p))

-----------------------------------------------------------------------------
GateTypeOK ==
    /\ onlypublic \in BOOLEAN
    /\ table \in [Keys -> Row \cup {None}]
    /\ pc \in [Procs -> Ended \cup Busy]
    /\ job \in [Procs -> GateJobs \cup {None}]
    /\ batch \in [Procs -> Seq(Upserts)]
    /\ at \in [Procs -> Nat]
    /\ \A p \in Procs : at[p] \in 1 .. Len(batch[p]) + 1
    /\ dirty \in [Procs -> SUBSET (Keys \X Columns)]
    /\ sent \in [Procs -> SUBSET (Keys \X Columns)]
    /\ made \in [Procs -> SUBSET Keys]
    /\ wl \in [Procs -> SUBSET Codes]
    /\ over \in [Procs -> SUBSET Keys]
    /\ loaded \subseteq SUBSET Codes

(***************************************************************************)
(* Nobody ever sees half a refresh: the institutions in the table are      *)
(* those of whole files that were committed, whatever races, failures and  *)
(* deadlocks the transactions of refresh_emec_job meet (jobs.py:42).       *)
(***************************************************************************)
RefreshAllOrNothing ==
    \E S \in SUBSET loaded : {c \in Codes : table[c] # None} = UNION S

(***************************************************************************)
(* A crawl that goes on with an empty whitelist, and so matches nothing,   *)
(* has just refreshed from a file without an eligible institution, or      *)
(* another job has rewritten the rows it had refreshed (jobs.py:60-65).    *)
(***************************************************************************)
EmptyCrawlHasCause ==
    \A p \in Procs : job[p] = "crawl" /\ pc[p] = "done" /\ wl[p] = {} =>
        \A i \in DOMAIN batch[p] :
            batch[p][i].key \in over[p] \/ ~ batch[p][i].row.gratuita

(***************************************************************************)
(* The gate never opens for an institution that no version of the file     *)
(* lists as active and public (client.py:49-53): no mixture of the columns *)
(* of two refreshes makes one eligible.                                    *)
(***************************************************************************)
EligibleWasListed ==
    \A c \in Eligible : \E f \in SeedFiles : \E i \in DOMAIN f :
        f[i].codigo = c /\ f[i].ativa /\ f[i].publica

(***************************************************************************)
(* What a refresh or a seeding commits is what it has read from its file,  *)
(* column by column, in every row that no other job has committed since it *)
(* compared it (ies_repository.py:30-42: only what differs is sent, and    *)
(* only at the next flush).                                                *)
(***************************************************************************)
RefreshSticks ==
    [][\A p \in Procs : CommitBatch(p) =>
         \A i \in DOMAIN batch[p] :
             batch[p][i].key \notin Kept \cup over[p]
                 => table'[batch[p][i].key] = batch[p][i].row]_gateVars

(***************************************************************************)
(* Every job that starts ends: the transactions wait for the rows and the  *)
(* keys of each other, in the orders of two files, and none waits for ever.*)
(***************************************************************************)
JobsEnd == \A p \in Procs : pc[p] \in Busy ~> pc[p] \in Ended
=============================================================================
