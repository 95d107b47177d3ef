--------------------------- MODULE EmecGateProofs ---------------------------
(***************************************************************************)
(* For any number of jobs that run at once, any files and any order of the *)
(* keys: nobody sees half a refresh, the gate opens for nobody whom no     *)
(* file lists, what a job commits is what it read, and a crawl with an     *)
(* empty whitelist has its cause.                                          *)
(***************************************************************************)
EXTENDS EmecGate, SiftingProofs

WasListed(c) ==
    \E f \in SeedFiles : \E i \in DOMAIN f : f[i].codigo = c /\ f[i].ativa /\ f[i].publica

\* Where a job keeps what.
Placed(q) ==
    /\ pc[q] \in {"idle", "whitelist", "load"} => batch[q] = <<>> /\ at[q] = 1
    /\ pc[q] \notin {"upsert", "insert", "commit"} =>
         dirty[q] = {} /\ sent[q] = {} /\ made[q] = {}
    /\ pc[q] = "insert" => at[q] <= Len(batch[q])
    /\ pc[q] \in {"commit", "rebuild"} => at[q] > Len(batch[q])

\* What a job upserts: no key twice, and institutions as some file lists them.
Sound(b, seeds) ==
    /\ \A i, j \in DOMAIN b : b[i].key = b[j].key => i = j
    /\ \A i \in DOMAIN b :
         IF seeds THEN b[i].key \in Others
         ELSE /\ b[i].key \in Codes /\ b[i].row.ativa
              /\ b[i].row.gratuita => WasListed(b[i].key)

\* What the open transaction changes, it has passed.
Passed(q, k) == \E i \in DOMAIN batch[q] : i < at[q] /\ batch[q][i].key = k

Touched(q) ==
    /\ \A d \in dirty[q] \cup sent[q] : table[d[1]] # None /\ Passed(q, d[1])
    /\ \A k \in made[q] : Passed(q, k)

\* A row that it has passed is there, and as it should be, unless the columns that
\* differ are on their way or somebody else has committed it since.
Agrees(q, u) ==
    \A c \in Columns : table[u.key][c] = u.row[c] \/ <<u.key, c>> \in dirty[q] \cup sent[q]

Compared(q) ==
    \A i \in DOMAIN batch[q] : i < at[q] =>
        \/ batch[q][i].key \in made[q]
        \/ /\ table[batch[q][i].key] # None
           /\ batch[q][i].key \in Kept \cup over[q] \/ Agrees(q, batch[q][i])

Transactions ==
    \A q \in Procs : Placed(q) /\ Sound(batch[q], job[q] = "seed") /\ Touched(q) /\ Compared(q)

GratuitaListed ==
    \A c \in Codes : table[c] # None => table[c].ativa /\ (table[c].gratuita => WasListed(c))

GInv ==
    /\ GateTypeOK
    /\ Transactions
    /\ GratuitaListed
    /\ RefreshAllOrNothing
    /\ EmptyCrawlHasCause

-----------------------------------------------------------------------------
(* Rows and batches.                                                       *)

LEMMA RowColumns ==
    ASSUME NEW r \in Row, NEW q \in Row
    PROVE  /\ (\A c \in Columns : r[c] = q[c]) => r = q
           /\ r["ativa"] = r.ativa /\ r["gratuita"] = r.gratuita
           /\ \A S : [c \in Columns |-> IF c \in S THEN r[c] ELSE q[c]] \in Row
  BY DEF Row, Columns

LEMMA GateConstants ==
    /\ Codes \cap Others = {} /\ Kept \subseteq Others /\ None \notin Row
    /\ \A f \in SeedFiles : /\ f \in Seq(SeedLine)
                            /\ \A i, j \in DOMAIN f : f[i].codigo = f[j].codigo => i = j
    /\ \A b \in SeedBatches : /\ b \in Seq([key : Others, row : Row])
                              /\ \A i, j \in DOMAIN b : b[i].key = b[j].key => i = j
  BY GateAssumption

LEMMA ListedIsSound ==
    ASSUME NEW f \in SeedFiles, onlypublic \in BOOLEAN
    PROVE  Listed(f) \in Seq(Upserts) /\ Sound(Listed(f), FALSE)
<1> DEFINE S == {r \in SeedLine : r.ativa /\ (onlypublic => r.publica)}
           lines == Sift(f, S)
           b == Listed(f)
<1>1. f \in Seq(SeedLine) /\ \A i, j \in DOMAIN f : f[i].codigo = f[j].codigo => i = j
  BY GateConstants
<1>2. lines \in Seq(SeedLine) /\ \A k \in DOMAIN lines : lines[k] \in S
  BY <1>1, SiftTyped
<1>3. PICK g \in [DOMAIN lines -> DOMAIN f] :
        /\ \A k \in DOMAIN lines : lines[k] = f[g[k]]
        /\ \A k, l \in DOMAIN lines : k < l => g[k] < g[l]
  BY <1>1, SiftPlaces
<1>4. b = [i \in DOMAIN lines |->
             [key |-> lines[i].codigo,
              row |-> [ativa |-> lines[i].ativa, gratuita |-> lines[i].publica,
                       cat |-> lines[i].cat]]]
  BY DEF Listed
<1> HIDE DEF lines, b
<1>5. ASSUME NEW i \in DOMAIN lines
      PROVE  /\ lines[i] \in SeedLine /\ lines[i].ativa
             /\ b[i].key = lines[i].codigo /\ b[i].row.ativa = lines[i].ativa
             /\ b[i].row.gratuita = lines[i].publica /\ b[i] \in Upserts
             /\ lines[i] = f[g[i]] /\ g[i] \in DOMAIN f
  <2>1. lines[i] \in SeedLine /\ lines[i].ativa
    BY <1>2
  <2> QED
    BY <1>3, <1>4, <2>1 DEF SeedLine, Upserts, Row, Keys
<1>6. DOMAIN b = DOMAIN lines /\ DOMAIN lines = 1 .. Len(lines) /\ Len(lines) \in Nat
  BY <1>2, <1>4
<1>7. b \in Seq(Upserts)
  <2>1. b \in [1 .. Len(lines) -> Upserts]
    BY <1>4, <1>5, <1>6
  <2> QED
    BY <1>6, <2>1
<1>8. ASSUME NEW i \in DOMAIN b, NEW j \in DOMAIN b, b[i].key = b[j].key PROVE i = j
  <2>1. g[i] = g[j]
    BY <1>1, <1>5, <1>6, <1>8
  <2>2. g[i] \in Nat /\ i \in Nat /\ j \in Nat
    BY <1>1, <1>5, <1>6
  <2> QED
    BY <1>3, <1>6, <2>1, <2>2
<1>9. ASSUME NEW i \in DOMAIN b
      PROVE  b[i].key \in Codes /\ b[i].row.ativa /\ (b[i].row.gratuita => WasListed(b[i].key))
  BY <1>5, <1>6 DEF WasListed, SeedLine
<1> QED
  BY <1>7, <1>8, <1>9 DEF b, Sound

LEMMA SeedIsSound ==
    ASSUME NEW b \in SeedBatches
    PROVE  b \in Seq(Upserts) /\ Sound(b, TRUE)
<1>1. b \in Seq([key : Others, row : Row]) /\ \A i, j \in DOMAIN b : b[i].key = b[j].key => i = j
  BY GateConstants
<1>2. ASSUME NEW i \in DOMAIN b PROVE b[i] \in Upserts /\ b[i].key \in Others
  <2> DEFINE R == [key : Others, row : Row]
  <2> HIDE DEF R
  <2>1. b \in Seq(R)
    BY <1>1 DEF R
  <2>2. b[i] \in R
    BY <2>1
  <2> QED
    BY <2>2 DEF R, Upserts, Keys
<1>3. b \in Seq(Upserts)
  <2>1. b = [i \in 1 .. Len(b) |-> b[i]] /\ Len(b) \in Nat /\ DOMAIN b = 1 .. Len(b)
    BY <1>1
  <2>2. \A i \in 1 .. Len(b) : b[i] \in Upserts
    BY <1>2, <2>1
  <2> QED
    BY <2>1, <2>2
<1> QED
  BY <1>1, <1>2, <1>3 DEF Sound

LEMMA NothingIsSound == ASSUME NEW seeds PROVE <<>> \in Seq(Upserts) /\ Sound(<<>>, seeds)
  BY DEF Sound

\* The upsert a job is at.
LEMMA CurrentTyped ==
    ASSUME GateTypeOK, NEW p \in Procs, at[p] <= Len(batch[p])
    PROVE  /\ at[p] \in DOMAIN batch[p] /\ at[p] + 1 \in 1 .. Len(batch[p]) + 1
           /\ Current(p) = batch[p][at[p]] /\ Current(p) \in Upserts
           /\ Current(p).key \in Keys /\ Current(p).row \in Row
           /\ KeysOf({}) = {}
<1>1. batch[p] \in Seq(Upserts) /\ at[p] \in 1 .. Len(batch[p]) + 1
  BY DEF GateTypeOK
<1>2. at[p] \in DOMAIN batch[p] /\ Current(p) \in Upserts
  BY <1>1 DEF Current
<1> QED
  BY <1>1, <1>2 DEF Current, Upserts, KeysOf

-----------------------------------------------------------------------------
(* A step of one job, seen by the others.                                  *)

StepOf(p) == GateStep(p) \/ JobAborts(p) \/ \E j \in GateJobs : StartJob(p, j)

LEMMA SomeStep ==
    ASSUME [GateNext]_gateVars
    PROVE  (\E p \in Procs : StepOf(p)) \/ UNCHANGED gateVars
  BY DEF GateNext, StepOf

LEMMA OthersAlone ==
    ASSUME GateTypeOK, NEW p \in Procs, StepOf(p), NEW q \in Procs, q # p
    PROVE  UNCHANGED <<pc[q], job[q], batch[q], at[q], dirty[q], sent[q], made[q], wl[q]>>
<1> USE DEF GateTypeOK, Become, EndJob, CloseSession, txs
<1>1. CASE \E j \in GateJobs : StartJob(p, j)
  BY <1>1 DEF StartJob
<1>2. CASE BuildWhitelist(p) \/ SpidersEnd(p) \/ LoadBatch(p)
  BY <1>2 DEF BuildWhitelist, SpidersEnd, LoadBatch
<1>3. CASE UpsertFindsRow(p) \/ UpsertFindsNone(p) \/ BatchEnds(p)
  BY <1>3 DEF UpsertFindsRow, UpsertFindsNone, BatchEnds
<1>4. CASE SendUpdate(p) \/ InsertRow(p)
  BY <1>4 DEF SendUpdate, InsertRow
<1>5. CASE InsertRefused(p) \/ DeadlockAborts(p) \/ JobAborts(p)
  BY <1>5 DEF InsertRefused, DeadlockAborts, JobAborts, FailJob
<1>6. CASE CommitBatch(p)
  BY <1>6 DEF CommitBatch, Publishes, Rebuild
<1> QED
  BY <1>1, <1>2, <1>3, <1>4, <1>5, <1>6 DEF StepOf, GateStep

LEMMA OnlyCommitsPublish ==
    ASSUME GateTypeOK, NEW p \in Procs, StepOf(p), ~ CommitBatch(p)
    PROVE  /\ UNCHANGED <<onlypublic, table, loaded>>
           /\ \A q \in Procs : q # p => over'[q] = over[q]
<1> USE DEF GateTypeOK
<1>1. CASE \E j \in GateJobs : StartJob(p, j)
  BY <1>1 DEF StartJob
<1>2. CASE BuildWhitelist(p) \/ SpidersEnd(p) \/ LoadBatch(p)
  BY <1>2 DEF BuildWhitelist, SpidersEnd, LoadBatch
<1>3. CASE UpsertFindsRow(p) \/ UpsertFindsNone(p) \/ BatchEnds(p)
  BY <1>3 DEF UpsertFindsRow, UpsertFindsNone, BatchEnds
<1>4. CASE SendUpdate(p) \/ InsertRow(p)
  BY <1>4 DEF SendUpdate, InsertRow
<1>5. CASE InsertRefused(p) \/ DeadlockAborts(p) \/ JobAborts(p)
  BY <1>5 DEF InsertRefused, DeadlockAborts, JobAborts, FailJob
<1> QED
  BY <1>1, <1>2, <1>3, <1>4, <1>5 DEF StepOf, GateStep

\* A job that is over or has failed.
LEMMA FailedJob ==
    ASSUME GateTypeOK, NEW p \in Procs,
           InsertRefused(p) \/ DeadlockAborts(p) \/ JobAborts(p) \/ SpidersEnd(p),
           Placed(p)
    PROVE  /\ pc'[p] = "idle" /\ job'[p] = None /\ batch'[p] = <<>> /\ at'[p] = 1 /\ wl'[p] = {}
           /\ dirty'[p] = {} /\ sent'[p] = {} /\ made'[p] = {} /\ over'[p] = {}
<1>1. CASE InsertRefused(p) \/ DeadlockAborts(p) \/ JobAborts(p)
  BY <1>1 DEF InsertRefused, DeadlockAborts, JobAborts, FailJob, EndJob, CloseSession, Become,
     GateTypeOK
<1>2. CASE SpidersEnd(p)
  BY <1>2 DEF SpidersEnd, EndJob, Become, GateTypeOK, Placed
<1> QED
  BY <1>1, <1>2

-----------------------------------------------------------------------------
(* What a commit publishes.                                                *)

LEMMA StoredRow ==
    ASSUME GateTypeOK, Transactions, NEW p \in Procs, NEW k \in WrittenBy(p)
    PROVE  /\ k \in Keys /\ Stored(p, k) \in Row
           /\ \E i \in DOMAIN batch[p] :
                /\ i < at[p] /\ batch[p][i].key = k
                /\ Stored(p, k) =
                     IF k \in made[p] THEN batch[p][i].row
                     ELSE [c \in Columns |-> IF <<k, c>> \in sent[p] THEN batch[p][i].row[c]
                                             ELSE table[k][c]]
           /\ k \notin made[p] => table[k] # None
<1>1. batch[p] \in Seq(Upserts) /\ table \in [Keys -> Row \cup {None}]
  BY DEF GateTypeOK
<1>2. /\ k \in made[p] \/ \E d \in sent[p] : d[1] = k
      /\ Passed(p, k) /\ (k \notin made[p] => table[k] # None)
  BY DEF WrittenBy, KeysOf, Transactions, Touched
<1>3. PICK i \in DOMAIN batch[p] : i < at[p] /\ batch[p][i].key = k
  BY <1>2 DEF Passed
<1>4. batch[p][i] \in Upserts /\ batch[p][i].row \in Row /\ k \in Keys
  <2>1. batch[p][i] \in Upserts
    BY <1>1, <1>3
  <2> QED
    BY <1>3, <2>1 DEF Upserts
<1>5. (CHOOSE n \in DOMAIN batch[p] : batch[p][n].key = k) = i
  BY <1>3 DEF Transactions, Sound
<1>6. Stored(p, k) = IF k \in made[p] THEN batch[p][i].row
                     ELSE [c \in Columns |-> IF <<k, c>> \in sent[p] THEN batch[p][i].row[c]
                                             ELSE table[k][c]]
  <2> DEFINE n == CHOOSE n \in DOMAIN batch[p] : batch[p][n].key = k
  <2>1. Stored(p, k) = IF k \in made[p] THEN batch[p][n].row
                       ELSE [c \in Columns |-> IF <<k, c>> \in sent[p] THEN batch[p][n].row[c]
                                               ELSE table[k][c]]
    BY DEF Stored
  <2> HIDE DEF n
  <2>2. n = i
    BY <1>5 DEF n
  <2> QED
    BY <2>1, <2>2
<1>7. Stored(p, k) \in Row
  <2>1. CASE k \in made[p]
    BY <1>4, <1>6, <2>1
  <2>2. CASE k \notin made[p]
    <3>1. table[k] \in Row
      BY <1>1, <1>2, <1>4, <2>2
    <3> DEFINE S == {c \in Columns : <<k, c>> \in sent[p]}
    <3>2. Stored(p, k) = [c \in Columns |-> IF c \in S THEN batch[p][i].row[c] ELSE table[k][c]]
      BY <1>6, <2>2
    <3> HIDE DEF S
    <3>3. [c \in Columns |-> IF c \in S THEN batch[p][i].row[c] ELSE table[k][c]] \in Row
      BY <1>4, <3>1, RowColumns
    <3> QED
      BY <3>2, <3>3
  <2> QED
    BY <2>1, <2>2
<1> QED
  BY <1>2, <1>3, <1>4, <1>6, <1>7

LEMMA CommitPublishes ==
    ASSUME GateTypeOK, Transactions, NEW p \in Procs, CommitBatch(p)
    PROVE  /\ table' = [k \in Keys |-> IF k \in WrittenBy(p) THEN Stored(p, k) ELSE table[k]]
           /\ table' \in [Keys -> Row \cup {None}]
           /\ \A k \in Keys : table[k] # None => table'[k] # None
           /\ \A q \in Procs : q # p => over'[q] = over[q] \cup (ReadBy(q) \cap WrittenBy(p))
           /\ over'[p] = IF job[p] = "crawl" THEN over[p] ELSE {}
           /\ WrittenBy(p) \subseteq Keys
<1>1. table' = [k \in Keys |-> IF k \in WrittenBy(p) THEN Stored(p, k) ELSE table[k]]
  BY DEF CommitBatch, Publishes
<1>2. \A k \in WrittenBy(p) : k \in Keys /\ Stored(p, k) \in Row
  BY StoredRow
<1>3. table' \in [Keys -> Row \cup {None}] /\ \A k \in Keys : table[k] # None => table'[k] # None
  BY <1>1, <1>2, GateConstants DEF GateTypeOK
<1>4. over' = [q \in Procs |->
                  CASE q # p -> over[q] \cup (ReadBy(q) \cap WrittenBy(p))
                    [] q = p /\ job[p] = "crawl" -> over[q]
                    [] OTHER -> {}]
  BY DEF CommitBatch, Publishes
<1>5. ASSUME NEW q \in Procs, q # p PROVE over'[q] = over[q] \cup (ReadBy(q) \cap WrittenBy(p))
  BY <1>4, <1>5
<1>6. over'[p] = IF job[p] = "crawl" THEN over[p] ELSE {}
  BY <1>4
<1> QED
  BY <1>1, <1>2, <1>3, <1>5, <1>6

\* What a commit leaves of what the job has read: every row of its batch is there,
\* and holds what it should unless somebody else has committed it since.
LEMMA CommitSticks ==
    ASSUME GateTypeOK, Transactions, NEW p \in Procs, CommitBatch(p), NEW i \in DOMAIN batch[p]
    PROVE  /\ batch[p][i].key \in Keys /\ table'[batch[p][i].key] # None
           /\ batch[p][i].key \notin Kept \cup over[p] => table'[batch[p][i].key] = batch[p][i].row
<1> DEFINE k == batch[p][i].key
           row == batch[p][i].row
<1>1. pc[p] = "commit" /\ dirty[p] = {}
  BY DEF CommitBatch
<1>2. batch[p] \in Seq(Upserts) /\ table \in [Keys -> Row \cup {None}] /\ at[p] \in Nat
  BY DEF GateTypeOK
<1>3. batch[p][i] \in Upserts /\ i \in 1 .. Len(batch[p]) /\ Len(batch[p]) \in Nat
  BY <1>2
<1>4. k \in Keys /\ row \in Row
  BY <1>3 DEF Upserts
<1>5. i < at[p]
  BY <1>1, <1>2, <1>3 DEF Transactions, Placed
<1>6. \/ k \in made[p]
      \/ table[k] # None /\ (k \in Kept \cup over[p] \/ Agrees(p, batch[p][i]))
  BY <1>5 DEF Transactions, Compared
<1>7. table'[k] = IF k \in WrittenBy(p) THEN Stored(p, k) ELSE table[k]
  BY <1>4, CommitPublishes
<1>8. table'[k] # None
  <2>1. CASE k \in WrittenBy(p)
    BY <1>7, <2>1, StoredRow, GateConstants
  <2>2. CASE k \notin WrittenBy(p)
    <3>1. k \notin made[p]
      BY <2>2 DEF WrittenBy
    <3> QED
      BY <1>6, <1>7, <2>2, <3>1
  <2> QED
    BY <2>1, <2>2
<1> HIDE DEF k, row
<1>9. ASSUME k \notin Kept \cup over[p] PROVE table'[k] = row
  <2>1. CASE k \in WrittenBy(p)
    <3>1. PICK n \in DOMAIN batch[p] :
            /\ batch[p][n].key = k
            /\ Stored(p, k) =
                 IF k \in made[p] THEN batch[p][n].row
                 ELSE [c \in Columns |-> IF <<k, c>> \in sent[p] THEN batch[p][n].row[c]
                                         ELSE table[k][c]]
      BY <2>1, StoredRow
    <3>2. n = i
      BY <3>1 DEF k, Transactions, Sound
    <3>3. CASE k \in made[p]
      BY <1>7, <2>1, <3>1, <3>2, <3>3 DEF row
    <3>4. CASE k \notin made[p]
      <4>1. table[k] \in Row
        BY <1>2, <1>4, <1>6, <3>4
      <4>2. \A c \in Columns : table[k][c] = row[c] \/ <<k, c>> \in sent[p]
        BY <1>1, <1>6, <1>9, <3>4 DEF Agrees, k, row
      <4>3. table'[k] = [c \in Columns |-> IF <<k, c>> \in sent[p] THEN row[c] ELSE table[k][c]]
        BY <1>7, <2>1, <3>1, <3>2, <3>4 DEF row
      <4>4. \A c \in Columns : table'[k][c] = row[c]
        BY <4>2, <4>3
      <4>5. table'[k] \in Row
        BY <1>7, <2>1, StoredRow
      <4> QED
        BY <1>4, <4>4, <4>5, RowColumns
    <3> QED
      BY <3>3, <3>4
  <2>2. CASE k \notin WrittenBy(p)
    <3>1. k \notin made[p] /\ \A c : <<k, c>> \notin sent[p]
      BY <2>2 DEF WrittenBy, KeysOf
    <3>2. table[k] \in Row
      BY <1>2, <1>4, <1>6, <3>1
    <3>3. \A c \in Columns : table[k][c] = row[c]
      BY <1>1, <1>6, <1>9, <3>1 DEF Agrees, k, row
    <3> QED
      BY <1>4, <1>7, <2>2, <3>2, <3>3, RowColumns
  <2> QED
    BY <2>1, <2>2
<1> QED
  BY <1>4, <1>8, <1>9 DEF k, row

-----------------------------------------------------------------------------
(* The invariant, step by step.                                            *)

LEMMA OthersKeepTheirs ==
    ASSUME GateTypeOK, Transactions, NEW p \in Procs, StepOf(p), NEW q \in Procs, q # p
    PROVE  Placed(q)' /\ Sound(batch[q], job[q] = "seed")' /\ Touched(q)' /\ Compared(q)'
<1>1. UNCHANGED <<pc[q], job[q], batch[q], at[q], dirty[q], sent[q], made[q]>>
  BY OthersAlone
<1>2. Placed(q) /\ Sound(batch[q], job[q] = "seed") /\ Touched(q) /\ Compared(q)
  BY DEF Transactions
<1>3. Placed(q)'
  BY <1>1, <1>2 DEF Placed
<1>4. Sound(batch[q], job[q] = "seed")'
  BY <1>1, <1>2 DEF Sound, WasListed
<1>5. CASE ~ CommitBatch(p)
  <2>1. table' = table /\ over'[q] = over[q]
    BY <1>5, OnlyCommitsPublish
  <2>2. Touched(q)'
    BY <1>1, <1>2, <2>1 DEF Touched, Passed
  <2>3. Compared(q)'
    BY <1>1, <1>2, <2>1 DEF Compared, Agrees
  <2> QED
    BY <1>3, <1>4, <2>2, <2>3
<1>6. CASE CommitBatch(p)
  <2>1. /\ \A k \in Keys : table[k] # None => table'[k] # None
        /\ \A k \in Keys : k \notin WrittenBy(p) => table'[k] = table[k]
        /\ over'[q] = over[q] \cup (ReadBy(q) \cap WrittenBy(p))
    BY <1>6, CommitPublishes
  <2>2. dirty[q] \in SUBSET (Keys \X Columns) /\ sent[q] \in SUBSET (Keys \X Columns)
    BY DEF GateTypeOK
  <2>3. Touched(q)'
    <3>1. \A d \in dirty[q] \cup sent[q] : d[1] \in Keys
      BY <2>2
    <3>2. \A d \in dirty[q] \cup sent[q] : table'[d[1]] # None /\ Passed(q, d[1])
      BY <1>2, <2>1, <3>1 DEF Touched
    <3> QED
      BY <1>1, <1>2, <3>2 DEF Touched, Passed
  <2>4. ASSUME NEW i \in DOMAIN batch[q], i < at[q]
        PROVE  \/ batch[q][i].key \in made[q]
               \/ /\ table'[batch[q][i].key] # None
                  /\ \/ batch[q][i].key \in Kept \cup over'[q]
                     \/ \A c \in Columns : \/ table'[batch[q][i].key][c] = batch[q][i].row[c]
                                           \/ <<batch[q][i].key, c>> \in dirty[q] \cup sent[q]
    <3> DEFINE u == batch[q][i]
    <3>1. u.key \in Keys
      <4>1. batch[q] \in Seq(Upserts)
        BY DEF GateTypeOK
      <4>2. u \in Upserts
        BY <4>1
      <4> QED
        BY <4>2 DEF Upserts
    <3>2. u.key \in ReadBy(q)
      BY <2>4 DEF ReadBy
    <3>3. \/ u.key \in made[q]
          \/ /\ table[u.key] # None
             /\ \/ u.key \in Kept \cup over[q]
                \/ \A c \in Columns : table[u.key][c] = u.row[c] \/ <<u.key, c>> \in dirty[q] \cup sent[q]
      BY <1>2, <2>4 DEF Compared, Agrees
    <3> HIDE DEF u
    <3>4. \/ u.key \in made[q]
          \/ /\ table'[u.key] # None
             /\ \/ u.key \in Kept \cup over'[q]
                \/ \A c \in Columns : table'[u.key][c] = u.row[c] \/ <<u.key, c>> \in dirty[q] \cup sent[q]
      <4>1. CASE u.key \in WrittenBy(p)
        BY <2>1, <3>1, <3>2, <3>3, <4>1
      <4>2. CASE u.key \notin WrittenBy(p)
        BY <2>1, <3>1, <3>3, <4>2
      <4> QED
        BY <4>1, <4>2
    <3> QED
      BY <3>4 DEF u
  <2>5. Compared(q)'
    BY <1>1, <2>4 DEF Compared, Agrees
  <2> QED
    BY <1>3, <1>4, <2>3, <2>5
<1> QED
  BY <1>5, <1>6

LEMMA OwnStep ==
    ASSUME GateTypeOK, Transactions, NEW p \in Procs, StepOf(p)
    PROVE  Placed(p)' /\ Sound(batch[p], job[p] = "seed")' /\ Touched(p)' /\ Compared(p)'
<1> USE DEF GateTypeOK
<1>1. Placed(p) /\ Sound(batch[p], job[p] = "seed") /\ Touched(p) /\ Compared(p)
  BY DEF Transactions
<1>2. batch[p] \in Seq(Upserts) /\ at[p] \in Nat /\ Len(batch[p]) \in Nat
  OBVIOUS
<1>3. CASE \E j \in GateJobs : StartJob(p, j)
  <2>1. PICK j \in GateJobs : StartJob(p, j)
    BY <1>3
  <2>2. /\ pc[p] = "idle" /\ pc'[p] \in {"whitelist", "load"} /\ table' = table
        /\ UNCHANGED <<batch, at, dirty, sent, made, over>>
    BY <2>1 DEF StartJob, Become, txs
  <2>3. batch[p] = <<>> /\ at[p] = 1
    BY <1>1, <2>2 DEF Placed
  <2>4. Sound(batch[p], job[p] = "seed")'
    BY <2>2, <2>3 DEF Sound
  <2>5. Placed(p)' /\ Touched(p)' /\ Compared(p)'
    BY <1>1, <2>2 DEF Placed, Touched, Passed, Compared, Agrees
  <2> QED
    BY <2>4, <2>5
<1>4. CASE BuildWhitelist(p)
  <2>1. /\ pc[p] \in {"whitelist", "rebuild"} /\ table' = table
        /\ pc'[p] = "done" \/ (pc[p] = "whitelist" /\ pc'[p] = "load")
        /\ UNCHANGED <<job, batch, at, dirty, sent, made, over>>
    BY <1>4 DEF BuildWhitelist, Become, txs
  <2>2. Sound(batch[p], job[p] = "seed")'
    BY <1>1, <2>1 DEF Sound, WasListed
  <2> QED
    BY <1>1, <2>1, <2>2 DEF Placed, Touched, Passed, Compared, Agrees
<1>5. CASE LoadBatch(p)
  <2>1. /\ pc[p] = "load" /\ pc'[p] = "upsert" /\ table' = table
        /\ batch'[p] \in IF job[p] = "seed" THEN SeedBatches ELSE {Listed(f) : f \in SeedFiles}
        /\ UNCHANGED <<job, at, dirty, sent, made, over>>
    BY <1>5 DEF LoadBatch, Become
  <2>2. at[p] = 1 /\ dirty[p] = {} /\ sent[p] = {} /\ made[p] = {}
    BY <1>1, <2>1 DEF Placed
  <2>3. batch'[p] \in Seq(Upserts) /\ Sound(batch'[p], job[p] = "seed")
    <3>1. CASE job[p] = "seed"
      BY <2>1, <3>1, SeedIsSound
    <3>2. CASE job[p] # "seed"
      <4>1. PICK f \in SeedFiles : batch'[p] = Listed(f)
        BY <2>1, <3>2
      <4> QED
        BY <3>2, <4>1, ListedIsSound
    <3> QED
      BY <3>1, <3>2
  <2>4. Sound(batch[p], job[p] = "seed")'
    BY <2>1, <2>3 DEF Sound, WasListed
  <2>5. ASSUME NEW i \in DOMAIN batch'[p] PROVE ~ (i < at'[p])
    BY <2>1, <2>2, <2>3
  <2> QED
    BY <2>1, <2>2, <2>4, <2>5 DEF Placed, Touched, Passed, Compared
<1>6. CASE UpsertFindsRow(p)
  <2>0. PICK u : u = Current(p)
    OBVIOUS
  <2>1. /\ pc[p] = "upsert" /\ at[p] <= Len(batch[p]) /\ table[u.key] # None /\ table' = table
        /\ dirty'[p] = IF u.key \in Kept THEN dirty[p] ELSE dirty[p] \cup Changed(u)
        /\ at'[p] = at[p] + 1
        /\ UNCHANGED <<pc, job, batch, sent, made, over>>
    BY <1>6, <2>0 DEF UpsertFindsRow
  <2>2. at[p] \in DOMAIN batch[p] /\ u = batch[p][at[p]] /\ u.key \in Keys
    BY <2>0, <2>1, CurrentTyped
  <2>3. Placed(p)'
    BY <1>1, <2>1 DEF Placed
  <2>4. Sound(batch[p], job[p] = "seed")'
    BY <1>1, <2>1 DEF Sound, WasListed
  <2>5. \A k : Passed(p, k) => Passed(p, k)'
    BY <1>2, <2>1 DEF Passed
  <2>6. Passed(p, u.key)'
    <3>1. at[p] \in DOMAIN batch'[p] /\ at[p] < at'[p] /\ batch'[p][at[p]].key = u.key
      BY <1>2, <2>1, <2>2
    <3> QED
      BY <3>1 DEF Passed
  <2>7. Touched(p)'
    <3>1. ASSUME NEW d \in dirty'[p] \cup sent'[p] PROVE table'[d[1]] # None /\ Passed(p, d[1])'
      <4>1. CASE d \in dirty[p] \cup sent[p]
        BY <1>1, <2>1, <2>5, <4>1 DEF Touched
      <4>2. CASE d \in Changed(u)
        <5>1. d[1] = u.key
          BY <4>2 DEF Changed
        <5> QED
          BY <2>1, <2>6, <5>1
      <4> QED
        BY <2>1, <3>1, <4>1, <4>2
    <3>2. ASSUME NEW k \in made'[p] PROVE Passed(p, k)'
      BY <1>1, <2>1, <2>5, <3>2 DEF Touched
    <3> QED
      BY <3>1, <3>2 DEF Touched
  <2>8. ASSUME NEW i \in DOMAIN batch[p], i < at[p] + 1
        PROVE  \/ batch[p][i].key \in made[p]
               \/ /\ table[batch[p][i].key] # None
                  /\ batch[p][i].key \in Kept \cup over[p] \/ Agrees(p, batch[p][i])'
    <3>1. CASE i < at[p]
      <4>1. Agrees(p, batch[p][i]) => Agrees(p, batch[p][i])'
        BY <2>1 DEF Agrees
      <4> QED
        BY <1>1, <3>1, <4>1 DEF Compared
    <3>2. CASE i = at[p]
      <4>1. CASE u.key \in Kept
        BY <2>1, <2>2, <3>2, <4>1
      <4>2. CASE u.key \notin Kept
        <5>1. ASSUME NEW c \in Columns, table[u.key][c] # u.row[c] PROVE <<u.key, c>> \in dirty'[p]
          BY <2>1, <4>2, <5>1 DEF Changed
        <5>2. Agrees(p, batch[p][i])'
          BY <2>1, <2>2, <3>2, <5>1 DEF Agrees
        <5> QED
          BY <2>1, <2>2, <3>2, <5>2
      <4> QED
        BY <4>1, <4>2
    <3> QED
      BY <1>2, <2>8, <3>1, <3>2
  <2>9. Compared(p)'
    BY <2>1, <2>8 DEF Compared
  <2> QED
    BY <2>3, <2>4, <2>7, <2>9
<1>7. CASE UpsertFindsNone(p) \/ BatchEnds(p)
  <2>1. /\ pc[p] = "upsert" /\ table' = table
        /\ \/ pc'[p] = "insert" /\ at[p] <= Len(batch[p])
           \/ pc'[p] = "commit" /\ at[p] > Len(batch[p])
        /\ UNCHANGED <<job, batch, at, dirty, sent, made, over>>
    BY <1>7 DEF UpsertFindsNone, BatchEnds, Become, txs
  <2>2. Sound(batch[p], job[p] = "seed")'
    BY <1>1, <2>1 DEF Sound, WasListed
  <2> QED
    BY <1>1, <2>1, <2>2 DEF Placed, Touched, Passed, Compared, Agrees
<1>8. CASE SendUpdate(p)
  <2>1. /\ pc[p] \in {"insert", "commit"} /\ table' = table
        /\ dirty'[p] \cup sent'[p] = dirty[p] \cup sent[p]
        /\ UNCHANGED <<pc, job, batch, at, made, over>>
    <3> DEFINE row == {d \in dirty[p] : d[1] = NextUpdate(p)}
    <3>1. sent'[p] = sent[p] \cup row /\ dirty'[p] = dirty[p] \ row
      BY <1>8 DEF SendUpdate
    <3>2. row \subseteq dirty[p]
      OBVIOUS
    <3> HIDE DEF row
    <3>3. dirty'[p] \cup sent'[p] = dirty[p] \cup sent[p]
      BY <3>1, <3>2
    <3> QED
      BY <1>8, <3>3 DEF SendUpdate, Flushing
  <2>2. Sound(batch[p], job[p] = "seed")'
    BY <1>1, <2>1 DEF Sound, WasListed
  <2>3. Placed(p)'
    BY <1>1, <2>1 DEF Placed
  <2>4. Touched(p)'
    BY <1>1, <2>1 DEF Touched, Passed
  <2>5. Compared(p)'
    BY <1>1, <2>1 DEF Compared, Agrees
  <2> QED
    BY <2>2, <2>3, <2>4, <2>5
<1>9. CASE InsertRow(p)
  <2>0. PICK u : u = Current(p)
    OBVIOUS
  <2>1. /\ pc[p] = "insert" /\ pc'[p] = "upsert" /\ table' = table
        /\ made'[p] = made[p] \cup {u.key} /\ at'[p] = at[p] + 1
        /\ UNCHANGED <<job, batch, dirty, sent, over>>
    BY <1>9, <2>0 DEF InsertRow, ReadyToInsert, Become
  <2>2. at[p] \in DOMAIN batch[p] /\ u = batch[p][at[p]]
    BY <1>1, <2>0, <2>1, CurrentTyped DEF Placed
  <2>3. Placed(p)'
    BY <2>1 DEF Placed
  <2>4. Sound(batch[p], job[p] = "seed")'
    BY <1>1, <2>1 DEF Sound, WasListed
  <2>5. \A k : Passed(p, k) => Passed(p, k)'
    BY <1>2, <2>1 DEF Passed
  <2>6. Passed(p, u.key)'
    <3>1. at[p] \in DOMAIN batch'[p] /\ at[p] < at'[p] /\ batch'[p][at[p]].key = u.key
      BY <1>2, <2>1, <2>2
    <3> QED
      BY <3>1 DEF Passed
  <2>7. Touched(p)'
    BY <1>1, <2>1, <2>5, <2>6 DEF Touched
  <2>8. ASSUME NEW i \in DOMAIN batch[p], i < at[p] + 1
        PROVE  \/ batch[p][i].key \in made'[p]
               \/ /\ table[batch[p][i].key] # None
                  /\ batch[p][i].key \in Kept \cup over[p] \/ Agrees(p, batch[p][i])'
    <3>1. CASE i < at[p]
      <4>1. Agrees(p, batch[p][i]) => Agrees(p, batch[p][i])'
        BY <2>1 DEF Agrees
      <4> QED
        BY <1>1, <2>1, <3>1, <4>1 DEF Compared
    <3>2. CASE i = at[p]
      BY <2>1, <2>2, <3>2
    <3> QED
      BY <1>2, <2>8, <3>1, <3>2
  <2>9. Compared(p)'
    BY <2>1, <2>8 DEF Compared
  <2> QED
    BY <2>3, <2>4, <2>7, <2>9
<1>10. CASE InsertRefused(p) \/ DeadlockAborts(p) \/ JobAborts(p) \/ SpidersEnd(p)
  <2>1. /\ pc'[p] = "idle" /\ batch'[p] = <<>> /\ at'[p] = 1
        /\ dirty'[p] = {} /\ sent'[p] = {} /\ made'[p] = {}
    BY <1>1, <1>10, FailedJob
  <2> QED
    BY <2>1 DEF Placed, Sound, Touched, Compared
<1>11. CASE CommitBatch(p)
  <2>1. /\ pc[p] = "commit" /\ dirty'[p] = {} /\ sent'[p] = {} /\ made'[p] = {}
        /\ \/ /\ job[p] = "crawl" /\ pc'[p] = "rebuild"
              /\ UNCHANGED <<job, batch, at>>
           \/ pc'[p] = "idle" /\ batch'[p] = <<>> /\ at'[p] = 1
    BY <1>11 DEF CommitBatch, Publishes, CloseSession, Rebuild, EndJob, Become
  <2>2. CASE job[p] = "crawl" /\ pc'[p] = "rebuild" /\ UNCHANGED <<job, batch, at>>
    <3>1. over'[p] = over[p]
      BY <1>11, <2>2, CommitPublishes
    <3>2. ASSUME NEW i \in DOMAIN batch[p]
          PROVE  /\ table'[batch[p][i].key] # None
                 /\ batch[p][i].key \in Kept \cup over[p] \/ Agrees(p, batch[p][i])'
      BY <1>11, CommitSticks, <2>2 DEF Agrees
    <3>3. Compared(p)'
      BY <2>2, <3>1, <3>2 DEF Compared
    <3>4. Sound(batch[p], job[p] = "seed")'
      BY <1>1, <2>2 DEF Sound, WasListed
    <3> QED
      BY <1>1, <2>1, <2>2, <3>3, <3>4 DEF Placed, Touched
  <2>3. CASE pc'[p] = "idle" /\ batch'[p] = <<>> /\ at'[p] = 1
    BY <2>1, <2>3 DEF Placed, Sound, Touched, Compared
  <2> QED
    BY <2>1, <2>2, <2>3
<1> QED
  BY <1>3, <1>4, <1>5, <1>6, <1>7, <1>8, <1>9, <1>10, <1>11 DEF StepOf, GateStep

LEMMA TransactionsStep ==
    ASSUME GateTypeOK, Transactions, NEW p \in Procs, StepOf(p)
    PROVE  Transactions'
<1>1. ASSUME NEW q \in Procs
      PROVE  Placed(q)' /\ Sound(batch[q], job[q] = "seed")' /\ Touched(q)' /\ Compared(q)'
  <2>1. CASE q = p
    BY <2>1, OwnStep
  <2>2. CASE q # p
    BY <2>2, OthersKeepTheirs
  <2> QED
    BY <2>1, <2>2
<1> QED
  BY <1>1 DEF Transactions

LEMMA OthersTyped ==
    ASSUME GateTypeOK, Transactions, NEW p \in Procs, StepOf(p)
    PROVE  onlypublic' \in BOOLEAN /\ table' \in [Keys -> Row \cup {None}]
           /\ loaded' \subseteq SUBSET Codes
<1>1. CASE ~ CommitBatch(p)
  BY <1>1, OnlyCommitsPublish DEF GateTypeOK
<1>2. CASE CommitBatch(p)
  <2>1. table' \in [Keys -> Row \cup {None}]
    BY <1>2, CommitPublishes
  <2>2. onlypublic' = onlypublic /\ loaded' \subseteq SUBSET Codes
    <3>1. loaded' = IF job[p] = "seed" THEN loaded
                    ELSE loaded \cup {{batch[p][i].key : i \in DOMAIN batch[p]}}
      BY <1>2 DEF CommitBatch, Publishes
    <3>2. job[p] # "seed" => \A i \in DOMAIN batch[p] : batch[p][i].key \in Codes
      BY DEF Transactions, Sound
    <3>3. loaded' \subseteq SUBSET Codes
      <4>1. loaded \subseteq SUBSET Codes
        BY DEF GateTypeOK
      <4>2. job[p] # "seed" => {batch[p][i].key : i \in DOMAIN batch[p]} \in SUBSET Codes
        BY <3>2
      <4> QED
        BY <3>1, <4>1, <4>2
    <3> QED
      BY <1>2, <3>3 DEF CommitBatch, Publishes
  <2> QED
    BY <2>1, <2>2 DEF GateTypeOK
<1> QED
  BY <1>1, <1>2

LEMMA EndsTyped ==
    ASSUME GateTypeOK, NEW p \in Procs
    PROVE  /\ EndJob(p) => /\ pc' \in [Procs -> Ended \cup Busy]
                           /\ job' \in [Procs -> GateJobs \cup {None}]
                           /\ batch' \in [Procs -> Seq(Upserts)]
                           /\ at' \in [Procs -> Nat]
                           /\ wl' \in [Procs -> SUBSET Codes]
                           /\ at'[p] \in 1 .. Len(batch'[p]) + 1
           /\ CloseSession(p) => /\ dirty' \in [Procs -> SUBSET (Keys \X Columns)]
                                 /\ sent' \in [Procs -> SUBSET (Keys \X Columns)]
                                 /\ made' \in [Procs -> SUBSET Keys]
<1>1. <<>> \in Seq(Upserts) /\ Len(<<>>) = 0
  OBVIOUS
<1>2. ASSUME EndJob(p)
      PROVE  /\ pc' \in [Procs -> Ended \cup Busy]
             /\ job' \in [Procs -> GateJobs \cup {None}]
             /\ batch' \in [Procs -> Seq(Upserts)]
             /\ at' \in [Procs -> Nat]
             /\ wl' \in [Procs -> SUBSET Codes]
             /\ at'[p] = 1 /\ batch'[p] = <<>>
  BY <1>1, <1>2 DEF GateTypeOK, EndJob, Become, Ended
<1>3. ASSUME CloseSession(p)
      PROVE  /\ dirty' \in [Procs -> SUBSET (Keys \X Columns)]
             /\ sent' \in [Procs -> SUBSET (Keys \X Columns)]
             /\ made' \in [Procs -> SUBSET Keys]
  BY <1>3 DEF GateTypeOK, CloseSession
<1> QED
  BY <1>1, <1>2, <1>3

LEMMA TypeStep ==
    ASSUME GateTypeOK, Transactions, NEW p \in Procs, StepOf(p)
    PROVE  GateTypeOK'
<1>0. onlypublic' \in BOOLEAN /\ table' \in [Keys -> Row \cup {None}] /\ loaded' \subseteq SUBSET Codes
  BY OthersTyped
<1> DEFINE Rest == /\ pc' \in [Procs -> Ended \cup Busy]
                   /\ job' \in [Procs -> GateJobs \cup {None}]
                   /\ batch' \in [Procs -> Seq(Upserts)]
                   /\ at' \in [Procs -> Nat]
                   /\ dirty' \in [Procs -> SUBSET (Keys \X Columns)]
                   /\ sent' \in [Procs -> SUBSET (Keys \X Columns)]
                   /\ made' \in [Procs -> SUBSET Keys]
                   /\ wl' \in [Procs -> SUBSET Codes]
                   /\ over' \in [Procs -> SUBSET Keys]
           Bound == at'[p] \in 1 .. Len(batch'[p]) + 1
<1> SUFFICES Rest /\ Bound
  <2>1. ASSUME Bound, NEW q \in Procs PROVE at'[q] \in 1 .. Len(batch'[q]) + 1
    <3>1. CASE q = p
      BY <2>1, <3>1
    <3>2. CASE q # p
      BY <3>2, OthersAlone DEF GateTypeOK
    <3> QED
      BY <3>1, <3>2
  <2> HIDE DEF Bound
  <2> QED
    BY <1>0, <2>1 DEF GateTypeOK
<1> USE DEF GateTypeOK, Become, txs, Busy, Ended
<1>1. batch[p] \in Seq(Upserts) /\ Len(batch[p]) \in Nat /\ at[p] \in 1 .. Len(batch[p]) + 1
      /\ <<>> \in Seq(Upserts) /\ Placed(p)
  BY DEF Transactions
<1>2. CASE \E j \in GateJobs : StartJob(p, j)
  BY <1>1, <1>2 DEF StartJob
<1>3. CASE BuildWhitelist(p)
  BY <1>1, <1>3 DEF BuildWhitelist, Eligible
<1>4. CASE LoadBatch(p)
  <2>1. PICK b : /\ b \in IF job[p] = "seed" THEN SeedBatches ELSE {Listed(f) : f \in SeedFiles}
                 /\ batch' = [batch EXCEPT ![p] = b]
    BY <1>4 DEF LoadBatch
  <2>2. b \in Seq(Upserts)
    BY <2>1, SeedIsSound, ListedIsSound
  <2>3. at'[p] = 1 /\ Bound
    BY <1>1, <1>4, <2>1, <2>2 DEF LoadBatch, Placed
  <2> QED
    BY <1>4, <2>1, <2>2, <2>3 DEF LoadBatch
<1>5. CASE UpsertFindsRow(p)
  <2>1. Changed(Current(p)) \subseteq Keys \X Columns /\ at[p] + 1 \in 1 .. Len(batch[p]) + 1
    BY <1>5, CurrentTyped DEF UpsertFindsRow, Changed
  <2> QED
    BY <1>1, <1>5, <2>1 DEF UpsertFindsRow
<1>6. CASE UpsertFindsNone(p) \/ BatchEnds(p)
  BY <1>1, <1>6 DEF UpsertFindsNone, BatchEnds
<1>7. CASE SendUpdate(p)
  BY <1>1, <1>7 DEF SendUpdate
<1>8. CASE InsertRow(p)
  <2>1. Current(p).key \in Keys /\ at[p] + 1 \in 1 .. Len(batch[p]) + 1
    BY <1>1, <1>8, CurrentTyped DEF InsertRow, ReadyToInsert, Placed
  <2> QED
    BY <1>1, <1>8, <2>1 DEF InsertRow
<1>9. CASE InsertRefused(p) \/ DeadlockAborts(p) \/ JobAborts(p) \/ SpidersEnd(p)
  <2>1. Bound
    BY <1>1, <1>9, FailedJob
  <2>2. CASE InsertRefused(p) \/ DeadlockAborts(p) \/ JobAborts(p)
    <3>1. /\ EndJob(p) /\ CloseSession(p) /\ over' = [over EXCEPT ![p] = {}]
          /\ pc \in [Procs -> Ended \cup Busy]
      BY <2>2 DEF InsertRefused, DeadlockAborts, JobAborts, FailJob
    <3>2. over' \in [Procs -> SUBSET Keys]
      BY <3>1
    <3> HIDE DEF GateTypeOK, Become, txs, Busy, Ended
    <3> QED
      BY <3>1, <3>2, EndsTyped
  <2>3. CASE SpidersEnd(p)
    BY <1>1, <2>1, <2>3 DEF SpidersEnd, EndJob
  <2> QED
    BY <1>9, <2>2, <2>3
<1>10. CASE CommitBatch(p)
  <2>1. WrittenBy(p) \subseteq Keys
    BY <1>10, CommitPublishes
  <2>2. over' \in [Procs -> SUBSET Keys]
    BY <1>10, <2>1 DEF CommitBatch, Publishes
  <2>3. CASE job[p] = "crawl"
    <3>1. CloseSession(p) /\ UNCHANGED <<job, batch, at, wl>> /\ pc' = [pc EXCEPT ![p] = "rebuild"]
      BY <1>10, <2>3 DEF CommitBatch, Publishes, Rebuild
    <3>2. /\ dirty' \in [Procs -> SUBSET (Keys \X Columns)]
          /\ sent' \in [Procs -> SUBSET (Keys \X Columns)]
          /\ made' \in [Procs -> SUBSET Keys]
      BY <3>1, EndsTyped
    <3> QED
      BY <1>1, <2>2, <3>1, <3>2
  <2>4. CASE job[p] # "crawl"
    <3>1. CloseSession(p) /\ EndJob(p)
      BY <1>10, <2>4 DEF CommitBatch, Publishes
    <3> HIDE DEF GateTypeOK, Become, txs, Busy, Ended
    <3> QED
      BY <2>2, <3>1, EndsTyped
  <2> QED
    BY <2>3, <2>4
<1> QED
  BY <1>2, <1>3, <1>4, <1>5, <1>6, <1>7, <1>8, <1>9, <1>10 DEF StepOf, GateStep

\* The rows of the institutions before and after a commit.
LEMMA CommitListed ==
    ASSUME GateTypeOK, Transactions, GratuitaListed, NEW p \in Procs, CommitBatch(p)
    PROVE  GratuitaListed'
<1>1. SUFFICES ASSUME NEW c \in Codes, table'[c] # None
               PROVE  table'[c].ativa /\ (table'[c].gratuita => WasListed(c))
  BY DEF GratuitaListed, WasListed
<1>2. c \in Keys /\ c \notin Others
  BY GateConstants DEF Keys
<1>3. table'[c] = IF c \in WrittenBy(p) THEN Stored(p, c) ELSE table[c]
  BY <1>2, CommitPublishes
<1>4. CASE c \notin WrittenBy(p)
  BY <1>1, <1>3, <1>4 DEF GratuitaListed
<1>5. CASE c \in WrittenBy(p)
  <2>1. PICK i \in DOMAIN batch[p] :
          /\ batch[p][i].key = c
          /\ Stored(p, c) =
               IF c \in made[p] THEN batch[p][i].row
               ELSE [d \in Columns |-> IF <<c, d>> \in sent[p] THEN batch[p][i].row[d]
                                       ELSE table[c][d]]
    BY <1>5, StoredRow
  <2>2. batch[p][i].row.ativa /\ (batch[p][i].row.gratuita => WasListed(c))
    BY <1>2, <2>1 DEF Transactions, Sound
  <2>3. batch[p][i].row \in Row
    <3>1. batch[p] \in Seq(Upserts)
      BY DEF GateTypeOK
    <3>2. batch[p][i] \in Upserts
      BY <3>1
    <3> QED
      BY <3>2 DEF Upserts
  <2>4. CASE c \in made[p]
    BY <1>3, <1>5, <2>1, <2>2, <2>4
  <2>5. CASE c \notin made[p]
    <3>1. table[c] # None /\ table[c] \in Row
      BY <1>2, <1>5, <2>5, StoredRow DEF GateTypeOK
    <3>2. table[c].ativa /\ (table[c].gratuita => WasListed(c))
      BY <3>1 DEF GratuitaListed
    <3> DEFINE old == table[c]
               new == batch[p][i].row
               row == table'[c]
    <3>3. row = [d \in Columns |-> IF <<c, d>> \in sent[p] THEN new[d] ELSE old[d]] /\ row \in Row
      <4>1. row = Stored(p, c)
        BY <1>3, <1>5
      <4>2. Stored(p, c) = [d \in Columns |-> IF <<c, d>> \in sent[p] THEN new[d] ELSE old[d]]
        BY <2>1, <2>5
      <4> HIDE DEF row, new, old
      <4> QED
        BY <1>5, <4>1, <4>2, StoredRow
    <3>4. /\ row["ativa"] \in {new["ativa"], old["ativa"]}
          /\ row["gratuita"] \in {new["gratuita"], old["gratuita"]}
      BY <3>3 DEF Columns
    <3>5. /\ row["ativa"] = row.ativa /\ row["gratuita"] = row.gratuita
          /\ new["ativa"] = new.ativa /\ new["gratuita"] = new.gratuita
          /\ old["ativa"] = old.ativa /\ old["gratuita"] = old.gratuita
      BY <2>3, <3>1, <3>3, RowColumns
    <3>6. /\ new.ativa \in BOOLEAN /\ old.ativa \in BOOLEAN
          /\ new.gratuita \in BOOLEAN /\ old.gratuita \in BOOLEAN
      BY <2>3, <3>1 DEF Row
    <3> HIDE DEF old, new, row
    <3>7. /\ row.ativa = new.ativa \/ row.ativa = old.ativa
          /\ row.gratuita = new.gratuita \/ row.gratuita = old.gratuita
      BY <3>4, <3>5
    <3>8. /\ new.ativa /\ (new.gratuita => WasListed(c))
          /\ old.ativa /\ (old.gratuita => WasListed(c))
      BY <2>2, <3>2 DEF new, old
    <3>9. row.ativa /\ (row.gratuita => WasListed(c))
      BY <3>7, <3>8
    <3> QED
      BY <3>9 DEF row
  <2> QED
    BY <2>4, <2>5
<1> QED
  BY <1>4, <1>5

LEMMA CommitWhole ==
    ASSUME GateTypeOK, Transactions, RefreshAllOrNothing, NEW p \in Procs, CommitBatch(p)
    PROVE  RefreshAllOrNothing'
<1> DEFINE There == {c \in Codes : table[c] # None}
           Then  == {c \in Codes : table'[c] # None}
           New   == {batch[p][i].key : i \in DOMAIN batch[p]}
<1>1. PICK S \in SUBSET loaded : There = UNION S
  BY DEF RefreshAllOrNothing
<1>2. loaded' = IF job[p] = "seed" THEN loaded ELSE loaded \cup {New}
  BY DEF CommitBatch, Publishes
<1>3. ASSUME NEW c \in Codes, table'[c] # None PROVE table[c] # None \/ c \in New
  <2>1. c \in Keys
    BY DEF Keys
  <2>2. CASE c \in WrittenBy(p)
    BY <2>2, StoredRow
  <2>3. CASE c \notin WrittenBy(p)
    BY <1>3, <2>1, <2>3, CommitPublishes
  <2> QED
    BY <2>2, <2>3
<1>4. ASSUME NEW c \in Codes, table[c] # None PROVE table'[c] # None
  BY <1>4, CommitPublishes DEF Keys
<1>5. \A c \in New : table'[c] # None
  BY CommitSticks
<1>6. CASE job[p] = "seed"
  <2>1. New \cap Codes = {}
    BY <1>6, GateConstants DEF Transactions, Sound
  <2>2. Then = There
    BY <1>3, <1>4, <2>1
  <2> QED
    BY <1>1, <1>2, <1>6, <2>2 DEF RefreshAllOrNothing
<1>7. CASE job[p] # "seed"
  <2>1. New \subseteq Codes
    BY <1>7 DEF Transactions, Sound
  <2> HIDE DEF New
  <2>2. Then = There \cup New
    BY <1>3, <1>4, <1>5, <2>1
  <2>3. Then = UNION (S \cup {New})
    BY <1>1, <2>2
  <2>4. S \cup {New} \in SUBSET loaded'
    BY <1>1, <1>2, <1>7
  <2> QED
    BY <2>3, <2>4 DEF RefreshAllOrNothing
<1> QED
  BY <1>6, <1>7

\* A crawl that goes on has nothing of its own left to send, and has passed all of its batch.
LEMMA CauseStep ==
    ASSUME GateTypeOK, Transactions, EmptyCrawlHasCause, NEW p \in Procs, StepOf(p)
    PROVE  EmptyCrawlHasCause'
<1>1. SUFFICES ASSUME NEW q \in Procs, job'[q] = "crawl", pc'[q] = "done", wl'[q] = {},
                      NEW i \in DOMAIN batch'[q]
               PROVE  batch'[q][i].key \in over'[q] \/ ~ batch'[q][i].row.gratuita
  BY DEF EmptyCrawlHasCause
<1>2. CASE q # p
  <2>1. UNCHANGED <<pc[q], job[q], batch[q], wl[q]>>
    BY <1>2, OthersAlone
  <2>2. over[q] \subseteq over'[q]
    BY <1>2, OnlyCommitsPublish, CommitPublishes
  <2> QED
    BY <1>1, <2>1, <2>2 DEF EmptyCrawlHasCause
<1>3. CASE q = p
  <2>1. BuildWhitelist(p)
    <3> USE DEF GateTypeOK, Become
    <3>1. ASSUME NEW j \in GateJobs, StartJob(p, j) PROVE pc'[p] # "done"
      BY <3>1 DEF StartJob
    <3>2. LoadBatch(p) \/ UpsertFindsNone(p) \/ BatchEnds(p) \/ InsertRow(p) => pc'[p] # "done"
      BY DEF LoadBatch, UpsertFindsNone, BatchEnds, InsertRow
    <3>3. UpsertFindsRow(p) \/ SendUpdate(p) => pc'[p] # "done"
      BY DEF UpsertFindsRow, SendUpdate, Flushing
    <3>4. InsertRefused(p) \/ DeadlockAborts(p) \/ JobAborts(p) \/ SpidersEnd(p) => pc'[p] # "done"
      BY FailedJob DEF Transactions
    <3>5. CommitBatch(p) => pc'[p] # "done"
      BY DEF CommitBatch, EndJob, Rebuild
    <3> QED
      BY <1>1, <1>3, <3>1, <3>2, <3>3, <3>4, <3>5 DEF StepOf, GateStep
  <2>2. /\ pc[p] \in {"whitelist", "rebuild"} /\ job' = job /\ batch' = batch /\ over' = over
        /\ wl'[p] = Eligible
        /\ pc'[p] = IF pc[p] = "whitelist" /\ job[p] = "crawl" /\ Eligible = {} THEN "load" ELSE "done"
    BY <2>1 DEF BuildWhitelist, Become, txs, GateTypeOK
  <2>3. pc[p] = "rebuild" /\ job[p] = "crawl" /\ Eligible = {} /\ i \in DOMAIN batch[p]
    BY <1>1, <1>3, <2>2
  <2> DEFINE u == batch[p][i]
  <2>4. u \in Upserts /\ i < at[p] /\ made[p] = {} /\ dirty[p] = {} /\ sent[p] = {}
    <3>1. batch[p] \in Seq(Upserts) /\ at[p] \in Nat
      BY DEF GateTypeOK
    <3> QED
      BY <2>3, <3>1 DEF Transactions, Placed
  <2>5. /\ table[u.key] # None /\ (u.key \in Kept \cup over[p] \/ Agrees(p, u))
        /\ u.key \in Codes /\ u.row.ativa
    BY <2>3, <2>4 DEF Transactions, Compared, Sound
  <2>6. u.key \notin Kept
    BY <2>5, GateConstants
  <2>7. ASSUME u.key \notin over[p], u.row.gratuita PROVE FALSE
    <3>1. table[u.key] \in Row /\ u.row \in Row
      BY <2>4, <2>5 DEF GateTypeOK, Upserts
    <3>2. table[u.key]["ativa"] = u.row["ativa"] /\ table[u.key]["gratuita"] = u.row["gratuita"]
      BY <2>4, <2>5, <2>6, <2>7 DEF Agrees, Columns
    <3>3. table[u.key].ativa /\ table[u.key].gratuita
      BY <2>5, <2>7, <3>1, <3>2, RowColumns
    <3> QED
      BY <2>3, <2>5, <3>3 DEF Eligible
  <2> QED
    BY <1>3, <2>2, <2>7
<1> QED
  BY <1>2, <1>3

LEMMA GInvInit == GateInit => GInv
<1> SUFFICES ASSUME GateInit PROVE GInv
  OBVIOUS
<1>1. <<>> \in Seq(Upserts) /\ Len(<<>>) = 0 /\ DOMAIN <<>> = {}
  OBVIOUS
<1>2. \A q \in Procs : /\ pc[q] = "idle" /\ job[q] = None /\ batch[q] = <<>> /\ at[q] = 1
                       /\ dirty[q] = {} /\ sent[q] = {} /\ made[q] = {}
  BY DEF GateInit
<1>3. \A k \in Keys : table[k] = None
  BY DEF GateInit
<1>4. GateTypeOK
  BY <1>1, <1>2 DEF GateInit, GateTypeOK, Ended
<1>5. Transactions
  BY <1>1, <1>2, NothingIsSound DEF Transactions, Placed, Touched, Compared
<1>6. GratuitaListed /\ EmptyCrawlHasCause
  BY <1>2, <1>3 DEF GratuitaListed, EmptyCrawlHasCause, Keys
<1>7. RefreshAllOrNothing
  <2>1. {c \in Codes : table[c] # None} = UNION {}
    BY <1>3 DEF Keys
  <2> QED
    BY <2>1 DEF RefreshAllOrNothing
<1> QED
  BY <1>4, <1>5, <1>6, <1>7 DEF GInv

LEMMA GInvStep == GInv /\ [GateNext]_gateVars => GInv'
<1> SUFFICES ASSUME GInv, [GateNext]_gateVars PROVE GInv'
  OBVIOUS
<1>1. CASE UNCHANGED gateVars
  <2> USE DEF gateVars
  <2>1. GateTypeOK'
    BY <1>1 DEF GInv, GateTypeOK
  <2>2. ASSUME NEW q \in Procs
        PROVE  Placed(q)' /\ Sound(batch[q], job[q] = "seed")' /\ Touched(q)' /\ Compared(q)'
    <3>1. Placed(q) /\ Sound(batch[q], job[q] = "seed") /\ Touched(q) /\ Compared(q)
      BY DEF GInv, Transactions
    <3>2. Placed(q)' /\ Sound(batch[q], job[q] = "seed")'
      BY <1>1, <3>1 DEF Placed, Sound, WasListed
    <3>3. Touched(q)' /\ Compared(q)'
      BY <1>1, <3>1 DEF Touched, Passed, Compared, Agrees
    <3> QED
      BY <3>2, <3>3
  <2>3. GratuitaListed' /\ RefreshAllOrNothing' /\ EmptyCrawlHasCause'
    BY <1>1 DEF GInv, GratuitaListed, WasListed, RefreshAllOrNothing, EmptyCrawlHasCause
  <2> QED
    BY <2>1, <2>2, <2>3 DEF GInv, Transactions
<1>2. ASSUME NEW p \in Procs, StepOf(p) PROVE GInv'
  <2>1. GateTypeOK' /\ Transactions'
    BY <1>2, TypeStep, TransactionsStep DEF GInv
  <2>2. EmptyCrawlHasCause'
    BY <1>2, CauseStep DEF GInv
  <2>3. CASE ~ CommitBatch(p)
    <3>1. GratuitaListed' /\ RefreshAllOrNothing'
      BY <1>2, <2>3, OnlyCommitsPublish
         DEF GInv, GratuitaListed, WasListed, RefreshAllOrNothing
    <3> QED
      BY <2>1, <2>2, <3>1 DEF GInv
  <2>4. CASE CommitBatch(p)
    BY <2>1, <2>2, <2>4, CommitListed, CommitWhole DEF GInv
  <2> QED
    BY <2>3, <2>4
<1> QED
  BY <1>1, <1>2, SomeStep

-----------------------------------------------------------------------------
(* Every state of every job has its type, and at stays in its batch.       *)
THEOREM GateTyped == GateSpec => []GateTypeOK
<1>1. GInv => GateTypeOK
  BY DEF GInv
<1> QED
  BY <1>1, GInvInit, GInvStep, PTL DEF GateSpec

(***************************************************************************)
(* Nobody sees half a refresh (jobs.py:42), however many jobs there are:   *)
(* a commit has passed all of its batch, and every row it has passed is in *)
(* the table when it is over.                                              *)
(***************************************************************************)
THEOREM RefreshesAllOrNothing == GateSpec => []RefreshAllOrNothing
<1>1. GInv => RefreshAllOrNothing
  BY DEF GInv
<1> QED
  BY <1>1, GInvInit, GInvStep, PTL DEF GateSpec

(***************************************************************************)
(* The gate never opens for an institution that no version of the file     *)
(* lists as active and public (client.py:49-53), whatever columns of       *)
(* different refreshes end up in one row.                                  *)
(***************************************************************************)
THEOREM EligiblesWereListed == GateSpec => []EligibleWasListed
<1>1. GInv => EligibleWasListed
  BY DEF GInv, GratuitaListed, EligibleWasListed, Eligible, WasListed
<1> QED
  BY <1>1, GInvInit, GInvStep, PTL DEF GateSpec

(***************************************************************************)
(* A crawl that goes on with an empty whitelist has just refreshed from a  *)
(* file without an eligible institution, or others have rewritten its rows *)
(* (jobs.py:60-65).                                                        *)
(***************************************************************************)
THEOREM EmptyCrawlsExplained == GateSpec => []EmptyCrawlHasCause
<1>1. GInv => EmptyCrawlHasCause
  BY DEF GInv
<1> QED
  BY <1>1, GInvInit, GInvStep, PTL DEF GateSpec

(***************************************************************************)
(* What a job commits is what it has read, column by column, unless others *)
(* have committed the row since it compared it (ies_repository.py:30-42).  *)
(***************************************************************************)
THEOREM RefreshesStick == GateSpec => RefreshSticks
<1>1. GInv => \A p \in Procs : CommitBatch(p) =>
                \A i \in DOMAIN batch[p] :
                    batch[p][i].key \notin Kept \cup over[p]
                        => table'[batch[p][i].key] = batch[p][i].row
  BY CommitSticks DEF GInv
<1> QED
  BY <1>1, GInvInit, GInvStep, PTL DEF GateSpec, RefreshSticks
=============================================================================
