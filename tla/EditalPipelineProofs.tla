------------------------ MODULE EditalPipelineProofs ------------------------
(***************************************************************************)
(* For any number of scrapers, editais and subscribers: the types, what an *)
(* open session may rely on, and the atomicity of persist and match.       *)
(***************************************************************************)
EXTENDS EditalPipeline, TLAPS

(***************************************************************************)
(* models/edital.py _to_signed64: every unsigned simhash becomes a value   *)
(* the BIGINT column holds, and _to_unsigned64 gives it back.              *)
(***************************************************************************)
LEMMA SignedRange ==
    ASSUME NEW v \in UInt
    PROVE  ToSigned(v) \in BigInt /\ ToUnsigned(ToSigned(v)) = v
  BY SimhashAssumption DEF UInt, BigInt, ToSigned, ToUnsigned

LEMMA ItemsTyped ==
    ASSUME NEW i \in Items
    PROVE  /\ i \in Item /\ i # None
           /\ i.hash \in Hashes /\ i.sim \in UInt /\ i.attr \in Attrs
  BY PipelineAssumption DEF Item

LEMMA ClassifyTyped ==
    ASSUME NEW row, NEW sim
    PROVE  Classify(row, sim) \in Changes
  BY DEF Classify, Changes

LEMMA FreshTyped ==
    ASSUME NEW item \in Item \cup {None}, NEW change \in Changes \cup {None}
    PROVE  Fresh(item, change) \in Session
  BY DEF Fresh, Session

LEMMA InitTypeOK == Init => TypeOK
  <1>1. NoTx \in Session
    BY FreshTyped DEF NoTx
  <1>2. ASSUME Init PROVE dlq \in BOOLEAN
    BY <1>2 DEF Init
  <1>3. ASSUME Init PROVE tx \in [Scrapers -> Session]
    BY <1>1, <1>3 DEF Init
  <1>4. ASSUME Init
        PROVE  /\ edital \in [Hashes -> Row \cup {None}]
               /\ matches \in [Hashes -> SUBSET Subs] /\ audience \in [Hashes -> SUBSET Subs]
               /\ active \in SUBSET Subs
               /\ pc \in [Scrapers -> Labels] /\ left \in [Scrapers -> 0 .. FeedLen]
               /\ err \in [Scrapers -> Errors \cup {None}]
    BY <1>4, PipelineAssumption DEF Init, Labels
  <1> QED
    BY <1>2, <1>3, <1>4, Zenon DEF TypeOK

\* Every failing step leads to a typed state.
LEMMA FailTyped ==
    ASSUME TypeOK, NEW p \in Scrapers, NEW reason \in Errors, Fail(p, reason)
    PROVE  TypeOK'
  <1>1. Fresh(None, tx[p].change) \in Session
    BY FreshTyped DEF TypeOK, Session
  <1>2. tx' \in [Scrapers -> Session]
    BY <1>1 DEF Fail, TypeOK
  <1>3. pc' \in [Scrapers -> Labels] /\ err' \in [Scrapers -> Errors \cup {None}]
    BY DEF Fail, Goto, TypeOK, Labels
  <1> QED
    BY <1>2, <1>3 DEF Fail, TypeOK, db

\* What COMMIT publishes is typed: the row inserted was converted to the signed
\* range, and a row updated did not overflow it.
LEMMA PublishTyped ==
    ASSUME TypeOK, SessionConsistent, NEW p \in Scrapers, ReadyToCommit(p), Publish(p)
    PROVE  /\ edital' \in [Hashes -> Row \cup {None}]
           /\ matches' \in [Hashes -> SUBSET Subs]
           /\ audience' \in [Hashes -> SUBSET Subs]
  <1> DEFINE h == HashOf(p)
  <1>1. InSession(p) /\ InTransaction(p)
    BY DEF ReadyToCommit, InSession, InTransaction
  <1>2. tx[p].item \in Items /\ h \in Hashes /\ tx[p].item.sim \in UInt /\ tx[p].item.attr \in Attrs
    BY <1>1, ItemsTyped DEF SessionConsistent, SessionKeeps, HashOf
  <1>3. matches' \in [Hashes -> SUBSET Subs] /\ audience' \in [Hashes -> SUBSET Subs]
    BY DEF Publish, TypeOK, Session
  <1>4. edital' \in [Hashes -> Row \cup {None}]
    <2>1. CASE tx[p].write = "insert"
      <3>1. tx[p].attr = tx[p].item.attr
        BY <1>1, <2>1 DEF SessionConsistent, SessionKeeps
      <3>2. [sim |-> InsertedSim(tx[p].item.sim), attr |-> tx[p].attr] \in Row
        BY <1>2, <3>1, SignedRange DEF Row, InsertedSim
      <3> QED
        BY <2>1, <3>2 DEF Publish, TypeOK
    <2>2. CASE tx[p].write \in {"dirty", "update"}
      <3>1. UpdatedSim(tx[p].item.sim) \in BigInt
        BY <1>1, <2>2 DEF ReadyToCommit, Overflows, SessionConsistent, SessionKeeps
      <3>2. edital[h] \in Row
        BY <1>1, <1>2, <2>2 DEF SessionConsistent, SessionKeeps, TypeOK
      <3>3. [edital[h] EXCEPT !.sim = UpdatedSim(tx[p].item.sim)] \in Row
        BY <3>1, <3>2 DEF Row
      <3>4. edital' = [edital EXCEPT ![h].sim = UpdatedSim(tx[p].item.sim)]
        BY <2>2 DEF Publish
      <3> QED
        BY <3>3, <3>4, <1>2 DEF TypeOK
    <2>3. CASE tx[p].write = "none"
      BY <2>3 DEF Publish, TypeOK
    <2> QED
      BY <2>1, <2>2, <2>3 DEF TypeOK, Session
  <1> QED
    BY <1>3, <1>4

LEMMA TypeStep ==
    ASSUME TypeOK, SessionConsistent, [Next]_vars
    PROVE  TypeOK'
  <1> USE DEF TypeOK, Goto, db
  <1>0. /\ FeedLen \in Nat
        /\ {"fetch", "parser", "range", "integrity", "database"} = Errors
        /\ NoTx \in Session
    BY FreshTyped, PipelineAssumption DEF Errors, NoTx
  <1>1. ASSUME NEW p \in Scrapers, FetchSucceeds(p) PROVE TypeOK'
    BY <1>0, <1>1 DEF FetchSucceeds, Labels
  <1>2. ASSUME NEW p \in Scrapers, FetchFails(p) PROVE TypeOK'
    BY <1>0, <1>2, FailTyped DEF FetchFails
  <1>3. ASSUME NEW p \in Scrapers, NEW i \in Items, NextItem(p, i) PROVE TypeOK'
    <2>1. Fresh(i, None) \in Session
      BY ItemsTyped, FreshTyped
    <2> QED
      BY <1>0, <1>3, <2>1 DEF NextItem, Labels
  <1>4. ASSUME NEW p \in Scrapers, ParserRaises(p) PROVE TypeOK'
    BY <1>0, <1>4, FailTyped DEF ParserRaises
  <1>5. ASSUME NEW p \in Scrapers, FeedEnds(p) PROVE TypeOK'
    BY <1>0, <1>5 DEF FeedEnds, Labels
  <1>6. ASSUME NEW p \in Scrapers, DeadLetter(p) PROVE TypeOK'
    BY <1>0, <1>6 DEF DeadLetter, Labels
  <1>7. ASSUME NEW p \in Scrapers, SelectExisting(p) PROVE TypeOK'
    <2>1. [tx[p] EXCEPT !.change = Classify(edital[HashOf(p)], tx[p].item.sim)] \in Session
      BY ClassifyTyped DEF Session
    <2> QED
      BY <1>7, <2>1 DEF SelectExisting, Labels
  <1>8. ASSUME NEW p \in Scrapers, UpsertFinds(p) PROVE TypeOK'
    <2>1. edital[HashOf(p)].attr \in Attrs
      BY <1>8, ItemsTyped DEF UpsertFinds, SessionConsistent, SessionKeeps, InTransaction, HashOf, Row
    <2>2. PICK write \in {"dirty", "none"} :
            tx' = [tx EXCEPT ![p].write = write, ![p].attr = edital[HashOf(p)].attr]
      BY <1>8 DEF UpsertFinds
    <2>3. tx' \in [Scrapers -> Session]
      <3>1. tx[p] \in Session
        OBVIOUS
      <3>2. [tx[p] EXCEPT !.write = write, !.attr = edital[HashOf(p)].attr] \in Session
        BY <2>1, <3>1 DEF Session
      <3> QED
        BY <2>2, <3>2
    <2>4. pc' \in [Scrapers -> Labels]
      BY <1>8 DEF UpsertFinds, AfterUpsert, Labels
    <2> QED
      BY <1>8, <2>3, <2>4 DEF UpsertFinds
  <1>9. ASSUME NEW p \in Scrapers, UpsertMisses(p) PROVE TypeOK'
    BY <1>9 DEF UpsertMisses, Labels
  <1>10. ASSUME NEW p \in Scrapers, InsertEdital(p) PROVE TypeOK'
    <2>1. tx[p].item.attr \in Attrs
      BY <1>10, ItemsTyped DEF InsertEdital, SessionConsistent, SessionKeeps, InTransaction
    <2>2. tx' \in [Scrapers -> Session]
      <3>1. [tx[p] EXCEPT !.write = "insert", !.attr = tx[p].item.attr] \in Session
        BY <2>1 DEF Session
      <3> QED
        BY <1>10, <3>1 DEF InsertEdital
    <2>3. pc' \in [Scrapers -> Labels]
      BY <1>10 DEF InsertEdital, AfterUpsert, Labels
    <2> QED
      BY <1>10, <2>2, <2>3 DEF InsertEdital
  <1>11. ASSUME NEW p \in Scrapers, InsertFails(p) PROVE TypeOK'
    BY <1>0, <1>11, FailTyped DEF InsertFails
  <1>12. ASSUME NEW p \in Scrapers, ListAtivos(p) PROVE TypeOK'
    <2>1. active \cap Accepted[tx[p].attr] \in SUBSET Subs
      OBVIOUS
    <2>2. tx' \in [Scrapers -> Session]
      <3>1. [tx[p] EXCEPT !.seen = active, !.todo = active \cap Accepted[tx[p].attr]]
              \in Session
        BY <2>1 DEF Session
      <3> QED
        BY <1>12, <3>1 DEF ListAtivos
    <2> QED
      BY <1>12, <2>2 DEF ListAtivos, Labels
  <1>13. ASSUME NEW p \in Scrapers, NEW s \in Subs, AddMatch(p, s) PROVE TypeOK'
    <2>1. tx' \in [Scrapers -> Session]
      BY <1>13 DEF AddMatch, Flushed, Session
    <2> QED
      BY <1>13, <2>1 DEF AddMatch
  <1>14. ASSUME NEW p \in Scrapers, NEW s \in Subs, AddMatchFails(p, s) PROVE TypeOK'
    BY <1>0, <1>14, FailTyped DEF AddMatchFails
  <1>15. ASSUME NEW p \in Scrapers, Commit(p) PROVE TypeOK'
    BY <1>0, <1>15, PublishTyped DEF Commit, Labels
  <1>16. ASSUME NEW p \in Scrapers, CommitFails(p) PROVE TypeOK'
    BY <1>0, <1>16, FailTyped DEF CommitFails
  <1>17. ASSUME NEW p \in Scrapers, DatabaseRaises(p) \/ DeadlockVictim(p) PROVE TypeOK'
    BY <1>0, <1>17, FailTyped DEF DatabaseRaises, DeadlockVictim
  <1>18. ASSUME NEW p \in Scrapers, CommitUnacknowledged(p) PROVE TypeOK'
    <2>1. Fresh(None, tx[p].change) \in Session
      BY FreshTyped DEF Session
    <2> QED
      BY <1>0, <1>18, <2>1, PublishTyped DEF CommitUnacknowledged, Labels
  <1>19. ASSUME NEW p \in Scrapers, Crash(p) PROVE TypeOK'
    BY <1>0, <1>19 DEF Crash, Labels
  <1>20. ASSUME NEW s \in Subs, SeedSubscriber(s) PROVE TypeOK'
    BY <1>20 DEF SeedSubscriber
  <1>21. CASE UNCHANGED vars
    BY <1>21 DEF vars
  <1> QED
    BY <1>1, <1>2, <1>3, <1>4, <1>5, <1>6, <1>7, <1>8, <1>9, <1>10, <1>11, <1>12, <1>13,
       <1>14, <1>15, <1>16, <1>17, <1>18, <1>19, <1>20, <1>21
    DEF Next, Progress, Disturbance

-----------------------------------------------------------------------------
(* What an open session relies on survives every step.                     *)

\* A session is not disturbed by a step of another scraper that keeps its row
\* and takes no insert of its hash.
LEMMA OtherSession ==
    ASSUME NEW q \in Scrapers, SessionKeeps(q), pc'[q] = pc[q], tx'[q] = tx[q],
           InSession(q) =>
             /\ edital[HashOf(q)] = None => edital'[HashOf(q)] = None
             /\ edital[HashOf(q)] # None =>
                  edital'[HashOf(q)] # None /\ edital'[HashOf(q)].attr = edital[HashOf(q)].attr
             /\ tx[q].write = "insert" /\ InsertFree(q) => InsertFree(q)'
    PROVE  SessionKeeps(q)'
  BY DEF SessionKeeps, InSession, InTransaction, HashOf

\* The hash q inserts stays its own if p is the only other session that changed
\* and it did not insert.
LEMMA InsertStaysFree ==
    ASSUME TypeOK, NEW p \in Scrapers, NEW q \in Scrapers \ {p}, InsertFree(q),
           \A x \in Scrapers \ {p} : tx'[x] = tx[x],
           tx'[p].write = "insert" =>
              (tx[p].write = "insert" /\ tx'[p].item = tx[p].item)
    PROVE  InsertFree(q)'
  BY DEF InsertFree, HashOf

\* A step of p that leaves the tables alone and inserts nothing new.
LEMMA LocalStep ==
    ASSUME TypeOK, SessionConsistent, NEW p \in Scrapers, UNCHANGED db,
           \A x \in Scrapers \ {p} : tx'[x] = tx[x] /\ pc'[x] = pc[x],
           tx'[p].write = "insert" =>
              (tx[p].write = "insert" /\ tx'[p].item = tx[p].item),
           SessionKeeps(p)'
    PROVE  SessionConsistent'
  <1> SUFFICES ASSUME NEW q \in Scrapers \ {p} PROVE SessionKeeps(q)'
    BY DEF SessionConsistent
  <1>1. InsertFree(q) => InsertFree(q)'
    BY InsertStaysFree
  <1> QED
    BY <1>1, OtherSession DEF SessionConsistent, db

LEMMA FailKeeps ==
    ASSUME TypeOK, SessionConsistent, NEW p \in Scrapers, NEW reason, Fail(p, reason)
    PROVE  SessionConsistent'
  <1>1. tx'[p] = Fresh(None, tx[p].change) /\ pc'[p] = "failed"
    BY DEF Fail, Goto, TypeOK
  <1>2. SessionKeeps(p)'
    BY <1>1 DEF SessionKeeps, InSession, InTransaction, Fresh
  <1>3. \A x \in Scrapers \ {p} : tx'[x] = tx[x] /\ pc'[x] = pc[x]
    BY DEF Fail, Goto, TypeOK
  <1> QED
    BY <1>1, <1>2, <1>3, LocalStep DEF Fail, Fresh

\* COMMIT leaves the rows of the other sessions in place.
LEMMA PublishKeeps ==
    ASSUME TypeOK, SessionConsistent, NEW p \in Scrapers, ReadyToCommit(p), Publish(p),
           NEW q \in Scrapers \ {p}, tx'[q] = tx[q], pc'[q] = pc[q],
           \A x \in Scrapers \ {p} : tx'[x] = tx[x], tx'[p].write = "none"
    PROVE  SessionKeeps(q)'
  <1> DEFINE h == HashOf(p)
             g == HashOf(q)
  <1>1. InSession(p) /\ InTransaction(p)
    BY DEF ReadyToCommit, InSession, InTransaction
  <1>2. h \in Hashes
    BY <1>1, ItemsTyped DEF SessionConsistent, SessionKeeps, HashOf
  <1>3. ASSUME InSession(q)
        PROVE  /\ edital[g] = None => edital'[g] = None
               /\ edital[g] # None => edital'[g] # None /\ edital'[g].attr = edital[g].attr
    <2>1. g \in Hashes
      BY <1>3, ItemsTyped DEF SessionConsistent, SessionKeeps, HashOf, InSession, InTransaction
    <2>2. CASE tx[p].write = "insert"
      <3>1. edital[h] = None /\ InsertFree(p)
        BY <1>1, <2>2 DEF SessionConsistent, SessionKeeps
      <3>2. g # h
        BY <1>3, <2>2, <3>1 DEF SessionConsistent, SessionKeeps, InsertFree
      <3> QED
        BY <2>1, <2>2, <3>2 DEF Publish, TypeOK
    <2>3. CASE tx[p].write \in {"dirty", "update"}
      <3>1. edital[h] # None /\ edital[h] \in Row
        BY <1>1, <1>2, <2>3 DEF SessionConsistent, SessionKeeps, TypeOK
      <3>2. edital' = [edital EXCEPT ![h].sim = UpdatedSim(tx[p].item.sim)]
        BY <2>3 DEF Publish
      <3>3. edital' \in [Hashes -> Row \cup {None}]
        BY PublishTyped
      <3>4. edital'[h] = [edital[h] EXCEPT !.sim = UpdatedSim(tx[p].item.sim)]
        BY <1>2, <3>2 DEF TypeOK
      <3>5. edital'[h].attr = edital[h].attr /\ edital'[h] \in Row
        <4>1. UpdatedSim(tx[p].item.sim) \in BigInt
          BY <1>1, <2>3 DEF ReadyToCommit, Overflows, SessionConsistent, SessionKeeps
        <4> QED
          BY <3>1, <3>4, <4>1 DEF Row
      <3>6. edital'[h] # None
        BY <3>5, PipelineAssumption
      <3> QED
        BY <2>1, <3>1, <3>2, <3>5, <3>6 DEF TypeOK
    <2>4. CASE tx[p].write = "none"
      BY <2>4 DEF Publish
    <2> QED
      BY <2>2, <2>3, <2>4 DEF TypeOK, Session
  <1>4. InsertFree(q) => InsertFree(q)'
    BY InsertStaysFree
  <1> QED
    BY <1>3, <1>4, OtherSession DEF SessionConsistent

LEMMA SessionStep ==
    ASSUME TypeOK, SessionConsistent, [Next]_vars
    PROVE  SessionConsistent'
  <1> USE DEF TypeOK, Goto, db
  <1>f. ASSUME NEW p \in Scrapers, NEW reason, Fail(p, reason) PROVE SessionConsistent'
    BY <1>f, FailKeeps
  <1>r. \A p \in Scrapers : SessionKeeps(p)
    BY DEF SessionConsistent
  <1>1. ASSUME NEW p \in Scrapers, FetchSucceeds(p) PROVE SessionConsistent'
    <2>1. SessionKeeps(p)'
      BY <1>r, <1>1 DEF FetchSucceeds, SessionKeeps, InSession, InTransaction
    <2> QED
      BY <1>1, <2>1, LocalStep DEF FetchSucceeds
  <1>2. ASSUME NEW p \in Scrapers, FetchFails(p) \/ ParserRaises(p) PROVE SessionConsistent'
    BY <1>2, <1>f DEF FetchFails, ParserRaises
  <1>3. ASSUME NEW p \in Scrapers, NEW i \in Items, NextItem(p, i) PROVE SessionConsistent'
    <2>1. tx'[p] = Fresh(i, None) /\ pc'[p] = "select"
      BY <1>3 DEF NextItem
    <2>2. SessionKeeps(p)'
      BY <2>1 DEF SessionKeeps, InSession, InTransaction, Fresh
    <2> QED
      BY <1>3, <2>1, <2>2, LocalStep DEF NextItem, Fresh
  <1>4. ASSUME NEW p \in Scrapers, FeedEnds(p) PROVE SessionConsistent'
    <2>1. SessionKeeps(p)'
      BY <1>r, <1>4 DEF FeedEnds, SessionKeeps, InSession, InTransaction
    <2> QED
      BY <1>4, <2>1, LocalStep DEF FeedEnds
  <1>5. ASSUME NEW p \in Scrapers, DeadLetter(p) \/ Crash(p) PROVE SessionConsistent'
    <2>1. tx'[p] = Fresh(None, None) /\ pc'[p] = "idle"
      BY <1>5 DEF DeadLetter, Crash, NoTx
    <2>2. SessionKeeps(p)'
      BY <2>1 DEF SessionKeeps, InSession, InTransaction, Fresh
    <2> QED
      BY <1>5, <2>1, <2>2, LocalStep DEF DeadLetter, Crash, Fresh
  <1>6. ASSUME NEW p \in Scrapers, SelectExisting(p) PROVE SessionConsistent'
    <2>1. /\ pc[p] = "select" /\ pc'[p] = "upsert"
          /\ tx'[p] = [tx[p] EXCEPT !.change = Classify(edital[HashOf(p)], tx[p].item.sim)]
      BY <1>6 DEF SelectExisting
    <2>2. SessionKeeps(p)'
      BY <1>r, <2>1 DEF SessionKeeps, InSession, InTransaction, Session
    <2> QED
      BY <1>6, <2>1, <2>2, LocalStep DEF SelectExisting, Session
  <1>7. ASSUME NEW p \in Scrapers, UpsertFinds(p) PROVE SessionConsistent'
    <2>1. PICK write \in {"dirty", "none"} :
            tx' = [tx EXCEPT ![p].write = write, ![p].attr = edital[HashOf(p)].attr]
      BY <1>7 DEF UpsertFinds
    <2>2. /\ tx'[p].item = tx[p].item /\ tx'[p].write = write
          /\ tx'[p].attr = edital[HashOf(p)].attr
          /\ tx'[p].seen = tx[p].seen /\ tx'[p].todo = tx[p].todo /\ tx'[p].added = tx[p].added
      BY <2>1 DEF Session
    <2>3. pc[p] = "upsert" /\ pc'[p] \in {"match", "profiles"} /\ edital[HashOf(p)] # None
      BY <1>7 DEF UpsertFinds, AfterUpsert
    <2>4. SessionKeeps(p)'
      BY <1>7, <1>r, <2>2, <2>3
      DEF UpsertFinds, SessionKeeps, InSession, InTransaction, HashOf
    <2>5. \A x \in Scrapers \ {p} : tx'[x] = tx[x] /\ pc'[x] = pc[x]
      BY <1>7, <2>1 DEF UpsertFinds, AfterUpsert
    <2> QED
      BY <1>7, <2>2, <2>4, <2>5, LocalStep DEF UpsertFinds
  <1>8. ASSUME NEW p \in Scrapers, UpsertMisses(p) PROVE SessionConsistent'
    <2>1. SessionKeeps(p)'
      BY <1>r, <1>8 DEF UpsertMisses, SessionKeeps, InSession, InTransaction
    <2> QED
      BY <1>8, <2>1, LocalStep DEF UpsertMisses
  <1>9. ASSUME NEW p \in Scrapers, InsertEdital(p) PROVE SessionConsistent'
    <2>1. tx' = [tx EXCEPT ![p].write = "insert", ![p].attr = tx[p].item.attr]
      BY <1>9 DEF InsertEdital
    <2>2. /\ tx'[p].item = tx[p].item /\ tx'[p].write = "insert"
          /\ tx'[p].attr = tx[p].item.attr
          /\ tx'[p].seen = tx[p].seen /\ tx'[p].todo = tx[p].todo /\ tx'[p].added = tx[p].added
      BY <2>1 DEF Session
    <2>3. /\ pc[p] = "insert" /\ pc'[p] \in {"match", "profiles"}
          /\ edital[HashOf(p)] = None /\ InsertFree(p) /\ UNCHANGED db
      BY <1>9 DEF InsertEdital, AfterUpsert
    <2>4. \A x \in Scrapers \ {p} : tx'[x] = tx[x] /\ pc'[x] = pc[x]
      BY <1>9, <2>1 DEF InsertEdital, AfterUpsert
    <2>5. InsertFree(p)'
      BY <2>2, <2>3, <2>4 DEF InsertFree, HashOf
    <2>6. SessionKeeps(p)'
      BY <1>r, <2>2, <2>3, <2>5 DEF SessionKeeps, InSession, InTransaction, HashOf
    <2>7. ASSUME NEW q \in Scrapers \ {p} PROVE SessionKeeps(q)'
      <3>1. tx[q].write = "insert" /\ InsertFree(q) => InsertFree(q)'
        BY <2>2, <2>3, <2>4 DEF InsertFree, HashOf
      <3> QED
        BY <1>r, <2>3, <2>4, <3>1, OtherSession
    <2> QED
      BY <2>6, <2>7 DEF SessionConsistent
  <1>10. ASSUME NEW p \in Scrapers, InsertFails(p) PROVE SessionConsistent'
    BY <1>10, <1>f DEF InsertFails
  <1>11. ASSUME NEW p \in Scrapers, ListAtivos(p) PROVE SessionConsistent'
    <2>1. tx' = [tx EXCEPT ![p].seen = active, ![p].todo = active \cap Accepted[tx[p].attr]]
      BY <1>11 DEF ListAtivos
    <2>2. /\ tx'[p].item = tx[p].item /\ tx'[p].write = tx[p].write
          /\ tx'[p].attr = tx[p].attr /\ tx'[p].added = tx[p].added
          /\ tx'[p].seen = active /\ tx'[p].todo = active \cap Accepted[tx[p].attr]
      BY <2>1 DEF Session
    <2>3. pc[p] = "profiles" /\ pc'[p] = "match" /\ UNCHANGED db
      BY <1>11 DEF ListAtivos
    <2>4. \A x \in Scrapers \ {p} : tx'[x] = tx[x] /\ pc'[x] = pc[x]
      BY <1>11, <2>1 DEF ListAtivos
    <2>5. InsertFree(p) => InsertFree(p)'
      BY <2>2, <2>4 DEF InsertFree, HashOf
    <2>6. SessionKeeps(p)'
      BY <1>r, <2>2, <2>3, <2>5 DEF SessionKeeps, InSession, InTransaction, HashOf
    <2> QED
      BY <2>2, <2>3, <2>4, <2>6, LocalStep
  <1>12. ASSUME NEW p \in Scrapers, NEW s \in Subs, AddMatch(p, s) PROVE SessionConsistent'
    <2>1. tx' = [tx EXCEPT ![p].write = Flushed(p), ![p].todo = @ \ {s},
                           ![p].added = @ \cup {s}]
      BY <1>12 DEF AddMatch
    <2>2. /\ tx'[p].item = tx[p].item /\ tx'[p].attr = tx[p].attr /\ tx'[p].seen = tx[p].seen
          /\ tx'[p].write = Flushed(p)
          /\ tx'[p].todo = tx[p].todo \ {s} /\ tx'[p].added = tx[p].added \cup {s}
      BY <2>1 DEF Session
    <2>3. pc[p] = "match" /\ s \in tx[p].todo /\ ~ Overflows(p) /\ UNCHANGED <<db, pc>>
      BY <1>12 DEF AddMatch
    <2>4. \A x \in Scrapers \ {p} : tx'[x] = tx[x] /\ pc'[x] = pc[x]
      BY <2>1, <2>3
    <2>5. InsertFree(p) => InsertFree(p)'
      BY <2>2, <2>4 DEF InsertFree, HashOf
    <2>6. SessionKeeps(p)'
      <3>1. tx'[p].added \cup tx'[p].todo = tx[p].added \cup tx[p].todo
        BY <2>2, <2>3
      <3> QED
        BY <1>r, <2>2, <2>3, <2>5, <3>1
        DEF SessionKeeps, InSession, InTransaction, HashOf, Flushed, Overflows
    <2> QED
      BY <2>2, <2>3, <2>4, <2>6, LocalStep DEF Flushed
  <1>13. ASSUME NEW p \in Scrapers, NEW s \in Subs, AddMatchFails(p, s) PROVE SessionConsistent'
    BY <1>13, <1>f DEF AddMatchFails
  <1>14. ASSUME NEW p \in Scrapers, Commit(p) \/ CommitUnacknowledged(p)
         PROVE  SessionConsistent'
    <2>1. \/ tx'[p] = Fresh(None, None) /\ pc'[p] = "feed"
          \/ tx'[p] = Fresh(None, tx[p].change) /\ pc'[p] = "failed"
      BY <1>14 DEF Commit, CommitUnacknowledged, NoTx
    <2>2. SessionKeeps(p)'
      BY <2>1 DEF SessionKeeps, InSession, InTransaction, Fresh
    <2>3. \A x \in Scrapers \ {p} : tx'[x] = tx[x] /\ pc'[x] = pc[x]
      BY <1>14 DEF Commit, CommitUnacknowledged
    <2>4. \A q \in Scrapers \ {p} : SessionKeeps(q)'
      BY <1>14, <2>1, <2>3, PublishKeeps DEF Commit, CommitUnacknowledged, Fresh
    <2> QED
      BY <2>2, <2>4 DEF SessionConsistent
  <1>15. ASSUME NEW p \in Scrapers, CommitFails(p) \/ DatabaseRaises(p) \/ DeadlockVictim(p)
         PROVE  SessionConsistent'
    BY <1>15, <1>f DEF CommitFails, DatabaseRaises, DeadlockVictim
  <1>16. ASSUME NEW s \in Subs, SeedSubscriber(s) PROVE SessionConsistent'
    BY <1>16 DEF SeedSubscriber, SessionConsistent, SessionKeeps, InSession, InTransaction,
                 HashOf, InsertFree
  <1>17. CASE UNCHANGED vars
    BY <1>17 DEF vars, SessionConsistent, SessionKeeps, InSession, InTransaction,
                 HashOf, InsertFree
  <1> QED
    BY <1>1, <1>2, <1>3, <1>4, <1>5, <1>6, <1>7, <1>8, <1>9, <1>10, <1>11, <1>12, <1>13,
       <1>14, <1>15, <1>16, <1>17 DEF Next, Progress, Disturbance

-----------------------------------------------------------------------------
(* What the commits publish.                                               *)

\* Only a commit changes the tables.
LEMMA OnlyCommitsPublish ==
    ASSUME [Next]_vars
    PROVE  \/ UNCHANGED db
           \/ \E p \in Scrapers : ReadyToCommit(p) /\ Publish(p)
  <1>1. ASSUME NEW p \in Scrapers, Progress(p)
        PROVE  UNCHANGED db \/ (ReadyToCommit(p) /\ Publish(p))
    <2>1. ASSUME NEW s \in Subs, AddMatch(p, s) \/ AddMatchFails(p, s) PROVE UNCHANGED db
      BY <2>1 DEF AddMatch, AddMatchFails, Fail
    <2>2. ASSUME NEW i \in Items, NextItem(p, i) PROVE UNCHANGED db
      BY <2>2 DEF NextItem
    <2>3. CASE FeedEnds(p) \/ DeadLetter(p) \/ SelectExisting(p) \/ ListAtivos(p)
      BY <2>3 DEF FeedEnds, DeadLetter, SelectExisting, ListAtivos
    <2>4. CASE UpsertFinds(p) \/ UpsertMisses(p) \/ InsertEdital(p)
      BY <2>4 DEF UpsertFinds, UpsertMisses, InsertEdital
    <2>5. CASE InsertFails(p) \/ CommitFails(p) \/ DeadlockVictim(p)
      BY <2>5 DEF InsertFails, CommitFails, DeadlockVictim, Fail
    <2>6. CASE Commit(p)
      BY <2>6 DEF Commit
    <2> QED
      BY <1>1, <2>1, <2>2, <2>3, <2>4, <2>5, <2>6 DEF Progress
  <1>2. ASSUME NEW p \in Scrapers, FetchSucceeds(p) \/ FetchFails(p) \/ Disturbance(p)
        PROVE  UNCHANGED db \/ (ReadyToCommit(p) /\ Publish(p))
    BY <1>2 DEF FetchSucceeds, FetchFails, Disturbance, ParserRaises, DatabaseRaises,
                CommitUnacknowledged, Crash, Fail
  <1>3. ASSUME NEW s \in Subs, SeedSubscriber(s) PROVE UNCHANGED db
    BY <1>3 DEF SeedSubscriber
  <1>4. CASE UNCHANGED vars
    BY <1>4 DEF vars, db
  <1> QED
    BY <1>1, <1>2, <1>3, <1>4 DEF Next

\* A commit is one step of the catalog: it stores a new edital with all its
\* matches, or revises a stored one.
LEMMA PublishEffect ==
    ASSUME TypeOK, SessionConsistent, NEW p \in Scrapers, ReadyToCommit(p), Publish(p)
    PROVE  LET h == HashOf(p) IN
           /\ h \in Hashes
           /\ \/ /\ edital[h] = None
                 /\ \E sim \in BigInt, attr \in Attrs :
                      /\ edital' = [edital EXCEPT ![h] = [sim |-> sim, attr |-> attr]]
                      /\ matches' = [matches EXCEPT
                                       ![h] = @ \cup (tx[p].seen \cap Accepted[attr])]
                 /\ audience' = [audience EXCEPT ![h] = tx[p].seen]
              \/ /\ edital[h] # None
                 /\ \/ edital' = edital
                    \/ \E sim \in BigInt : edital' = [edital EXCEPT ![h].sim = sim]
                 /\ tx[p].added \subseteq Accepted[edital[h].attr]
                 /\ matches' = [matches EXCEPT ![h] = @ \cup tx[p].added]
                 /\ audience' = audience
  <1> DEFINE h == HashOf(p)
  <1>1. InSession(p) /\ InTransaction(p) /\ tx[p].todo = {}
    BY DEF ReadyToCommit, InSession, InTransaction
  <1>2. /\ h \in Hashes /\ tx[p].item.sim \in UInt /\ tx[p].item.attr \in Attrs
        /\ tx[p].added = tx[p].seen \cap Accepted[tx[p].attr]
    BY <1>1, ItemsTyped DEF SessionConsistent, SessionKeeps, HashOf
  <1>3. CASE tx[p].write = "insert"
    <2>1. edital[h] = None /\ tx[p].attr \in Attrs /\ InsertedSim(tx[p].item.sim) \in BigInt
      BY <1>1, <1>2, <1>3, SignedRange DEF SessionConsistent, SessionKeeps, InsertedSim
    <2> QED
      BY <1>2, <1>3, <2>1 DEF Publish
  <1>4. CASE tx[p].write \in {"dirty", "update"}
    <2>1. edital[h] # None /\ tx[p].attr = edital[h].attr
          /\ UpdatedSim(tx[p].item.sim) \in BigInt
      BY <1>1, <1>4 DEF SessionConsistent, SessionKeeps, ReadyToCommit, Overflows
    <2> QED
      BY <1>2, <1>4, <2>1 DEF Publish
  <1>5. CASE tx[p].write = "none"
    <2>1. edital[h] # None /\ tx[p].attr = edital[h].attr
      BY <1>1, <1>5 DEF SessionConsistent, SessionKeeps
    <2> QED
      BY <1>2, <1>5, <2>1 DEF Publish
  <1> QED
    BY <1>3, <1>4, <1>5 DEF TypeOK, Session

LEMMA RowNotNone ==
    ASSUME NEW sim \in BigInt, NEW attr \in Attrs
    PROVE  [sim |-> sim, attr |-> attr] # None
  BY PipelineAssumption DEF Row

LEMMA MatchStep ==
    ASSUME TypeOK, SessionConsistent, MatchSetExact, [Next]_vars
    PROVE  MatchSetExact'
  <1>1. CASE UNCHANGED db
    BY <1>1 DEF MatchSetExact, db
  <1>2. ASSUME NEW p \in Scrapers, ReadyToCommit(p), Publish(p) PROVE MatchSetExact'
    <2> DEFINE h == HashOf(p)
    <2>1. h \in Hashes
      BY <1>2, PublishEffect
    <2>2. ASSUME edital[h] = None,
                 NEW sim \in BigInt, NEW attr \in Attrs,
                 edital' = [edital EXCEPT ![h] = [sim |-> sim, attr |-> attr]],
                 matches' = [matches EXCEPT ![h] = @ \cup (tx[p].seen \cap Accepted[attr])],
                 audience' = [audience EXCEPT ![h] = tx[p].seen]
          PROVE  MatchSetExact'
      <3>1. matches[h] = {}
        BY <2>1, <2>2 DEF MatchSetExact
      <3>2. /\ edital'[h] = [sim |-> sim, attr |-> attr]
            /\ matches'[h] = tx[p].seen \cap Accepted[attr]
            /\ audience'[h] = tx[p].seen
        BY <2>1, <2>2, <3>1 DEF TypeOK
      <3>3. \A g \in Hashes \ {h} : edital'[g] = edital[g] /\ matches'[g] = matches[g]
                                    /\ audience'[g] = audience[g]
        BY <2>2 DEF TypeOK
      <3> QED
        BY <2>1, <3>2, <3>3, RowNotNone DEF MatchSetExact
    <2>3. ASSUME edital[h] # None,
                 edital' = edital \/ \E sim \in BigInt : edital' = [edital EXCEPT ![h].sim = sim],
                 tx[p].added \subseteq Accepted[edital[h].attr],
                 matches' = [matches EXCEPT ![h] = @ \cup tx[p].added],
                 audience' = audience
          PROVE  MatchSetExact'
      <3>1. edital[h] \in Row
        BY <2>1, <2>3 DEF TypeOK
      <3>2. edital'[h] # None /\ edital'[h].attr = edital[h].attr
        <4>1. ASSUME NEW sim \in BigInt, edital' = [edital EXCEPT ![h].sim = sim]
              PROVE  edital'[h] # None /\ edital'[h].attr = edital[h].attr
          <5>1. edital'[h] = [sim |-> sim, attr |-> edital[h].attr]
            BY <2>1, <3>1, <4>1 DEF TypeOK, Row
          <5> QED
            BY <3>1, <5>1, RowNotNone DEF Row
        <4> QED
          BY <2>3, <4>1
      <3>3. \A g \in Hashes \ {h} : edital'[g] = edital[g] /\ matches'[g] = matches[g]
        BY <2>3 DEF TypeOK
      <3>4. matches'[h] = matches[h] \cup tx[p].added
        BY <2>1, <2>3 DEF TypeOK
      <3> QED
        BY <2>1, <2>3, <3>2, <3>3, <3>4 DEF MatchSetExact
    <2> QED
      BY <1>2, <2>2, <2>3, PublishEffect
  <1> QED
    BY <1>1, <1>2, OnlyCommitsPublish

LEMMA CatalogStep ==
    ASSUME TypeOK, SessionConsistent, MatchSetExact, [Next]_vars
    PROVE  [Catalog!Next]_(Catalog!catalog)
  <1>1. CASE UNCHANGED db
    BY <1>1 DEF db, Catalog!catalog
  <1>2. ASSUME NEW p \in Scrapers, ReadyToCommit(p), Publish(p)
        PROVE  [Catalog!Next]_(Catalog!catalog)
    <2> DEFINE h == HashOf(p)
    <2>1. h \in Hashes /\ tx[p].seen \in SUBSET Subs /\ tx[p].added \in SUBSET Subs
      BY <1>2, PublishEffect DEF TypeOK, Session
    <2>2. ASSUME edital[h] = None,
                 NEW sim \in BigInt, NEW attr \in Attrs,
                 edital' = [edital EXCEPT ![h] = [sim |-> sim, attr |-> attr]],
                 matches' = [matches EXCEPT ![h] = @ \cup (tx[p].seen \cap Accepted[attr])]
          PROVE  Catalog!Store(h, sim, attr, tx[p].seen)
      <3>1. matches[h] = {}
        BY <2>1, <2>2 DEF MatchSetExact
      <3> QED
        BY <2>1, <2>2, <3>1 DEF TypeOK, Catalog!Store
    <2>3. ASSUME edital[h] # None,
                 edital' = edital \/ \E sim \in BigInt : edital' = [edital EXCEPT ![h].sim = sim],
                 tx[p].added \subseteq Accepted[edital[h].attr],
                 matches' = [matches EXCEPT ![h] = @ \cup tx[p].added]
          PROVE  \E sim \in BigInt : Catalog!Revise(h, sim, tx[p].added \ matches[h])
      <3>1. edital[h] \in Row
        BY <2>1, <2>3 DEF TypeOK
      <3>2. PICK sim \in BigInt : edital' = [edital EXCEPT ![h].sim = sim]
        <4>1. edital = [edital EXCEPT ![h].sim = edital[h].sim] /\ edital[h].sim \in BigInt
          BY <2>1, <3>1 DEF TypeOK, Row
        <4> QED
          BY <2>3, <4>1
      <3>3. matches' = [matches EXCEPT ![h] = @ \cup (tx[p].added \ matches[h])]
        BY <2>1, <2>3 DEF TypeOK
      <3>4. tx[p].added \ matches[h] \subseteq Accepted[edital[h].attr] \ matches[h]
        BY <2>3
      <3> QED
        BY <2>3, <3>2, <3>3, <3>4 DEF Catalog!Revise
    <2>4. tx[p].added \ matches[h] \in SUBSET Subs
      BY <2>1
    <2> QED
      <3>1. CASE edital[h] = None
        <4>1. PICK sim \in BigInt, attr \in Attrs :
                /\ edital' = [edital EXCEPT ![h] = [sim |-> sim, attr |-> attr]]
                /\ matches' = [matches EXCEPT ![h] = @ \cup (tx[p].seen \cap Accepted[attr])]
          BY <1>2, <3>1, PublishEffect
        <4>2. Catalog!Store(h, sim, attr, tx[p].seen)
          BY <2>2, <3>1, <4>1
        <4> QED
          BY <2>1, <4>2 DEF Catalog!Next
      <3>2. CASE edital[h] # None
        <4>1. \E sim \in BigInt : Catalog!Revise(h, sim, tx[p].added \ matches[h])
          BY <1>2, <2>3, <3>2, PublishEffect
        <4> QED
          BY <2>1, <2>4, <4>1 DEF Catalog!Next
      <3> QED
        BY <3>1, <3>2
  <1> QED
    BY <1>1, <1>2, OnlyCommitsPublish

-----------------------------------------------------------------------------
IInv == TypeOK /\ SessionConsistent /\ MatchSetExact

LEMMA IInvInductive == (Init => IInv) /\ (IInv /\ [Next]_vars => IInv')
  <1>1. Init => SessionConsistent /\ MatchSetExact
    BY DEF Init, SessionConsistent, SessionKeeps, InSession, InTransaction, MatchSetExact,
           NoTx, Fresh
  <1> QED
    BY <1>1, InitTypeOK, TypeStep, SessionStep, MatchStep DEF IInv

(***************************************************************************)
(* Every reachable state is typed; in particular the simhash column only   *)
(* ever holds signed 64-bit values (models/edital.py).                     *)
(***************************************************************************)
THEOREM PipelineTyped == Spec => []TypeOK
  <1>1. IInv => TypeOK
    BY DEF IInv
  <1> QED
    BY <1>1, IInvInductive, PTL DEF Spec

(***************************************************************************)
(* What a session has read and written stays valid while others commit     *)
(* (orchestrator.py _process_parsed, one transaction per item).            *)
(***************************************************************************)
THEOREM SessionsConsistent == Spec => []SessionConsistent
  <1>1. IInv => SessionConsistent
    BY DEF IInv
  <1> QED
    BY <1>1, IInvInductive, PTL DEF Spec

(***************************************************************************)
(* Persisting an edital and recording its matches is atomic (get_session   *)
(* around _process_parsed).                                                *)
(***************************************************************************)
THEOREM MatchSetsExact == Spec => []MatchSetExact
  <1>1. IInv => MatchSetExact
    BY DEF IInv
  <1> QED
    BY <1>1, IInvInductive, PTL DEF Spec

(***************************************************************************)
(* The interleaved transactions implement the one-step catalog             *)
(* (EditalRepository.upsert and MatchRepository.add under get_session).    *)
(***************************************************************************)
THEOREM PipelineImplementsCatalog == Spec => ImplementsCatalog
  <1>1. Init => Catalog!Init
    BY DEF Init, Catalog!Init
  <1>2. IInv /\ [Next]_vars => [Catalog!Next]_(Catalog!catalog)
    BY CatalogStep DEF IInv
  <1> QED
    BY <1>1, <1>2, IInvInductive, PTL DEF Spec, ImplementsCatalog, Catalog!Spec

-----------------------------------------------------------------------------
(* Refusals.                                                               *)

\* What is refused for its contents: an insert that does not fit or whose key has
\* just been taken, an update that does not fit, a match that is there already.
Refused(p) ==
    \/ InsertFails(p)
    \/ \E s \in Subs : AddMatchFails(p, s)
    \/ CommitFails(p)

LEMMA RefusalIsOneOfThree ==
    ASSUME TypeOK, [Next]_vars, NEW p \in Scrapers,
           pc[p] # "failed", pc'[p] = "failed", err'[p] \in {"range", "integrity"}
    PROVE  Refused(p)
<1> USE DEF TypeOK, Goto, Fail
<1>1. PICK q \in Scrapers :
         FetchSucceeds(q) \/ FetchFails(q) \/ Progress(q) \/ Disturbance(q)
  BY DEF Next, SeedSubscriber, vars
<1>2. q = p
  BY <1>1 DEF FetchSucceeds, FetchFails, Progress, Disturbance, NextItem, FeedEnds, DeadLetter,
     SelectExisting, UpsertFinds, UpsertMisses, AfterUpsert, InsertEdital, InsertFails,
     ListAtivos, AddMatch, AddMatchFails, Commit, CommitFails, DeadlockVictim, ParserRaises,
     DatabaseRaises, CommitUnacknowledged, Crash
<1>3. CASE FetchSucceeds(p) \/ FetchFails(p) \/ Disturbance(p)
  BY <1>3 DEF FetchSucceeds, FetchFails, Disturbance, ParserRaises, DatabaseRaises,
     CommitUnacknowledged, Crash
<1>4. CASE Progress(p)
  BY <1>4 DEF Progress, Refused, NextItem, FeedEnds, DeadLetter, SelectExisting, UpsertFinds,
     UpsertMisses, AfterUpsert, InsertEdital, ListAtivos, AddMatch, Commit, DeadlockVictim
<1> QED
  BY <1>1, <1>2, <1>3, <1>4

LEMMA RefusedIsStoredOrOversize ==
    ASSUME IInv, NEW p \in Scrapers, Refused(p)
    PROVE  edital[HashOf(p)] # None \/ tx[p].item.oversize # {}
<1> USE DEF IInv
<1>1. InTransaction(p)
  BY DEF Refused, InsertFails, AddMatchFails, CommitFails, InTransaction
<1>2. tx[p].item \in Items /\ HashOf(p) \in Hashes /\ tx[p].item.sim \in UInt
  BY <1>1, ItemsTyped DEF SessionConsistent, SessionKeeps, HashOf
<1>3. CASE InsertFails(p)
  <2>1. InsertedSim(tx[p].item.sim) \in BigInt
    BY <1>2, SignedRange DEF InsertedSim
  <2> QED
    BY <1>3, <2>1 DEF InsertFails, ColumnsTake
<1>4. CASE Overflows(p) /\ pc[p] = "match"
  BY <1>4 DEF Overflows, SessionConsistent, SessionKeeps, InSession
<1>5. ASSUME NEW s \in Subs, s \in matches[HashOf(p)] PROVE edital[HashOf(p)] # None
  BY <1>2, <1>5 DEF MatchSetExact
<1> QED
  BY <1>3, <1>4, <1>5 DEF Refused, AddMatchFails, CommitFails

(***************************************************************************)
(* An edital that nobody has stored and whose texts and numbers fit their  *)
(* columns is never refused for its simhash, which from_entity converts,   *)
(* nor by a unique index: there is room for it and for its matches.        *)
(***************************************************************************)
THEOREM FirstScrapesAccepted == Spec => FirstScrapeAccepted
  <1>1. IInv /\ [Next]_vars =>
          [\A p \in Scrapers :
             pc[p] # "failed" /\ pc'[p] = "failed" /\ err'[p] \in {"range", "integrity"} =>
               edital[HashOf(p)] # None \/ tx[p].item.oversize # {}]_vars
    BY RefusalIsOneOfThree, RefusedIsStoredOrOversize DEF IInv
  <1> QED
    BY <1>1, IInvInductive, PTL DEF Spec, FirstScrapeAccepted
=============================================================================
