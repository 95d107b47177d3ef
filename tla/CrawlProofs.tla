---------------------------- MODULE CrawlProofs ----------------------------
(***************************************************************************)
(* Proofs about Crawl, for any registry of spiders and any number of       *)
(* slots.  The inductive invariant adds to the checked invariants that a   *)
(* task has an outcome exactly when it has ended, that the tasks of the    *)
(* spiders still to come do not exist, and that a dead letter was pushed.  *)
(* Then about BrowserCrawl: it implements Crawl, so that these theorems    *)
(* hold of it; the lock and the pool keep to one browser; and what is left *)
(* of it when all is over is explained by a spider that failed.            *)
(***************************************************************************)
EXTENDS BrowserCrawl, FiniteSetTheorems, TLAPS

Holding == {"fetching", "parsing", "pushing"}

EndedHasOutcome == \A u \in Urls : task[u] = "ended" <=> outcome[u] # "none"
DeadIsPushed    == \A u \in Urls : outcome[u] = "dead" => u \in dlq
GatherInPlan    == job = "gather" => turn <= last
AheadAbsent     ==
    \A s \in Spiders :
        (s > turn \/ (s = turn /\ job \in {"boot", "next"})) =>
            \A u \in Feeds[s] : task[u] = "absent"

IInv ==
    /\ TypeOK
    /\ SlotsConserved
    /\ EndedHasOutcome
    /\ DeadIsPushed
    /\ GatherInPlan
    /\ AheadAbsent
    /\ ReturnedIsComplete
    /\ OrphansOnlyAfterFailure

\* The registry names URLs, and the turn of a spider in the plan is a spider.
LEMMA FeedsAreUrls ==
    ASSUME NEW s \in Spiders
    PROVE  Feeds[s] \subseteq Urls
BY CrawlAssumption DEF Spiders

LEMMA TurnIsSpider ==
    ASSUME TypeOK, turn <= last
    PROVE  turn \in Spiders /\ turn \in Int /\ last \in Int
<1>1. Len(Feeds) \in Nat
  BY CrawlAssumption
<1> QED
  BY <1>1 DEF TypeOK, Spiders

-----------------------------------------------------------------------------
(* What a step of one task does to the set of slot holders.                *)

LEMMA HoldersFinite == IsFiniteSet(Holders) /\ Cardinality(Holders) \in Nat
<1>1. Holders \in SUBSET Urls
  BY DEF Holders
<1> QED
  BY <1>1, CrawlAssumption, FS_Subset, FS_CardinalityType

LEMMA OneMoreHolds ==
    ASSUME TypeOK, NEW u \in Urls, task[u] = "waiting", Goto(u, "fetching")
    PROVE  Cardinality(Holders') = Cardinality(Holders) + 1
<1>1. Holders' = Holders \cup {u}
  BY DEF TypeOK, Goto, Holders
<1>2. u \notin Holders
  BY DEF Holders
<1> QED
  BY <1>1, <1>2, HoldersFinite, FS_AddElement

LEMMA GiveSlot ==
    ASSUME TypeOK, NEW u \in Urls, task[u] \in Holding, Goto(u, "ended")
    PROVE  /\ Cardinality(Holders') = Cardinality(Holders) - 1
           /\ Cardinality(Holders) > 0
<1>1. Holders' = Holders \ {u}
  BY DEF TypeOK, Goto, Holders
<1>2. u \in Holders
  BY DEF Holders, Holding
<1>3. Cardinality(Holders') = Cardinality(Holders) - 1
  BY <1>1, <1>2, HoldersFinite, FS_RemoveElement
<1>4. Cardinality(Holders) # 0
  BY <1>2, HoldersFinite, FS_EmptySet
<1> QED
  BY <1>3, <1>4, HoldersFinite

LEMMA KeepSlot ==
    ASSUME TypeOK, NEW u \in Urls, NEW stage \in Holding,
           task[u] \in Holding, Goto(u, stage)
    PROVE  Holders' = Holders
BY DEF TypeOK, Goto, Holders, Holding

-----------------------------------------------------------------------------
LEMMA InitHolds == Init => IInv
<1> SUFFICES ASSUME Init PROVE IInv
  OBVIOUS
<1>1. Len(Feeds) \in Nat
  BY CrawlAssumption
<1>2. TypeOK
  <2>1. last \in 0 .. Len(Feeds) /\ turn \in 1 .. last + 1
    BY <1>1 DEF Init, Spiders
  <2>2. oneshot \in BOOLEAN /\ closed \in BOOLEAN
    BY DEF Init
  <2>3. permits \in 0 .. Concurrency
    BY CrawlAssumption DEF Init
  <2>4. task \in [Urls -> Stages] /\ outcome \in [Urls -> Outcomes] /\ job \in Jobs
    BY DEF Init, Jobs, Stages, Outcomes
  <2> QED
    BY <2>1, <2>2, <2>3, <2>4 DEF Init, TypeOK
<1>3. SlotsConserved
  <2>1. Holders = {}
    BY DEF Init, Holders
  <2> QED
    BY <2>1, FS_EmptySet, CrawlAssumption DEF Init, SlotsConserved
<1>4. EndedHasOutcome /\ DeadIsPushed /\ GatherInPlan
  BY DEF Init, EndedHasOutcome, DeadIsPushed, GatherInPlan
<1>5. AheadAbsent /\ ReturnedIsComplete /\ OrphansOnlyAfterFailure
  BY FeedsAreUrls DEF Init, AheadAbsent, ReturnedIsComplete, OrphansOnlyAfterFailure, Running
<1> QED
  BY <1>2, <1>3, <1>4, <1>5 DEF IInv

-----------------------------------------------------------------------------
(* The job.                                                                *)

LEMMA BootKeeps ==
    ASSUME IInv, Boot \/ BootRaises
    PROVE  IInv'
<1> USE DEF IInv
<1>1. TypeOK' /\ GatherInPlan'
  BY DEF Boot, BootRaises, TypeOK, GatherInPlan, plan, Jobs
<1>2. SlotsConserved' /\ EndedHasOutcome' /\ DeadIsPushed' /\ ReturnedIsComplete'
  BY DEF Boot, BootRaises, plan, SlotsConserved, Holders, EndedHasOutcome, DeadIsPushed,
         ReturnedIsComplete
<1>3. AheadAbsent' /\ OrphansOnlyAfterFailure'
  BY DEF Boot, BootRaises, plan, AheadAbsent, OrphansOnlyAfterFailure, Running
<1> QED
  BY <1>1, <1>2, <1>3

LEMMA StartSpiderKeeps ==
    ASSUME IInv, StartSpider
    PROVE  IInv'
<1> USE DEF IInv
<1>1. turn \in Spiders /\ turn \in Int
  BY TurnIsSpider DEF StartSpider
<1>2. Feeds[turn] \subseteq Urls /\ \A u \in Feeds[turn] : task[u] = "absent"
  BY <1>1, FeedsAreUrls DEF StartSpider, AheadAbsent
<1>3. TypeOK' /\ GatherInPlan'
  BY <1>2 DEF StartSpider, TypeOK, GatherInPlan, plan, Jobs, Stages
<1>4. SlotsConserved'
  <2>1. Holders' = Holders
    BY <1>2 DEF StartSpider, Holders, TypeOK
  <2> QED
    BY <2>1 DEF StartSpider, SlotsConserved
<1>5. EndedHasOutcome' /\ DeadIsPushed' /\ ReturnedIsComplete'
  BY <1>2 DEF StartSpider, plan, EndedHasOutcome, DeadIsPushed, ReturnedIsComplete, TypeOK
<1>6. AheadAbsent'
  <2> SUFFICES ASSUME NEW s \in Spiders, s > turn, NEW u \in Feeds[s]
               PROVE  task'[u] = "absent"
    BY <1>1 DEF AheadAbsent, StartSpider, plan
  <2>1. s # turn
    BY <1>1 DEF Spiders
  <2>2. u \notin Feeds[turn] /\ u \in Urls
    BY <2>1, <1>1, CrawlAssumption, FeedsAreUrls
  <2> QED
    BY <2>2 DEF StartSpider, AheadAbsent
<1>7. OrphansOnlyAfterFailure'
  <2> SUFFICES ASSUME NEW s \in Spiders, NEW u \in Feeds[s], Running(u)', s # turn
               PROVE  verdict[s] = "raised"
    BY DEF OrphansOnlyAfterFailure, StartSpider, plan
  <2>1. u \notin Feeds[turn] /\ u \in Urls
    BY <1>1, CrawlAssumption, FeedsAreUrls
  <2>2. Running(u)
    BY <2>1 DEF StartSpider, Running
  <2> QED
    BY <2>2 DEF OrphansOnlyAfterFailure, StartSpider
<1> QED
  BY <1>3, <1>4, <1>5, <1>6, <1>7

\* The turn passes on with a verdict that fits what the tasks have done.
LEMMA NextSpiderKeeps ==
    ASSUME IInv, job = "gather", NEW how \in {"returned", "raised"}, NextSpider(how),
           how = "returned" => \A u \in Feeds[turn] : outcome[u] \in {"processed", "dead"}
    PROVE  IInv'
<1> USE DEF IInv
<1>1. turn \in Spiders /\ turn \in Int /\ last \in Int /\ turn <= last
  BY TurnIsSpider DEF GatherInPlan
<1>2. Feeds[turn] \subseteq Urls
  BY <1>1, FeedsAreUrls
<1>3. TypeOK' /\ GatherInPlan'
  BY <1>1 DEF NextSpider, TypeOK, GatherInPlan, plan, Jobs
<1>4. SlotsConserved' /\ EndedHasOutcome' /\ DeadIsPushed'
  BY DEF NextSpider, plan, SlotsConserved, Holders, EndedHasOutcome, DeadIsPushed
<1>5. AheadAbsent'
  BY <1>1 DEF NextSpider, plan, AheadAbsent, Spiders
<1>6. ReturnedIsComplete'
  BY <1>1, <1>2 DEF NextSpider, TypeOK, ReturnedIsComplete, DeadIsPushed
<1>7. OrphansOnlyAfterFailure'
  <2> SUFFICES ASSUME NEW s \in Spiders, NEW u \in Feeds[s], Running(u)
               PROVE  verdict'[s] = "raised"
    BY DEF OrphansOnlyAfterFailure, Running, NextSpider
  <2>1. CASE s = turn
    <3>1. u \in Urls /\ task[u] # "ended"
      BY <2>1, <1>2 DEF Running
    <3>2. outcome[u] \notin {"processed", "dead"}
      BY <3>1 DEF EndedHasOutcome
    <3> QED
      BY <3>2, <2>1, <1>1 DEF NextSpider, TypeOK
  <2>2. CASE s # turn
    BY <2>2 DEF OrphansOnlyAfterFailure, NextSpider, TypeOK
  <2> QED
    BY <2>1, <2>2
<1> QED
  BY <1>3, <1>4, <1>5, <1>6, <1>7

LEMMA CloseKeeps ==
    ASSUME IInv, Close
    PROVE  IInv'
<1> USE DEF IInv
<1>1. TypeOK' /\ GatherInPlan'
  BY DEF Close, TypeOK, GatherInPlan, plan, Jobs
<1>2. SlotsConserved' /\ EndedHasOutcome' /\ DeadIsPushed' /\ ReturnedIsComplete'
  BY DEF Close, plan, SlotsConserved, Holders, EndedHasOutcome, DeadIsPushed, ReturnedIsComplete
<1>3. AheadAbsent' /\ OrphansOnlyAfterFailure'
  BY DEF Close, plan, AheadAbsent, OrphansOnlyAfterFailure, Running
<1> QED
  BY <1>1, <1>2, <1>3

\* A returned run has no task left to cancel.
LEMMA LoopClosesKeeps ==
    ASSUME IInv, LoopCloses
    PROVE  IInv'
<1> USE DEF IInv
<1>1. TypeOK' /\ GatherInPlan'
  <2>1. job' \in Jobs /\ closed' \in BOOLEAN /\ permits' \in 0 .. Concurrency
    BY CrawlAssumption DEF LoopCloses, Jobs
  <2>2. verdict' \in [Spiders -> {"none", "returned", "raised", "cancelled"}]
    BY DEF LoopCloses, TypeOK
  <2>3. task' \in [Urls -> Stages] /\ outcome' \in [Urls -> Outcomes]
    BY DEF LoopCloses, TypeOK, Stages, Outcomes
  <2>4. oneshot' \in BOOLEAN /\ last' \in 0 .. Len(Feeds) /\ turn' \in 1 .. last' + 1
        /\ dlq' \in SUBSET Urls
    BY DEF LoopCloses, TypeOK, plan
  <2> QED
    BY <2>1, <2>2, <2>3, <2>4 DEF LoopCloses, TypeOK, GatherInPlan
<1>2. SlotsConserved'
  <2>1. Holders' = {}
    BY DEF LoopCloses, Holders
  <2> QED
    BY <2>1, FS_EmptySet, CrawlAssumption DEF LoopCloses, SlotsConserved
<1>3. EndedHasOutcome' /\ DeadIsPushed'
  BY DEF LoopCloses, EndedHasOutcome, DeadIsPushed, TypeOK
<1>4. AheadAbsent'
  BY FeedsAreUrls DEF LoopCloses, plan, AheadAbsent
<1>5. ReturnedIsComplete'
  <2> SUFFICES ASSUME NEW s \in Spiders, verdict'[s] = "returned", NEW u \in Feeds[s]
               PROVE  outcome'[u] = "processed" \/ (outcome'[u] = "dead" /\ u \in dlq')
    BY DEF ReturnedIsComplete
  <2>1. verdict[s] = "returned" /\ u \in Urls
    BY FeedsAreUrls DEF LoopCloses, TypeOK
  <2>2. outcome[u] = "processed" \/ (outcome[u] = "dead" /\ u \in dlq)
    BY <2>1 DEF ReturnedIsComplete
  <2>3. task[u] = "ended"
    BY <2>1, <2>2 DEF EndedHasOutcome
  <2> QED
    BY <2>1, <2>2, <2>3 DEF LoopCloses
<1>6. OrphansOnlyAfterFailure'
  BY FeedsAreUrls DEF LoopCloses, OrphansOnlyAfterFailure, Running
<1> QED
  BY <1>1, <1>2, <1>3, <1>4, <1>5, <1>6

-----------------------------------------------------------------------------
(* The tasks.                                                              *)

LEMMA AcquireKeeps ==
    ASSUME IInv, NEW u \in Urls, Acquire(u)
    PROVE  IInv'
<1> USE DEF IInv
<1>1. TypeOK'
  BY CrawlAssumption DEF Acquire, Goto, jobs, TypeOK, Stages
<1>2. SlotsConserved'
  <2>1. Cardinality(Holders') = Cardinality(Holders) + 1
    BY OneMoreHolds DEF Acquire
  <2> QED
    BY <2>1, HoldersFinite, CrawlAssumption DEF Acquire, SlotsConserved, TypeOK
<1>3. EndedHasOutcome' /\ DeadIsPushed' /\ GatherInPlan' /\ ReturnedIsComplete'
  BY DEF Acquire, Goto, jobs, TypeOK, EndedHasOutcome, DeadIsPushed, GatherInPlan,
         ReturnedIsComplete
<1>4. AheadAbsent' /\ OrphansOnlyAfterFailure'
  BY FeedsAreUrls
     DEF Acquire, Goto, jobs, TypeOK, AheadAbsent, OrphansOnlyAfterFailure, Running
<1> QED
  BY <1>1, <1>2, <1>3, <1>4

\* From one stage that holds a slot to another.
LEMMA GoOnKeeps ==
    ASSUME IInv, NEW u \in Urls, NEW stage \in Holding, task[u] \in Holding,
           Goto(u, stage), UNCHANGED <<jobs, outcome, permits, dlq>>
    PROVE  IInv'
<1> USE DEF IInv
<1>1. TypeOK'
  BY DEF Goto, jobs, TypeOK, Stages, Holding
<1>2. SlotsConserved'
  BY KeepSlot DEF SlotsConserved
<1>3. EndedHasOutcome' /\ DeadIsPushed' /\ GatherInPlan' /\ ReturnedIsComplete'
  BY DEF Goto, jobs, Holding, TypeOK, EndedHasOutcome, DeadIsPushed, GatherInPlan,
         ReturnedIsComplete
<1>4. AheadAbsent' /\ OrphansOnlyAfterFailure'
  BY FeedsAreUrls
     DEF Goto, jobs, Holding, TypeOK, AheadAbsent, OrphansOnlyAfterFailure, Running
<1> QED
  BY <1>1, <1>2, <1>3, <1>4

\* Out of the `async with': only a push that succeeded leaves a task dead.
LEMMA LeaveKeeps ==
    ASSUME IInv, NEW u \in Urls, NEW how \in Outcomes \ {"none"}, task[u] \in Holding,
           Leave(u, how), UNCHANGED jobs,
           dlq' = dlq \/ dlq' = dlq \cup {u},
           how = "dead" => u \in dlq'
    PROVE  IInv'
<1> USE DEF IInv
<1>1. Cardinality(Holders') = Cardinality(Holders) - 1 /\ Cardinality(Holders) > 0
  BY GiveSlot DEF Leave
<1>2. permits' \in 0 .. Concurrency /\ SlotsConserved'
  BY <1>1, HoldersFinite, CrawlAssumption DEF Leave, SlotsConserved, TypeOK
<1>3. TypeOK'
  BY <1>2 DEF Leave, Goto, jobs, TypeOK, Stages
<1>4. outcome[u] = "none"
  BY DEF EndedHasOutcome, Holding
<1>5. EndedHasOutcome' /\ DeadIsPushed' /\ GatherInPlan'
  BY DEF Leave, Goto, jobs, TypeOK, EndedHasOutcome, DeadIsPushed, GatherInPlan
<1>6. ReturnedIsComplete'
  BY <1>4, FeedsAreUrls DEF Leave, jobs, TypeOK, ReturnedIsComplete
<1>7. AheadAbsent' /\ OrphansOnlyAfterFailure'
  BY FeedsAreUrls
     DEF Leave, Goto, jobs, Holding, TypeOK, AheadAbsent, OrphansOnlyAfterFailure, Running
<1> QED
  BY <1>2, <1>3, <1>5, <1>6, <1>7

LEMMA TaskStepKeeps ==
    ASSUME IInv, NEW u \in Urls, TaskStep(u)
    PROVE  IInv'
<1>1. CASE FetchOk(u) \/ FetchFails(u) \/ ParseFails(u)
  BY <1>1, GoOnKeeps DEF FetchOk, FetchFails, ParseFails, Holding
<1>2. CASE FetchRaises(u)
  BY <1>2, LeaveKeeps DEF FetchRaises, Holding, Outcomes
<1>3. CASE ParseOk(u)
  BY <1>3, LeaveKeeps DEF ParseOk, Holding, Outcomes
<1>4. CASE Push(u)
  BY <1>4, LeaveKeeps DEF Push, Holding, Outcomes
<1>5. CASE PushRaises(u)
  BY <1>5, LeaveKeeps DEF PushRaises, Holding, Outcomes
<1> QED
  BY <1>1, <1>2, <1>3, <1>4, <1>5 DEF TaskStep

-----------------------------------------------------------------------------
LEMMA StepKeeps == IInv /\ [Next]_vars => IInv'
<1> SUFFICES ASSUME IInv, [Next]_vars PROVE IInv'
  OBVIOUS
<1>1. CASE Boot \/ BootRaises
  BY <1>1, BootKeeps
<1>2. CASE StartSpider
  BY <1>2, StartSpiderKeeps
<1>3. CASE GatherReturns
  BY <1>3, NextSpiderKeeps DEF GatherReturns
<1>4. CASE GatherRaises
  BY <1>4, NextSpiderKeeps DEF GatherRaises
<1>5. CASE Close
  BY <1>5, CloseKeeps
<1>6. CASE LoopCloses
  BY <1>6, LoopClosesKeeps
<1>7. CASE \E u \in Urls : Acquire(u) \/ TaskStep(u)
  BY <1>7, AcquireKeeps, TaskStepKeeps
<1>8. CASE UNCHANGED vars
  BY <1>8 DEF vars, IInv, TypeOK, SlotsConserved, Holders, EndedHasOutcome, DeadIsPushed,
              GatherInPlan, AheadAbsent, ReturnedIsComplete, OrphansOnlyAfterFailure, Running
<1> QED
  BY <1>1, <1>2, <1>3, <1>4, <1>5, <1>6, <1>7, <1>8 DEF Next, JobStep

\* The inductive invariant holds in every reachable state.
THEOREM CrawlInvariant == Spec => []IInv
BY InitHolds, StepKeeps, PTL DEF Spec

\* Every reachable state is well typed, whatever the registry.
THEOREM CrawlTyped == Spec => []TypeOK
<1>1. IInv => TypeOK
  BY DEF IInv
<1> QED
  BY <1>1, CrawlInvariant, PTL

\* The semaphore of the orchestrator neither loses nor makes a slot.
THEOREM SlotsAreConserved == Spec => []SlotsConserved
<1>1. IInv => SlotsConserved
  BY DEF IInv
<1> QED
  BY <1>1, CrawlInvariant, PTL

\* A run_spider that returned has accounted for every URL of its spider.
THEOREM ReturnedAreComplete == Spec => []ReturnedIsComplete
<1>1. IInv => ReturnedIsComplete
  BY DEF IInv
<1> QED
  BY <1>1, CrawlInvariant, PTL

\* A task outlives the turn of its spider only after run_spider raised.
THEOREM OrphansExplained == Spec => []OrphansOnlyAfterFailure
<1>1. IInv => OrphansOnlyAfterFailure
  BY DEF IInv
<1> QED
  BY <1>1, CrawlInvariant, PTL

-----------------------------------------------------------------------------
(* Exceptions.  A task that raises was running: the orphans' invariant     *)
(* says who is still there to report its spider.  What has raised stays    *)
(* raised, so that a report keeps its reason.                              *)
RaisedHasVerdict ==
    \A s \in Spiders : \A u \in Feeds[s] :
        Raised(u) => (job = "gather" /\ s = turn) \/ verdict[s] \in {"raised", "cancelled"}

ReportHasReason ==
    \A s \in Spiders : verdict[s] = "raised" => \E u \in Feeds[s] : Raised(u)

LEMMA ReportedBothWays == FailedSpiderIsReported <=> RaisedHasVerdict /\ ReportHasReason
  BY DEF FailedSpiderIsReported, RaisedHasVerdict, ReportHasReason

\* An ended task is not touched again, and a spider to come has none.
LEMMA RaisedStays ==
    ASSUME IInv, [Next]_vars, NEW u \in Urls, Raised(u)
    PROVE  Raised(u)'
<1>1. task[u] = "ended"
  BY DEF IInv, EndedHasOutcome, Raised
<1>2. CASE JobStep
  BY <1>2 DEF JobStep, Boot, BootRaises, StartSpider, GatherReturns, GatherRaises, NextSpider,
              Close, Raised
<1>3. CASE LoopCloses
  BY <1>1, <1>3 DEF LoopCloses, Raised
<1>4. CASE \E v \in Urls : Acquire(v) \/ TaskStep(v)
  <2> PICK v \in Urls : Acquire(v) \/ TaskStep(v)
    BY <1>4
  <2>1. CASE Acquire(v) \/ FetchOk(v) \/ FetchFails(v) \/ ParseFails(v)
    BY <2>1 DEF Acquire, FetchOk, FetchFails, ParseFails, Raised
  <2>2. CASE FetchRaises(v) \/ ParseOk(v) \/ Push(v) \/ PushRaises(v)
    BY <1>1, <2>2 DEF FetchRaises, ParseOk, Push, PushRaises, Leave, Raised, IInv, TypeOK
  <2> QED
    BY <2>1, <2>2 DEF TaskStep
<1>5. CASE UNCHANGED vars
  BY <1>5 DEF vars, Raised
<1> QED
  BY <1>2, <1>3, <1>4, <1>5 DEF Next

LEMMA StepKeepsReasons == IInv /\ ReportHasReason /\ [Next]_vars => ReportHasReason'
<1> SUFFICES ASSUME IInv, ReportHasReason, [Next]_vars, NEW s \in Spiders, verdict'[s] = "raised"
             PROVE  \E u \in Feeds[s] : Raised(u)'
  BY DEF ReportHasReason
<1>1. verdict[s] = "raised" \/ \E u \in Feeds[s] : Raised(u)
  <2>1. CASE GatherRaises
    BY <2>1, TurnIsSpider DEF GatherRaises, NextSpider, IInv, TypeOK, GatherInPlan
  <2>2. CASE GatherReturns
    BY <2>2, TurnIsSpider DEF GatherReturns, NextSpider, IInv, TypeOK, GatherInPlan
  <2>3. CASE LoopCloses
    BY <2>3, TurnIsSpider DEF LoopCloses, IInv, TypeOK, GatherInPlan
  <2>4. CASE UNCHANGED verdict
    BY <2>4
  <2> QED
    BY <2>1, <2>2, <2>3, <2>4 DEF Next, JobStep, Boot, BootRaises, StartSpider, Close, Acquire,
         TaskStep, FetchOk, FetchFails, FetchRaises, ParseOk, ParseFails, Push, PushRaises, jobs, vars
<1>2. PICK u \in Feeds[s] : Raised(u)
  BY <1>1 DEF ReportHasReason
<1> QED
  BY <1>2, RaisedStays, FeedsAreUrls

LEMMA JobKeepsReports ==
    ASSUME IInv, RaisedHasVerdict, JobStep \/ LoopCloses
    PROVE  RaisedHasVerdict'
<1> USE DEF IInv, RaisedHasVerdict, Raised
<1>1. CASE Boot \/ BootRaises \/ StartSpider \/ Close
  BY <1>1 DEF Boot, BootRaises, StartSpider, Close, plan
<1>2. CASE GatherReturns
  BY <1>2, FeedsAreUrls, TurnIsSpider
     DEF GatherReturns, GatherInPlan, NextSpider, TypeOK
<1>3. CASE GatherRaises
  BY <1>3, FeedsAreUrls, TurnIsSpider
     DEF GatherRaises, GatherInPlan, NextSpider, TypeOK
<1>4. CASE LoopCloses
  BY <1>4, FeedsAreUrls, TurnIsSpider DEF LoopCloses, GatherInPlan, plan, TypeOK
<1> QED
  BY <1>1, <1>2, <1>3, <1>4 DEF JobStep

LEMMA LeaveKeepsReports ==
    ASSUME IInv, RaisedHasVerdict, NEW u \in Urls, NEW how, task[u] \in Holding,
           Leave(u, how), UNCHANGED jobs
    PROVE  RaisedHasVerdict'
<1> SUFFICES ASSUME NEW s \in Spiders, NEW v \in Feeds[s], Raised(v)'
             PROVE  \/ job = "gather" /\ s = turn
                    \/ verdict[s] \in {"raised", "cancelled"}
  BY DEF RaisedHasVerdict, jobs
<1>1. CASE v = u
  <2>1. Running(v)
    BY <1>1 DEF Running, Holding
  <2> QED
    BY <2>1 DEF IInv, OrphansOnlyAfterFailure
<1>2. CASE v # u
  BY <1>2, FeedsAreUrls DEF Leave, Raised, RaisedHasVerdict, IInv, TypeOK
<1> QED
  BY <1>1, <1>2

LEMMA StepKeepsReports == IInv /\ RaisedHasVerdict /\ [Next]_vars => RaisedHasVerdict'
<1> SUFFICES ASSUME IInv, RaisedHasVerdict, [Next]_vars PROVE RaisedHasVerdict'
  OBVIOUS
<1>1. CASE JobStep \/ LoopCloses
  BY <1>1, JobKeepsReports
<1>2. ASSUME NEW u \in Urls, Acquire(u) \/ TaskStep(u)
      PROVE  RaisedHasVerdict'
  <2>1. CASE Acquire(u) \/ FetchOk(u) \/ FetchFails(u) \/ ParseFails(u)
    BY <2>1 DEF Acquire, FetchOk, FetchFails, ParseFails, jobs, RaisedHasVerdict, Raised
  <2>2. CASE FetchRaises(u) \/ ParseOk(u) \/ Push(u) \/ PushRaises(u)
    BY <2>2, LeaveKeepsReports DEF FetchRaises, ParseOk, Push, PushRaises, Holding
  <2> QED
    BY <1>2, <2>1, <2>2 DEF TaskStep
<1>3. CASE UNCHANGED vars
  BY <1>3 DEF vars, RaisedHasVerdict, Raised
<1> QED
  BY <1>1, <1>2, <1>3 DEF Next

\* A spider is reported as failed exactly when one of its tasks raised, unless
\* the process is stopped before (run_all_spiders_job, gather of run_spider).
THEOREM FailedSpidersReported == Spec => []FailedSpiderIsReported
<1>1. Init => RaisedHasVerdict /\ ReportHasReason
  BY FeedsAreUrls DEF Init, RaisedHasVerdict, ReportHasReason, Raised
<1>2. RaisedHasVerdict /\ ReportHasReason => FailedSpiderIsReported
  BY ReportedBothWays
<1> QED
  BY <1>1, <1>2, CrawlInvariant, StepKeepsReports, StepKeepsReasons, PTL DEF Spec

-----------------------------------------------------------------------------
(* Refinement: every step is one of the crawl or leaves it unchanged.      *)

LEMMA UrlStepIsCrawlStep ==
    ASSUME NEW u \in Urls, UrlStep(u)
    PROVE  Acquire(u) \/ TaskStep(u) \/ UNCHANGED vars
<1>1. CASE Acquire(u) /\ UNCHANGED browserVars
  BY <1>1
<1>2. CASE HttpStep(u) \/ AfterFetch(u)
  BY <1>2 DEF HttpStep, AfterFetch, TaskStep
<1>3. CASE BrowserStep(u)
  <2>1. CASE TakeSlot(u) \/ EnsureStarted(u) \/ StartDriver(u) \/ LaunchBrowser(u)
    BY <2>1 DEF TakeSlot, EnsureStarted, StartDriver, LaunchBrowser
  <2>2. CASE Render(u) \/ RenderRaises(u)
    BY <2>2 DEF Render, RenderRaises, TaskStep
  <2> QED
    BY <1>3, <2>1, <2>2 DEF BrowserStep
<1> QED
  BY <1>1, <1>2, <1>3 DEF UrlStep

LEMMA StepIsCrawlStep == [BrowserNext]_allVars => [Next]_vars
<1> SUFFICES ASSUME [BrowserNext]_allVars PROVE [Next]_vars
  OBVIOUS
<1>1. CASE JobStep /\ UNCHANGED browserVars
  BY <1>1 DEF Next
<1>2. CASE AClose
  BY <1>2 DEF AClose, BeginClose, CloseBrowser, StopDriver
<1>3. CASE ProcessEnds
  BY <1>3 DEF ProcessEnds, Next
<1>4. CASE \E u \in Urls : UrlStep(u)
  BY <1>4, UrlStepIsCrawlStep DEF Next
<1>5. CASE UNCHANGED allVars
  BY <1>5 DEF allVars
<1> QED
  BY <1>1, <1>2, <1>3, <1>4, <1>5 DEF BrowserNext

\* A crawl with a browser is a crawl.
THEOREM BrowserImplementsCrawl == BrowserSpec => Spec
<1>1. BrowserInit => Init
  BY DEF BrowserInit
<1> QED
  BY <1>1, StepIsCrawlStep, PTL DEF BrowserSpec, Spec

LEMMA BrowserCrawlInvariant == BrowserSpec => [](IInv /\ RaisedHasVerdict)
<1>1. FailedSpiderIsReported => RaisedHasVerdict
  BY ReportedBothWays
<1> QED
  BY <1>1, BrowserImplementsCrawl, CrawlInvariant, FailedSpidersReported, PTL

-----------------------------------------------------------------------------
(* One browser.  Whoever holds the lock is starting one or closing one.    *)

PageStages == {"none", "queued", "starting", "launching", "using"}
Launching(u) == page[u] \in {"starting", "launching"}

BrowserTypeOK ==
    /\ page \in [Rendered -> PageStages]
    /\ slots \in Int
    /\ lock \in Urls \cup {NoOne, "aclose"}
    /\ browsers \in {0, 1}
    /\ leaked \in Nat
    /\ attached \subseteq Rendered
    /\ shut \in {"no", "browser", "driver", "done"}

LockHeld ==
    /\ \A u \in Rendered : Launching(u) <=> lock = u
    /\ lock \in Urls => lock \in Rendered /\ browsers = 0
    /\ shut \in {"browser", "driver"} <=> lock = "aclose"
    /\ shut = "driver" => browsers = 0

SlotsKept == slots + Cardinality(InBrowser) = PoolSize

FetchingInBrowser == \A u \in Rendered : page[u] # "none" => task[u] = "fetching"

BInv == BrowserTypeOK /\ LockHeld /\ SlotsKept /\ FetchingInBrowser

LEMMA InBrowserFinite == IsFiniteSet(InBrowser) /\ Cardinality(InBrowser) \in Nat
<1>1. InBrowser \in SUBSET Urls
  BY BrowserAssumption DEF InBrowser
<1> QED
  BY <1>1, CrawlAssumption, FS_Subset, FS_CardinalityType

LEMMA EnterPool ==
    ASSUME BrowserTypeOK, NEW u \in Rendered, page[u] = "none", Show(u, "queued")
    PROVE  Cardinality(InBrowser') = Cardinality(InBrowser) + 1
<1>1. InBrowser' = InBrowser \cup {u} /\ u \notin InBrowser
  BY DEF BrowserTypeOK, Show, InBrowser
<1> QED
  BY <1>1, InBrowserFinite, FS_AddElement

LEMMA LeavePool ==
    ASSUME BrowserTypeOK, NEW u \in Rendered, page[u] # "none", Show(u, "none")
    PROVE  Cardinality(InBrowser') = Cardinality(InBrowser) - 1
<1>1. InBrowser' = InBrowser \ {u} /\ u \in InBrowser
  BY DEF BrowserTypeOK, Show, InBrowser
<1> QED
  BY <1>1, InBrowserFinite, FS_RemoveElement

LEMMA StayInPool ==
    ASSUME BrowserTypeOK, NEW u \in Rendered, NEW stage \in PageStages \ {"none"},
           page[u] # "none", Show(u, stage)
    PROVE  InBrowser' = InBrowser
BY DEF BrowserTypeOK, Show, InBrowser

LEMMA BrowserInitHolds == BrowserInit => BInv
<1> SUFFICES ASSUME BrowserInit PROVE BInv
  OBVIOUS
<1>1. BrowserTypeOK
  BY BrowserAssumption DEF BrowserInit, BrowserTypeOK, PageStages
<1>2. LockHeld
  BY BrowserAssumption DEF BrowserInit, LockHeld, Launching
<1>3. SlotsKept
  <2>1. InBrowser = {}
    BY DEF BrowserInit, InBrowser
  <2> QED
    BY <2>1, FS_EmptySet, BrowserAssumption DEF BrowserInit, SlotsKept
<1>4. FetchingInBrowser
  BY DEF BrowserInit, FetchingInBrowser
<1> QED
  BY <1>1, <1>2, <1>3, <1>4 DEF BInv

\* A step of the crawl that leaves the fetches alone.
LEMMA CrawlStepKeeps ==
    ASSUME IInv, BInv, UNCHANGED browserVars,
           \A u \in Urls : task[u] = "fetching" => task'[u] = "fetching"
    PROVE  BInv'
<1>1. BrowserTypeOK' /\ LockHeld' /\ SlotsKept'
  BY DEF BInv, browserVars, BrowserTypeOK, LockHeld, Launching, SlotsKept, InBrowser
<1>2. FetchingInBrowser'
  BY BrowserAssumption DEF BInv, browserVars, FetchingInBrowser
<1> QED
  BY <1>1, <1>2 DEF BInv

LEMMA JobStepKeepsBrowser ==
    ASSUME IInv, BInv, JobStep, UNCHANGED browserVars
    PROVE  BInv'
<1>1. ASSUME NEW u \in Urls, task[u] = "fetching"
      PROVE  task'[u] = "fetching"
  <2>1. CASE StartSpider
    <3>1. turn \in Spiders
      BY <2>1, TurnIsSpider DEF IInv, StartSpider
    <3>2. u \notin Feeds[turn]
      BY <2>1, <3>1, <1>1 DEF IInv, AheadAbsent, StartSpider
    <3> QED
      BY <2>1, <3>2, <1>1 DEF StartSpider
  <2> QED
    BY <1>1, <2>1 DEF JobStep, Boot, BootRaises, GatherReturns, GatherRaises, NextSpider, Close
<1> QED
  BY <1>1, CrawlStepKeeps

LEMMA UrlStepKeepsBrowser ==
    ASSUME IInv, BInv, NEW u \in Urls,
           (Acquire(u) /\ UNCHANGED browserVars) \/ HttpStep(u) \/ AfterFetch(u)
    PROVE  BInv'
<1>1. CASE Acquire(u) /\ UNCHANGED browserVars
  <2>1. \A v \in Urls : task[v] = "fetching" => task'[v] = "fetching"
    BY <1>1 DEF Acquire, Goto, IInv, TypeOK
  <2> QED
    BY <1>1, <2>1, CrawlStepKeeps
<1>2. CASE HttpStep(u)
  <2>1. u \notin Rendered /\ UNCHANGED browserVars
    BY <1>2 DEF HttpStep
  <2>2. \A v \in Urls \ {u} : task'[v] = task[v]
    BY <1>2 DEF HttpStep, FetchOk, FetchFails, FetchRaises, Leave, Goto, IInv, TypeOK
  <2>3. BrowserTypeOK' /\ LockHeld' /\ SlotsKept'
    BY <2>1 DEF BInv, browserVars, BrowserTypeOK, LockHeld, Launching, SlotsKept, InBrowser
  <2>4. FetchingInBrowser'
    BY <2>1, <2>2, BrowserAssumption DEF BInv, browserVars, FetchingInBrowser
  <2> QED
    BY <2>3, <2>4 DEF BInv
<1>3. CASE AfterFetch(u)
  <2>1. \A v \in Urls : task[v] = "fetching" => task'[v] = "fetching"
    BY <1>3 DEF AfterFetch, ParseOk, ParseFails, Push, PushRaises, Leave, Goto, IInv, TypeOK
  <2> QED
    BY <1>3, <2>1, CrawlStepKeeps DEF AfterFetch
<1> QED
  BY <1>1, <1>2, <1>3

LEMMA BrowserStepKeeps ==
    ASSUME IInv, BInv, NEW u \in Rendered, BrowserStep(u)
    PROVE  BInv'
<1> USE DEF BInv
<1>1. u \in Urls /\ u # NoOne /\ u # "aclose" /\ NoOne # "aclose"
  BY BrowserAssumption
<1>2. CASE TakeSlot(u)
  <2>1. Cardinality(InBrowser') = Cardinality(InBrowser) + 1
    BY <1>2, EnterPool DEF TakeSlot
  <2>2. BrowserTypeOK'
    BY <1>2 DEF TakeSlot, Show, BrowserTypeOK, PageStages
  <2>3. SlotsKept'
    BY <1>2, <2>1, InBrowserFinite, BrowserAssumption DEF TakeSlot, SlotsKept, BrowserTypeOK
  <2>4. LockHeld'
    BY <1>2 DEF TakeSlot, Show, BrowserTypeOK, LockHeld, Launching
  <2>5. FetchingInBrowser'
    BY <1>2 DEF TakeSlot, Show, vars, BrowserTypeOK, FetchingInBrowser
  <2> QED
    BY <2>2, <2>3, <2>4, <2>5
<1>3. CASE EnsureStarted(u)
  <2>1. InBrowser' = InBrowser
    BY <1>3, StayInPool DEF EnsureStarted, FindBrowser, FindNone, PageStages
  <2>2. BrowserTypeOK'
    BY <1>1, <1>3 DEF EnsureStarted, FindBrowser, FindNone, Show, BrowserTypeOK, PageStages
  <2>3. SlotsKept'
    BY <1>3, <2>1 DEF EnsureStarted, SlotsKept
  <2>4. LockHeld'
    <3>1. CASE FindBrowser(u)
      BY <1>1, <1>3, <3>1 DEF EnsureStarted, FindBrowser, Show, BrowserTypeOK, LockHeld, Launching
    <3>2. CASE FindNone(u)
      BY <1>1, <1>3, <3>2, BrowserAssumption
         DEF EnsureStarted, FindNone, Show, BrowserTypeOK, LockHeld, Launching
    <3> QED
      BY <1>3, <3>1, <3>2 DEF EnsureStarted
  <2>5. FetchingInBrowser'
    BY <1>3 DEF EnsureStarted, FindBrowser, FindNone, Show, vars, BrowserTypeOK, FetchingInBrowser
  <2> QED
    BY <2>2, <2>3, <2>4, <2>5
<1>4. CASE StartDriver(u) \/ LaunchBrowser(u)
  <2>1. InBrowser' = InBrowser
    BY <1>4, StayInPool DEF StartDriver, LaunchBrowser, PageStages
  <2>2. lock = u /\ browsers = 0
    BY <1>1, <1>4 DEF StartDriver, LaunchBrowser, LockHeld, Launching
  <2>3. BrowserTypeOK'
    BY <1>1, <1>4, <2>2 DEF StartDriver, LaunchBrowser, Show, BrowserTypeOK, PageStages
  <2>4. SlotsKept'
    BY <1>4, <2>1 DEF StartDriver, LaunchBrowser, SlotsKept
  <2>5. LockHeld'
    <3>1. CASE StartDriver(u)
      BY <1>1, <3>1, <2>2 DEF StartDriver, Show, BrowserTypeOK, LockHeld, Launching
    <3>2. CASE LaunchBrowser(u)
      BY <1>1, <3>2, <2>2, BrowserAssumption
         DEF LaunchBrowser, Show, BrowserTypeOK, LockHeld, Launching
    <3> QED
      BY <1>4, <3>1, <3>2
  <2>6. FetchingInBrowser'
    BY <1>4 DEF StartDriver, LaunchBrowser, Show, vars, BrowserTypeOK, FetchingInBrowser
  <2> QED
    BY <2>3, <2>4, <2>5, <2>6
<1>5. CASE Render(u) \/ RenderRaises(u)
  <2>1. LeaveBrowser(u) /\ page[u] # "none"
    BY <1>5 DEF Render, RenderRaises
  <2>2. Cardinality(InBrowser') = Cardinality(InBrowser) - 1
    BY <2>1, LeavePool DEF LeaveBrowser
  <2>3. \A v \in Urls \ {u} : task'[v] = task[v]
    BY <1>5 DEF Render, RenderRaises, FetchOk, FetchRaises, Leave, Goto, IInv, TypeOK
  <2>4. BrowserTypeOK'
    BY <1>1, <2>1 DEF LeaveBrowser, Show, BrowserTypeOK, PageStages
  <2>5. SlotsKept'
    BY <2>1, <2>2, InBrowserFinite, BrowserAssumption DEF LeaveBrowser, SlotsKept, BrowserTypeOK
  <2>6. LockHeld'
    BY <1>1, <2>1, BrowserAssumption DEF LeaveBrowser, Show, BrowserTypeOK, LockHeld, Launching
  <2>7. FetchingInBrowser'
    BY <2>1, <2>3, BrowserAssumption DEF LeaveBrowser, Show, BrowserTypeOK, FetchingInBrowser
  <2> QED
    BY <2>4, <2>5, <2>6, <2>7
<1> QED
  BY <1>2, <1>3, <1>4, <1>5 DEF BrowserStep

LEMMA CloseKeepsBrowser ==
    ASSUME BInv, AClose
    PROVE  BInv'
<1> USE DEF BInv
<1>1. InBrowser' = InBrowser
  BY DEF AClose, BeginClose, CloseBrowser, StopDriver, InBrowser
<1>2. SlotsKept' /\ FetchingInBrowser'
  BY <1>1 DEF AClose, BeginClose, CloseBrowser, StopDriver, vars, SlotsKept, FetchingInBrowser
<1>3. BrowserTypeOK'
  BY DEF AClose, BeginClose, CloseBrowser, StopDriver, BrowserTypeOK
<1>4. LockHeld'
  <2>1. CASE BeginClose
    BY <2>1, BrowserAssumption DEF BeginClose, BrowserTypeOK, LockHeld, Launching
  <2>2. CASE CloseBrowser
    BY <2>2, BrowserAssumption DEF CloseBrowser, BrowserTypeOK, LockHeld, Launching
  <2>3. CASE StopDriver
    BY <2>3, BrowserAssumption DEF StopDriver, BrowserTypeOK, LockHeld, Launching
  <2> QED
    BY <2>1, <2>2, <2>3 DEF AClose
<1> QED
  BY <1>2, <1>3, <1>4

LEMMA ProcessEndKeeps ==
    ASSUME ProcessEnds
    PROVE  BInv'
<1>1. InBrowser' = {}
  BY DEF ProcessEnds, InBrowser
<1>2. SlotsKept' /\ FetchingInBrowser'
  BY <1>1, FS_EmptySet, BrowserAssumption DEF ProcessEnds, SlotsKept, FetchingInBrowser
<1>3. BrowserTypeOK'
  BY BrowserAssumption DEF ProcessEnds, BrowserTypeOK, PageStages
<1>4. LockHeld'
  BY BrowserAssumption DEF ProcessEnds, LockHeld, Launching
<1> QED
  BY <1>2, <1>3, <1>4 DEF BInv

LEMMA BrowserNextKeeps == IInv /\ BInv /\ [BrowserNext]_allVars => BInv'
<1> SUFFICES ASSUME IInv, BInv, [BrowserNext]_allVars PROVE BInv'
  OBVIOUS
<1>1. CASE JobStep /\ UNCHANGED browserVars
  BY <1>1, JobStepKeepsBrowser
<1>2. CASE AClose
  BY <1>2, CloseKeepsBrowser
<1>3. CASE ProcessEnds
  BY <1>3, ProcessEndKeeps
<1>4. CASE \E u \in Urls : UrlStep(u)
  BY <1>4, UrlStepKeepsBrowser, BrowserStepKeeps DEF UrlStep, BrowserStep
<1>5. CASE UNCHANGED allVars
  BY <1>5, CrawlStepKeeps DEF allVars, vars
<1> QED
  BY <1>1, <1>2, <1>3, <1>4, <1>5 DEF BrowserNext

LEMMA BrowserInvariant == BrowserSpec => [](IInv /\ RaisedHasVerdict /\ BInv)
BY BrowserCrawlInvariant, BrowserInitHolds, BrowserNextKeeps, PTL DEF BrowserSpec

\* At any time there is one browser at most and no slot of the pool is lost.
THEOREM OnlyOneBrowser == BrowserSpec => []OneBrowser
<1>1. BInv => OneBrowser
  BY DEF BInv, BrowserTypeOK, LockHeld, Launching, SlotsKept, OneBrowser
<1> QED
  BY <1>1, BrowserInvariant, PTL

-----------------------------------------------------------------------------
(* What is left.  A driver that is not the one of the browser was left by  *)
(* a launch that failed, and so by a URL that raised.                      *)

Stray ==
    \/ leaked > 0
    \/ driver /\ browsers = 0 /\ shut # "driver" /\ \A u \in Rendered : page[u] # "launching"

StrayHasCulprit == Stray => \E u \in Rendered : Raised(u)

Clean == browsers = 0 /\ ~ driver /\ leaked = 0
Quiet == \A u \in Urls : ~ Running(u)

CancelledIsClean == (\E s \in Spiders : verdict[s] = "cancelled") => job = "over" /\ Quiet /\ Clean
DoneIsClean ==
    /\ shut # "no" => job = "over"
    /\ shut = "done" => Clean \/ \E s \in Spiders : verdict[s] = "raised"

Discovered == \A u \in Urls : task[u] # "absent" => \E s \in Spiders : u \in Feeds[s]

LInv == StrayHasCulprit /\ CancelledIsClean /\ DoneIsClean /\ Discovered

\* Once the job is over without the process being stopped, only a spider that
\* raised has tasks that run, or URLs that raised.
LEMMA OverIsExplained ==
    ASSUME IInv, RaisedHasVerdict, job = "over", NEW s \in Spiders, NEW u \in Feeds[s],
           Running(u) \/ Raised(u)
    PROVE  verdict[s] \in {"raised", "cancelled"}
BY DEF IInv, OrphansOnlyAfterFailure, RaisedHasVerdict

\* The job leaves the browser alone, and cannot go on once it is over.
LEMMA JobKeepsLeftovers ==
    ASSUME IInv, BInv, LInv, JobStep, UNCHANGED browserVars
    PROVE  LInv'
<1>1. job # "over"
  BY DEF JobStep, Boot, BootRaises, StartSpider, GatherReturns, GatherRaises, Close
<1>2. shut = "no" /\ \A s \in Spiders : verdict[s] # "cancelled"
  BY <1>1 DEF LInv, DoneIsClean, CancelledIsClean, BInv, BrowserTypeOK
<1>3. \A s \in Spiders : verdict'[s] # "cancelled"
  BY <1>2 DEF JobStep, Boot, BootRaises, StartSpider, GatherReturns, GatherRaises, NextSpider,
              Close, IInv, TypeOK
<1>4. Stray' = Stray /\ shut' = "no"
  BY <1>2 DEF browserVars, Stray
<1>5. \A u \in Rendered : Raised(u) => Raised(u)'
  BY RaisedStays, BrowserAssumption DEF Next
<1>6. Discovered'
  <2>1. CASE StartSpider
    BY <2>1, TurnIsSpider DEF LInv, Discovered, StartSpider, IInv
  <2> QED
    BY <2>1 DEF LInv, Discovered, JobStep, Boot, BootRaises, GatherReturns, GatherRaises,
                NextSpider, Close
<1> QED
  BY <1>3, <1>4, <1>5, <1>6 DEF LInv, StrayHasCulprit, CancelledIsClean, DoneIsClean

\* A step of a task that runs: it was discovered, and nothing has been cancelled.
LEMMA TaskKeepsLeftovers ==
    ASSUME IInv, RaisedHasVerdict, LInv, NEW u \in Urls, Running(u),
           UNCHANGED <<job, verdict, shut>>, StrayHasCulprit',
           \A v \in Urls : task'[v] # "absent" => v = u \/ task[v] # "absent"
    PROVE  LInv'
<1>1. PICK s \in Spiders : u \in Feeds[s]
  BY DEF LInv, Discovered, Running
<1>2. \A r \in Spiders : verdict[r] # "cancelled"
  BY DEF LInv, CancelledIsClean, Quiet
<1>3. CancelledIsClean'
  BY <1>2 DEF CancelledIsClean
<1>4. DoneIsClean'
  <2>1. shut # "no" => job = "over"
    BY DEF LInv, DoneIsClean
  <2>2. job = "over" => verdict[s] = "raised"
    BY <1>1, <1>2, OverIsExplained
  <2> QED
    BY <2>1, <2>2 DEF DoneIsClean
<1>5. Discovered'
  BY <1>1 DEF LInv, Discovered
<1> QED
  BY <1>3, <1>4, <1>5 DEF LInv

LEMMA UrlKeepsLeftovers ==
    ASSUME IInv, RaisedHasVerdict, BInv, LInv, NEW u \in Urls, UrlStep(u)
    PROVE  LInv'
<1>1. Running(u)
  <2>1. CASE Acquire(u) \/ HttpStep(u) \/ AfterFetch(u)
    BY <2>1 DEF Acquire, HttpStep, AfterFetch, FetchOk, FetchFails, FetchRaises, ParseOk,
                ParseFails, Push, PushRaises, Running
  <2>2. CASE BrowserStep(u)
    BY <2>2 DEF BrowserStep, TakeSlot, EnsureStarted, StartDriver, LaunchBrowser, Render,
                RenderRaises, BInv, FetchingInBrowser, Running
  <2> QED
    BY <2>1, <2>2 DEF UrlStep
<1>2. (Acquire(u) \/ TaskStep(u) \/ UNCHANGED vars) /\ [Next]_vars
  BY UrlStepIsCrawlStep DEF Next
<1>3. \A v \in Urls : Raised(v) => Raised(v)'
  BY <1>2, RaisedStays
<1>4. UNCHANGED <<job, verdict>>
  BY <1>2 DEF Acquire, TaskStep, FetchOk, FetchFails, FetchRaises, ParseOk, ParseFails, Push,
              PushRaises, jobs, vars
<1>5. \A v \in Urls : task'[v] # "absent" => v = u \/ task[v] # "absent"
  BY <1>2 DEF Acquire, TaskStep, FetchOk, FetchFails, FetchRaises, ParseOk, ParseFails, Push,
              PushRaises, Leave, Goto, vars, IInv, TypeOK
<1>6. shut' = shut /\ StrayHasCulprit'
  <2>1. CASE UNCHANGED browserVars
    <3>1. shut' = shut /\ Stray' = Stray
      BY <2>1 DEF browserVars, Stray
    <3> QED
      BY <3>1, <1>3, BrowserAssumption DEF LInv, StrayHasCulprit
  <2>2. CASE BrowserStep(u)
    <3>0. u \in Rendered
      BY <2>2 DEF BrowserStep
    <3>1. CASE TakeSlot(u) \/ EnsureStarted(u)
      <4>1. UNCHANGED <<leaked, driver, browsers, shut>>
        BY <3>1 DEF TakeSlot, EnsureStarted
      <4>2. \A v \in Rendered : page[v] = "launching" => page'[v] = "launching"
        BY <3>1 DEF TakeSlot, EnsureStarted, FindBrowser, FindNone, Show, BInv, BrowserTypeOK
      <4> QED
        BY <4>1, <4>2, <1>3, BrowserAssumption DEF LInv, StrayHasCulprit, Stray
    <3>2. CASE StartDriver(u)
      <4>1. page'[u] = "launching" /\ shut' = shut
        BY <3>0, <3>2 DEF StartDriver, Show, BInv, BrowserTypeOK
      <4>2. lock = u /\ browsers = 0 /\ shut # "driver"
        BY <3>0, <3>2, BrowserAssumption DEF StartDriver, BInv, BrowserTypeOK, LockHeld, Launching
      <4>3. \A v \in Rendered : page[v] # "launching"
        BY <3>0, <3>2, <4>2 DEF StartDriver, BInv, LockHeld, Launching
      <4>4. leaked' > 0 => leaked > 0 \/ driver
        BY <3>2 DEF StartDriver
      <4>5. Stray' => Stray
        BY <3>0, <4>1, <4>2, <4>3, <4>4 DEF Stray
      <4> QED
        BY <4>1, <4>5, <1>3, BrowserAssumption DEF LInv, StrayHasCulprit
    <3>3. CASE LaunchBrowser(u)
      <4>1. browsers' # 0 /\ UNCHANGED <<leaked, shut>>
        BY <3>3 DEF LaunchBrowser, BInv, BrowserTypeOK
      <4> QED
        BY <4>1, <1>3, BrowserAssumption DEF LInv, StrayHasCulprit, Stray
    <3>4. CASE Render(u)
      <4>1. UNCHANGED <<leaked, driver, browsers, shut>>
        BY <3>4 DEF Render, LeaveBrowser
      <4>2. \A v \in Rendered : page[v] = "launching" => page'[v] = "launching"
        BY <3>4 DEF Render, LeaveBrowser, Show, BInv, BrowserTypeOK
      <4> QED
        BY <4>1, <4>2, <1>3, BrowserAssumption DEF LInv, StrayHasCulprit, Stray
    <3>5. CASE RenderRaises(u)
      <4>1. Raised(u)' /\ shut' = shut
        BY <3>5 DEF RenderRaises, FetchRaises, Leave, LeaveBrowser, Raised, IInv, TypeOK
      <4> QED
        BY <3>0, <4>1 DEF StrayHasCulprit
    <3> QED
      BY <2>2, <3>1, <3>2, <3>3, <3>4, <3>5 DEF BrowserStep
  <2> QED
    BY <2>1, <2>2 DEF UrlStep, HttpStep, AfterFetch
<1> QED
  BY <1>1, <1>4, <1>5, <1>6, TaskKeepsLeftovers

LEMMA CloseKeepsLeftovers ==
    ASSUME IInv, RaisedHasVerdict, BInv, LInv, AClose
    PROVE  LInv'
<1>1. UNCHANGED vars /\ page' = page /\ leaked' = leaked
  BY DEF AClose, BeginClose, CloseBrowser, StopDriver
<1>2. job = "over"
  BY DEF AClose, BeginClose, CloseBrowser, StopDriver, LInv, DoneIsClean
<1>3. Quiet' = Quiet /\ Discovered' = Discovered
  BY <1>1 DEF vars, Quiet, Running, Discovered
<1>4. Stray' => Stray
  BY <1>1 DEF AClose, BeginClose, CloseBrowser, StopDriver, Stray
<1>5. StrayHasCulprit'
  BY <1>1, <1>4 DEF LInv, StrayHasCulprit, Raised, vars
<1>6. Clean => Clean'
  BY DEF AClose, BeginClose, CloseBrowser, StopDriver, Clean
<1>7. CancelledIsClean'
  BY <1>1, <1>3, <1>6 DEF LInv, CancelledIsClean, vars
<1>8. DoneIsClean'
  <2>1. CASE StopDriver
    <3>1. browsers' = 0 /\ ~ driver'
      BY <2>1 DEF StopDriver, BInv, LockHeld
    <3>2. CASE leaked = 0
      BY <1>1, <1>2, <3>1, <3>2 DEF DoneIsClean, Clean, vars
    <3>3. CASE leaked # 0
      <4>1. PICK u \in Rendered : Raised(u)
        BY <3>3 DEF LInv, StrayHasCulprit, Stray, BInv, BrowserTypeOK
      <4>2. PICK s \in Spiders : u \in Feeds[s]
        BY <4>1, BrowserAssumption DEF LInv, Discovered, IInv, EndedHasOutcome, Raised
      <4>3. verdict[s] \in {"raised", "cancelled"}
        BY <1>2, <4>1, <4>2, OverIsExplained
      <4>4. verdict[s] # "cancelled"
        BY <3>3 DEF LInv, CancelledIsClean, Clean
      <4> QED
        BY <1>1, <1>2, <4>3, <4>4 DEF DoneIsClean, vars
    <3> QED
      BY <3>2, <3>3
  <2>2. CASE BeginClose \/ CloseBrowser
    BY <1>1, <1>2, <2>2 DEF BeginClose, CloseBrowser, DoneIsClean, vars
  <2> QED
    BY <2>1, <2>2 DEF AClose
<1> QED
  BY <1>3, <1>5, <1>7, <1>8 DEF LInv

LEMMA EndKeepsLeftovers ==
    ASSUME IInv, LInv, ProcessEnds
    PROVE  LInv'
<1>1. Clean' /\ job' = "over"
  BY DEF ProcessEnds, LoopCloses, Clean
<1>2. Quiet' /\ Discovered'
  BY DEF ProcessEnds, LoopCloses, Quiet, Running, LInv, Discovered
<1>3. ~ Stray'
  BY DEF ProcessEnds, Stray
<1> QED
  BY <1>1, <1>2, <1>3 DEF LInv, StrayHasCulprit, CancelledIsClean, DoneIsClean

LEMMA LeftoversKept ==
    IInv /\ RaisedHasVerdict /\ BInv /\ LInv /\ [BrowserNext]_allVars => LInv'
<1> SUFFICES ASSUME IInv, RaisedHasVerdict, BInv, LInv, [BrowserNext]_allVars PROVE LInv'
  OBVIOUS
<1>1. CASE UNCHANGED allVars
  BY <1>1 DEF allVars, vars, browserVars, LInv, StrayHasCulprit, Stray, Raised, CancelledIsClean,
              DoneIsClean, Discovered, Quiet, Running, Clean
<1> QED
  BY <1>1, JobKeepsLeftovers, CloseKeepsLeftovers, EndKeepsLeftovers, UrlKeepsLeftovers
     DEF BrowserNext

\* A browser or a driver that outlives the crawl was left by a spider that failed.
THEOREM LeftoversExplained == BrowserSpec => []LeftoverHasCause
<1>1. BrowserInit => LInv
  BY DEF BrowserInit, Init, LInv, StrayHasCulprit, Stray, CancelledIsClean, DoneIsClean, Discovered
<1>2. LInv => LeftoverHasCause
  BY DEF LInv, DoneIsClean, Clean, LeftoverHasCause
<1> QED
  BY <1>1, <1>2, BrowserInvariant, LeftoversKept, PTL DEF BrowserSpec

=============================================================================
