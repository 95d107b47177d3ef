------------------------------- MODULE Crawl -------------------------------
(***************************************************************************)
(* A crawl: run_all_spiders_job in the worker, or run_single_spider behind *)
(* `pem scrape'.  The job takes one spider after the other; run_spider     *)
(* makes a task per discovered URL, all of which compete for the slots of  *)
(* the orchestrator's semaphore, and gathers them.  gather raises the      *)
(* first exception of a task at once and leaves the other tasks running:   *)
(* orphans, which keep their slots while the next spider runs and even     *)
(* after the HTTP client is closed.                                        *)
(*                                                                         *)
(* What a task does with the items of a response is EditalPipeline; what a *)
(* fetch does with its host is HttpFetch, and with the browser the pages   *)
(* of BrowserCrawl.                                                        *)
(***************************************************************************)
EXTENDS Integers, Sequences, FiniteSets

CONSTANTS
    Urls,          \* the URLs the spiders discover
    Rendered,      \* those of spiders with use_playwright, which bypass HttpClient
    Feeds,         \* SPIDER_REGISTRY: the URLs of each spider, in its order
    Concurrency    \* slots of the semaphore

Spiders == 1 .. Len(Feeds)

ASSUME CrawlAssumption ==
    /\ IsFiniteSet(Urls)
    /\ Feeds \in Seq(SUBSET Urls)
    /\ \A s, t \in Spiders : s # t => Feeds[s] \cap Feeds[t] = {}
    /\ Concurrency \in Nat \ {0}

VARIABLES
    oneshot,   \* run by the command line, whose event loop closes at the end
    job,       \* where the job stands
    turn,      \* the spider whose turn it is
    last,      \* the last spider of this job
    verdict,   \* how run_spider ended, by spider
    closed,    \* http.aclose has run
    task,      \* where the task of each URL stands
    outcome,   \* how it ended
    permits,   \* free slots
    dlq        \* URLs with an entry in pem:dlq

plan == <<oneshot, last>>
jobs == <<oneshot, job, turn, last, verdict, closed>>
vars == <<oneshot, job, turn, last, verdict, closed, task, outcome, permits, dlq>>

Jobs     == {"boot", "next", "gather", "over"}
Stages   == {"absent", "waiting", "fetching", "parsing", "pushing", "ended"}
Outcomes == {"none", "processed", "dead", "raised", "unpushed", "cancelled"}

Init ==
    /\ oneshot \in BOOLEAN
    /\ job = "boot"
    /\ IF oneshot THEN turn \in Spiders /\ last = turn ELSE turn = 1 /\ last = Len(Feeds)
    /\ verdict = [s \in Spiders |-> "none"]
    /\ closed = FALSE
    /\ task = [u \in Urls |-> "absent"]
    /\ outcome = [u \in Urls |-> "none"]
    /\ permits = Concurrency
    /\ dlq = {}

-----------------------------------------------------------------------------
(* The job                                                                 *)

\* The whitelist is read, and refreshed when it is empty.
Boot ==
    /\ job = "boot"
    /\ job' = "next"
    /\ UNCHANGED <<plan, turn, verdict, closed, task, outcome, permits, dlq>>

BootRaises ==
    /\ job = "boot"
    /\ job' = "over"
    /\ UNCHANGED <<plan, turn, verdict, closed, task, outcome, permits, dlq>>

\* run_spider: one task per URL of discover_urls.
StartSpider ==
    /\ job = "next"
    /\ turn <= last
    /\ job' = "gather"
    /\ task' = [u \in Urls |-> IF u \in Feeds[turn] THEN "waiting" ELSE task[u]]
    /\ UNCHANGED <<plan, turn, verdict, closed, outcome, permits, dlq>>

Raised(u) == outcome[u] \in {"raised", "unpushed"}

NextSpider(how) ==
    /\ verdict' = [verdict EXCEPT ![turn] = how]
    /\ turn' = turn + 1
    /\ job' = "next"
    /\ UNCHANGED <<plan, closed, task, outcome, permits, dlq>>

\* gather(return_exceptions=True), and a wait for the first task only.
GatherIgnoring ==
    /\ job = "gather"
    /\ \A u \in Feeds[turn] : task[u] = "ended"
    /\ NextSpider("returned")

GatherFirst ==
    /\ job = "gather"
    /\ \E u \in Feeds[turn] : outcome[u] \in {"processed", "dead"}
    /\ NextSpider("returned")

GatherReturns ==
    /\ job = "gather"
    /\ \A u \in Feeds[turn] : outcome[u] \in {"processed", "dead"}
    /\ NextSpider("returned")

\* run_all_spiders_job logs it and goes on; run_single_spider lets it pass.
GatherRaises ==
    /\ job = "gather"
    /\ \E u \in Feeds[turn] : Raised(u)
    /\ NextSpider("raised")

Close ==
    /\ job = "next"
    /\ turn > last
    /\ job' = "over"
    /\ closed' = TRUE
    /\ UNCHANGED <<plan, turn, verdict, task, outcome, permits, dlq>>

\* asyncio.run cancels what is left: at the end of the command, or at any time
\* when the process is told to stop.
LoopCloses ==
    /\ job # "over" \/ (oneshot /\ \E u \in Urls : task[u] \notin {"absent", "ended"})
    /\ job' = "over"
    /\ closed' = TRUE
    /\ verdict' = IF job = "gather" THEN [verdict EXCEPT ![turn] = "cancelled"] ELSE verdict
    /\ task' = [u \in Urls |-> IF task[u] = "absent" THEN "absent" ELSE "ended"]
    /\ outcome' = [u \in Urls |->
                     IF task[u] \in {"absent", "ended"} THEN outcome[u] ELSE "cancelled"]
    /\ permits' = Concurrency
    /\ UNCHANGED <<plan, turn, dlq>>

-----------------------------------------------------------------------------
(* _process_url                                                            *)

Goto(u, stage) == task' = [task EXCEPT ![u] = stage]

AcquireUnchecked(u) ==
    /\ task[u] = "waiting"
    /\ permits' = permits - 1
    /\ Goto(u, "fetching")
    /\ UNCHANGED <<jobs, outcome, dlq>>

Acquire(u) ==
    /\ task[u] = "waiting"
    /\ permits > 0
    /\ permits' = permits - 1
    /\ Goto(u, "fetching")
    /\ UNCHANGED <<jobs, outcome, dlq>>

\* The end of the `async with', by a return or by an exception.
LeaveHoldingSlot(u, how) ==
    /\ Goto(u, "ended")
    /\ outcome' = [outcome EXCEPT ![u] = how]
    /\ permits' = IF how \in {"raised", "unpushed"} THEN permits ELSE permits + 1

Leave(u, how) ==
    /\ Goto(u, "ended")
    /\ outcome' = [outcome EXCEPT ![u] = how]
    /\ permits' = permits + 1

FetchOk(u) ==
    /\ task[u] = "fetching"
    /\ closed => u \in Rendered
    /\ Goto(u, "parsing")
    /\ UNCHANGED <<jobs, outcome, permits, dlq>>

\* A ScrapingError: robots.txt, an open circuit, a 429, a broken contract.  The
\* browser's path meets none of them.
FetchFails(u) ==
    /\ task[u] = "fetching"
    /\ u \notin Rendered
    /\ Goto(u, "pushing")
    /\ UNCHANGED <<jobs, outcome, permits, dlq>>

\* Any other exception: an httpx error, a closed client, Redis.
FetchRaises(u) ==
    /\ task[u] = "fetching"
    /\ Leave(u, "raised")
    /\ UNCHANGED <<jobs, dlq>>

ParseOk(u) ==
    /\ task[u] = "parsing"
    /\ Leave(u, "processed")
    /\ UNCHANGED <<jobs, dlq>>

ParseFails(u) ==
    /\ task[u] = "parsing"
    /\ Goto(u, "pushing")
    /\ UNCHANGED <<jobs, outcome, permits, dlq>>

\* DeadLetterQueue.push
Push(u) ==
    /\ task[u] = "pushing"
    /\ dlq' = dlq \cup {u}
    /\ Leave(u, "dead")
    /\ UNCHANGED jobs

PushRaises(u) ==
    /\ task[u] = "pushing"
    /\ Leave(u, "unpushed")
    /\ UNCHANGED <<jobs, dlq>>

-----------------------------------------------------------------------------
JobStep == Boot \/ BootRaises \/ StartSpider \/ GatherReturns \/ GatherRaises \/ Close

TaskStep(u) ==
    \/ FetchOk(u)
    \/ FetchFails(u)
    \/ FetchRaises(u)
    \/ ParseOk(u)
    \/ ParseFails(u)
    \/ Push(u)
    \/ PushRaises(u)

Next ==
    \/ JobStep
    \/ LoopCloses
    \/ \E u \in Urls : Acquire(u) \/ TaskStep(u)

Spec == Init /\ [][Next]_vars

\* The event loop runs what is ready, and fetches and parsers end (HttpFetch,
\* EditalPipeline).  A slot goes to each task once, so that one which waits finds it
\* free for good in the end.
FairSpec ==
    /\ Spec
    /\ WF_vars(JobStep)
    /\ \A u \in Urls : WF_vars(Acquire(u) \/ TaskStep(u))

-----------------------------------------------------------------------------
Running(u) == task[u] \in {"waiting", "fetching", "parsing", "pushing"}
Holders    == {u \in Urls : task[u] \in {"fetching", "parsing", "pushing"}}

TypeOK ==
    /\ oneshot \in BOOLEAN
    /\ job \in Jobs
    /\ last \in 0 .. Len(Feeds)
    /\ turn \in 1 .. last + 1
    /\ verdict \in [Spiders -> {"none", "returned", "raised", "cancelled"}]
    /\ closed \in BOOLEAN
    /\ task \in [Urls -> Stages]
    /\ outcome \in [Urls -> Outcomes]
    /\ permits \in 0 .. Concurrency
    /\ dlq \in SUBSET Urls

(***************************************************************************)
(* No slot is lost or made on any way out of _process_url, cancellation    *)
(* and exceptions included, although orphans of one spider share the       *)
(* semaphore with the tasks of the next (orchestrator.py:100).             *)
(***************************************************************************)
SlotsConserved == permits + Cardinality(Holders) = Concurrency

(***************************************************************************)
(* When run_spider returns, and its statistics are logged as the run's,    *)
(* every URL it discovered was processed or has a dead letter              *)
(* (orchestrator.py:82-94); none is still running or failed unseen.        *)
(***************************************************************************)
ReturnedIsComplete ==
    \A s \in Spiders : verdict[s] = "returned" =>
        \A u \in Feeds[s] : outcome[u] = "processed" \/ (outcome[u] = "dead" /\ u \in dlq)

(***************************************************************************)
(* jobs.py:59, spiders run in sequence, as far as the code keeps it: a     *)
(* task outlives the turn of its spider only when run_spider raised.       *)
(***************************************************************************)
OrphansOnlyAfterFailure ==
    \A s \in Spiders : \A u \in Feeds[s] :
        Running(u) => (job = "gather" /\ s = turn) \/ verdict[s] = "raised"

(***************************************************************************)
(* The job and every task it made come to an end: an exception costs       *)
(* neither the spiders after it nor the URLs beside it their turn.         *)
(***************************************************************************)
CrawlEnds == <> (job = "over" /\ \A u \in Urls : ~ Running(u))

(***************************************************************************)
(* A spider is reported as failed (jobs.py:84-87) only if one of its tasks *)
(* raised, and once one has, nothing but the stop of the process keeps     *)
(* that from being reported, however its siblings end.  It is the spider   *)
(* that is reported: gather passes on the first exception alone, those of  *)
(* the orphans are dropped unlogged.                                       *)
(***************************************************************************)
FailedSpiderIsReported ==
    \A s \in Spiders :
        /\ verdict[s] = "raised" => \E u \in Feeds[s] : Raised(u)
        /\ (\E u \in Feeds[s] : Raised(u)) =>
              (job = "gather" /\ s = turn) \/ verdict[s] \in {"raised", "cancelled"}

(***************************************************************************)
(* ARCHITECTURE.md:117, errors go to the dead-letter queue: as long as     *)
(* Redis takes the entry, a URL that failed has one.  An httpx error is no *)
(* ScrapingError and passes by the handler of _process_url.                *)
(***************************************************************************)
FailedUrlHasDeadLetter == \A u \in Urls : outcome[u] = "raised" => u \in dlq
=============================================================================
