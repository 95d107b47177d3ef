# Verification of pos-editais-monitor

Formal models (TLA+), model-checking configurations (TLC) and machine-checked
proofs (TLAPS) of the parts of `pos-editais-monitor` whose correctness depends
on the order of things: several coroutines and processes, one database, one
Redis, failing hosts, clocks and restarts. Paths below are relative to the
repository; `P/` stands for `src/pos_editais_monitor/`.

    tlc -workers 2 -config MCCrawl.cfg MCCrawl     # a run
    tlapm CrawlProofs.tla                          # a proof

## 1. The system

A worker process runs three cron jobs on one asyncio loop: the refresh of the
e-MEC institutions (00:00), the crawl of all spiders (04:00) and the digest
(07:00). The same jobs can be started by hand (`pem scrape`, `pem
dispatch-digest`, `pem refresh-emec`) in another process, beside the worker.
PostgreSQL and Redis are all that processes share.

| Component | State | Operations | Interacts with | Hard behaviour | Correct when |
|---|---|---|---|---|---|
| Crawl jobs (`P/scheduling/jobs.py`, `P/cli/commands.py`, `run_spider` in `P/pipeline/orchestrator.py`) | tasks, semaphore, `pem:dlq` | start spider, gather, close | HTTP client, pipeline, Redis | first exception of a gather, orphans, cancellation | a run that returns has accounted for its URLs, a spider that failed is reported, no slot is lost, the job ends |
| HTTP client (`P/scraping/clients/http_client.py`, middlewares) | circuit per host, cached robots.txt | fetch, retry | hosts, rate limiter | check before an await, act after it | circuit opens on bursts and stays open, robots.txt is obeyed |
| Rate limiter (`.../rate_limiter.py`) | token bucket in Redis | acquire | HTTP client, other workers | separate clocks, an await between clock and script, sleep and ask again | what a stretch of time lets through exceeds the bucket and its yield by what its late scripts explain, a sleep is long enough |
| Pipeline (`P/pipeline/orchestrator.py`) and repositories | tables `editais`, `match_records`, sessions | process an item | PostgreSQL, other scrapers | stale reads, unique indexes, row locks, values too long for a column, rollback, crash | an edital and its matches are stored together, exactly once |
| Change detection (`P/dedup/`) | none | canonical hash, simhash, classify | pipeline | signed and unsigned words | a cosmetic change is not announced, a material one is |
| Digest (`dispatch_digest_job`, `P/notifications/`) | `notified` marks, open transaction | read pending, send, mark | SMTP, Telegram, pipeline | effects outside the transaction, a digest cut off, 24-hour window | what is marked was delivered or cut off, every channel tried it, duplicates have a reason |
| e-MEC whitelist (`P/infrastructure/emec/`, tables `ies`, `subscribers`, `fontes`) | institutions, captured whitelist | refresh, seed, lookup | crawl, matching | refreshes that race, changes sent late, a whitelist captured per run | a refresh is all or nothing and sticks, the gate opens only for listed institutions |
| Parsers, LLM, classifier, match engine (`P/parsers/fields/`, `P/parsers/pdf/llm_fallback.py`, `P/classification/`, `P/matching/`) | none | parse, enrich, score | pipeline | one bad item, answers that differ from run to run | lost items leave a letter unless its push raises or the process stops, a match fits its row, a page keeps its key |
| Playwright client (`.../playwright_client.py`) | browser, driver, lock, contexts | render, close | crawl | lazy start, orphans that start it again | one browser at a time, none left over without a failure |
| HTTP API (`P/api/`) | none | list, get | `editais` | pages cut by offset from a list that grows | an undisturbed walk shows each edital once |
| Object store, snapshots | files | save | nothing | | (not modelled: called by no job) |

## 2. The modules

| Module | Models | Composed of |
|---|---|---|
| `Sifting` | the filter of a list comprehension, by a set: one operator | |
| `Simhash` | Hamming distance and the signed representation of a word, at any width | |
| `EditalCatalog` | abstract: the catalog changes by indivisible `Store` and `Revise` steps | |
| `EditalPipeline` | `_process_url` and `_process_parsed` of several scrapers over PostgreSQL | EXTENDS `Simhash`, implements `EditalCatalog` |
| `DigestDispatch` | `dispatch_digest_job` of several dispatchers, the channels, the marks | |
| `HttpFetch` | `HttpClient.fetch`, `CircuitBreaker`, `RobotsChecker` for one host | |
| `RateLimiter` | the Lua token bucket and its callers | |
| `Crawl` | the crawl job, `run_spider`, its tasks and semaphore, the end of the loop | uses what `HttpFetch` and `EditalPipeline` say a task does |
| `BrowserCrawl` | `PlaywrightClient` under the tasks of a crawl | EXTENDS `Crawl`, implements it |
| `EmecGate` | the refresh of the institutions, `pem seed`, the whitelist of a crawl | |
| `FeedParsing` | `PPGWordPressSpider` on a response, the LLM's answer, the canonical hash: operators only | |
| `MatchRules` | the classifier, the lookup of an institution, the whitelist, the score: operators only | |
| `ItemReading` | feeds and items of one spider, from the response to the row and its matches | EXTENDS `FeedParsing`, `MatchRules` |
| `EditalListing` | `GET /v1/editais` beside `ItemReading` | EXTENDS `ItemReading` |
| `EditalPipelineProofs`, `DigestDispatchProofs`, `CrawlProofs` (of `BrowserCrawl` too), `HttpFetchProofs`, `RateLimiterProofs`, `EmecGateProofs`, `ItemReadingProofs` (of `EditalListing` too), `SiftingProofs` | theorems and proofs | EXTEND their component |
| `MC...` | instances for TLC | EXTEND their component |

In several modules a definition such as `ClassifyStrict` or `GatherFirst` stands
before the one that models the code. It is not used by the specification: it is
a plausible mistake (a dropped guard, an off-by-one), and the property it is
paired with in `PROJECT.json` fails when it takes the place of the real one.
Variables marked *history* record what happened and influence nothing.

### EditalPipeline

One process per slot of `Semaphore(4)`, of the worker or of another process.
`pc` names the await it stands at; `tx` is its session:

| Code | Actions |
|---|---|
| `spider.fetch` | `FetchSucceeds`, `FetchFails` (a `ScrapingError`) |
| `async for parsed in spider.parse_response` | `NextItem`, `FeedEnds`, `ParserRaises` |
| `get_by_canonical_hash` + `ChangeDetector.classify` | `SelectExisting` |
| `EditalRepository.upsert` | `UpsertFinds`; `UpsertMisses` then `InsertEdital` or `InsertFails` |
| `list_ativos` + `MatchEngine.evaluate` | `ListAtivos` |
| `MatchRepository.add` (which flushes) | `AddMatch`, `AddMatchFails` |
| `session.commit()` in `get_session` | `Commit`, `CommitFails`, `CommitUnacknowledged` |
| `except Exception` | `Fail`, then `DeadLetter` |

PostgreSQL (READ COMMITTED) is modelled as the code uses it: an INSERT waits
for an uncommitted row of the same unique key and fails if it is committed; an
UPDATE waits for the row lock; a cycle of waits is cancelled by a victim. The
session sends a changed row only at the next flush or at the commit, so a
value that does not fit its column is found there (`Overflows`), as with the
driver. An item is a hash, a simhash and the attributes a match depends on: what
the parser, the LLM and the classifier made of the page is an input. Nothing cuts
a title or checks what the LLM answers before the INSERT, and a title, an address
or a number may be more than its column takes: `oversize` names such a column of
an item, `titulo` for those only an INSERT writes and `url_pdf` for the one that
an UPDATE writes as well, and `ColumnsTake` refuses it.

`EditalCatalog` is what the transactions are meant to be: in one step an edital
is stored with a match for each of some accepted subscribers, or the
fingerprint of a stored one is revised. `ImplementsCatalog` (`INSTANCE
EditalCatalog`) shows that the code is that, for the committed tables.

### DigestDispatch

`ListAtivos`, then per subscriber `ReadPending`, `Send` per channel (a channel
reports an error of its server instead of raising it, and may report a failure of
what was delivered), `MarkNotified` or `NothingToMark`, and `CommitRun` at the end:
one transaction for the whole run. A mail carries the whole digest; Telegram takes
the first 4000 characters of it, best scores first, so it may carry any of the
matches down to some score (`Portions`). The history `fate` keeps, per match and
channel, the best that came of it: `none`, `failed`, `cut`, `sent`, `again`.
`RunAborts` and `DeadlockVictim` roll it back. The pipeline appears as the
opening, the commit and the rollback of the transaction that makes a match;
`created_at` is the time at which it began (`now()` of PostgreSQL).

### HttpFetch and RateLimiter

`HttpFetch` has one circuit and one cached robots.txt, shared by the fetches a
process has in flight. Each await is a step: the check of the circuit, the
request for robots.txt and its answer, the rate limiter (a wait of any length
there), each attempt. A response that is not retried, 403 and 404 included, is a
success for the circuit; a 429 is retried and never counted; a 408, 425 or 5xx
ends the fetch at once and is counted; a transport error is retried and counted
when the attempts are spent.

`RateLimiter` separates the reading of the caller's clock from the script, which
Redis runs atomically, and the sleep from the next attempt. Time is in ticks and
tokens in parts, so that fractional rates stay exact. Between reading and script
any time and any other script may pass, as the await allows, and each caller's
clock may be up to `MaxSkew` ahead (`Skew`). `Lag` is how far behind the fastest
clock a reading is when its script runs, and the history `late` sums it up. The
script writes the reading of its caller as the time of the bucket even where that
takes the time back. One token is taken per
fetch: retries and robots.txt take none, hence the bound is on fetches, not on
requests.

### Crawl

The job takes the spiders in turn (`StartSpider`, `GatherReturns` or
`GatherRaises`, `Close`); the choice between the worker, which takes all
spiders, and `pem scrape`, which takes one and closes its loop at the end, is
made in `Init`. Tasks wait for a slot (`Acquire`), fetch, parse, push a dead
letter, and leave the `async with` in one of five ways. `LoopCloses` is the
cancellation of everything left, at the end of a command or at any time when the
process is told to stop. `Rendered` is the set of URLs whose spider sets
`use_playwright`: their fetch knows neither `HttpClient` nor a `ScrapingError`.

### BrowserCrawl

A rendered fetch takes a context (`TakeSlot`), enters `_ensure_started` under the
lock, where it finds a browser or starts the driver and launches one
(`EnsureStarted`, `StartDriver`, `LaunchBrowser`), renders or raises, and gives
everything back (`LeaveBrowser`). `aclose` runs after the last spider
(`BeginClose`, `CloseBrowser`, `StopDriver`), beside the orphans. None of the
registered spiders sets the flag today; the client is built and closed by every
crawl. That `browser.close` or `stop` raise is not modelled.

### EmecGate

A process runs a `refresh`, a `crawl`, a `scrape` or a `seed`. The first two
upsert the lines of `data/emec_seed.json` (any of `SeedFiles`, which a deployment
may exchange; missing when empty), `seed` those of `seed_initial_data`. Per line
`UpsertFindsRow` or `UpsertFindsNone` with `InsertRow` or `InsertRefused`, then
`CommitBatch`. The session has no autoflush and sends only columns whose value
differs from what it has read: `dirty` is what it has still to send, `sent` what
it has (and the rows it has locked), both by column, so that two refreshes can
mix their columns. `BuildWhitelist` is the capture, at the start of a job and,
for the worker's crawl, once more after the refresh an empty one forces.

### FeedParsing, MatchRules, ItemReading, EditalListing

A text is a sequence of words; of these the regular expressions of the code see
levels, modalities, keywords and dates. `FeedParsing` gives for a response the
items `parse_response` yields, for an item and an answer what `enrich` makes of
it, and the key; `MatchRules` the area, the institution and the match.
`ItemReading` runs them over a few feeds and keeps the tables: each item is one
transaction there, since the interleaving of several is the subject of
`EditalPipeline`. An exception anywhere in an item (`ItemRaises`, `EnrichItem`
with an answer that raises, `IesIsAmbiguous`, `UpdateItem` against the unique
index, `StatementRaises` for whatever else the database refuses) is `GiveUp`: the
rest of the feed is dropped and a letter pushed, whose push may raise in its turn
(`Handled`). `Stopped` is the death of the process or the cancellation of the task,
where no handler runs; a commit that is not acknowledged stores the item and is
handled as its failure (`Done`). The history `mishap` remembers which of these a
feed met. The key takes the institution normalised, as the code does (`AsciiName`).
`EditalListing` adds a client that walks the pages of `GET /v1/editais`: one
transaction with two statements per page (`CountRows`, `ReadPage`), between which
feeds are read and `Midnight` passes.

## 3. The runs

| Run | Instance | Shows |
|---|---|---|
| `pipeline` | 2 fair scrapers, 1 edital with 3 drafts, 2 subscribers, 3-bit simhashes | `TypeOK`, `SessionConsistent`, `MatchSetExact`, `ImplementsCatalog`, `FirstScrapeAccepted`, `RunEnds` |
| `pipeline_cosmetic`, `pipeline_update` | 1 scraper | a cosmetic re-scrape and a material update that are rolled back (section 6) |
| `digest` | 2 dispatchers, 2 matches of one subscriber, both channels | `TypeOK`, `RunHonest`, `SingleCarrier`, `NotifiedWasDelivered`, `DuplicateHasCause` |
| `digest_ends` | 2 fair dispatchers, 2 subscribers | `RunEnds` |
| `digest_lost` | 1 dispatcher, a clock of three days | a failed digest that is never sent (section 6) |
| `http` | 2 fetches, threshold 2, window 1, cooldown 2, clock to 4 | `TypeOK`, `ClosedMeansQuiet`, `OpensOnBurst`, `CooldownHonoured`, `RobotsObeyed`, `FetchEnds` |
| `rate` | 2 callers, one with a clock a tick ahead, 2/3 of a token per tick, bucket of 2 | `TypeOK`, `BucketBound`, `WaitSuffices` |
| `crawl` | a spider of 4 URLs and one of 1, 3 slots, 3 rendered URLs and 2 contexts, both shells | `TypeOK`, `SlotsConserved`, `ReturnedIsComplete`, `OrphansOnlyAfterFailure`, `FailedSpiderIsReported`, `OneBrowser`, `LeftoverHasCause`, `CrawlEnds` |
| `crawl_letters` | 2 spiders of 1 URL | an httpx error without dead letter (section 6) |
| `gate` | 2 fair processes, 3 institutions, 3 versions of the file, 1 row of `pem seed` | `GateTypeOK`, `RefreshAllOrNothing`, `EmptyCrawlHasCause`, `EligibleWasListed`, `RefreshSticks`, `JobsEnd` |
| `reading` | 2 feeds out of 5 responses, 5 answers of the LLM, 2 institutions, 2 subscribers, pages of 1 | `ReadingTypeOK`, `LossLeavesTrace`, `MatchJustified`, `AnnouncedTwiceHasCause`, `QuietWalkCovers` |

**Bounds.** Two scrapers suffice for every race on an edital: the unique index
and the row lock relate two transactions at a time, and each scraper starts over
without end, so any sequence of transactions of two processes occurs although a
feed holds one item there (`FeedLen`; the two single-scraper runs have feeds of
two, which is where the rest of a feed is dropped). Of the three drafts two are
material changes of each other, one of them with a title too long for an INSERT, and
the third has the sign bit and is a cosmetic change of the one and a material change
of the other. An address too long for its column, which an update meets too, is left
to the proofs. The two single-scraper
runs have a chain of cosmetic steps to a sign bit. `Near = 1` stands for the 3 bits of the
code. The clock of the digest needs one tick to leave the window (`Window = 0` or `1`). The circuit needs a burst, a cooldown
and a second burst: five instants. The bucket holds two requests; in
`rate` the clock runs past the expiry and for more than two refills, and a script
may be late by all of it. Four URLs over three slots make a task
wait while siblings fail, and the fifth belongs to the next spider; two contexts
are fewer than the rendered URLs that want one. Two refreshes over files that
list two new institutions in opposite orders are the smallest deadlock on keys,
the third institution is never eligible. Two feeds are a page and its next
version; the responses hold an accent that changes, a text that changes its area,
dates the wrong way round, one date only, a title without keyword and the same
link twice. All bounds are constants named in the modules: `FeedLen`, `MaxTime`,
`MaxFeeds`, `MaxWalks`, `Limit`, and `again` ("twice or more") in the history
`fate`.

**Deadlock.** It is checked except in `rate` and `reading`, where the bounds stop
the system, and in `crawl`, where the job is over.

**Fairness.** `EditalPipeline` and `DigestDispatch`: strong fairness of a
scraper or run that has begun, because every await has a timeout and
PostgreSQL's lock queues are first come, first served; nothing forces a fetch to
be made or a failure to happen or not to happen. `HttpFetch`: weak fairness of a
fetch in flight (timeouts, finite sleeps). `Crawl` and `BrowserCrawl`: weak
fairness of the job and of each task; a permit, a context and the lock go to each
task once, so a waiter is not overtaken for ever and nothing stronger is needed.
`EmecGate`: strong fairness of a job, because PostgreSQL serves the waiters of a
lock in their order. `LoopCloses`, failures, crashes and the clock are never fair. `RateLimiter` and `EditalListing` claim no liveness.

## 4. What is proved

TLAPS checks the theorems for every value of the constants that satisfies the
named assumptions (`PipelineAssumption`, `SimhashAssumption`,
`DispatchAssumption`, `CrawlAssumption`, `BrowserAssumption`, `FetchAssumption`,
`LimiterAssumption`, `GateAssumption`, `ParsingAssumption`, `RulesAssumption`,
`ReadingAssumption`, `ListingAssumption`), which TLC evaluates in the runs. They
say of what type a constant is, that the file lists no institution twice and that
the calendar's dates are words. One theorem has a hypothesis besides, given below.
Every invariant and every action property that a run checks is stated by a theorem.

| Theorem | Says |
|---|---|
| `EditalPipelineProofs!PipelineTyped` | `TypeOK` |
| `EditalPipelineProofs!SessionsConsistent` | `SessionConsistent`: the inductive invariant of the pipeline |
| `EditalPipelineProofs!MatchSetsExact` | `MatchSetExact` |
| `EditalPipelineProofs!PipelineImplementsCatalog` | `ImplementsCatalog`: every step is a stutter, a `Store` or a `Revise` |
| `EditalPipelineProofs!FirstScrapesAccepted` | `FirstScrapeAccepted`: an edital that nobody has stored and that fits its columns meets no range or integrity error |
| `DigestDispatchProofs!DispatchTyped` | `TypeOK` |
| `DigestDispatchProofs!RunsHonest`, `SingleCarriers` | `RunHonest`, `SingleCarrier`: what a run holds, see below |
| `DigestDispatchProofs!NotifiedDelivered` | `NotifiedWasDelivered`: delivered or cut off, and tried by every channel |
| `DigestDispatchProofs!DuplicatesExplained` | `DuplicateHasCause` |
| `CrawlProofs!CrawlTyped`, `SlotsAreConserved`, `ReturnedAreComplete`, `OrphansExplained` | the four invariants of `Crawl` |
| `CrawlProofs!FailedSpidersReported` | `FailedSpiderIsReported` |
| `CrawlProofs!BrowserImplementsCrawl` | `BrowserSpec => Spec`: the crawl with a browser is a crawl |
| `CrawlProofs!OnlyOneBrowser` | `OneBrowser` |
| `CrawlProofs!LeftoversExplained` | `LeftoverHasCause` |
| `HttpFetchProofs!CooldownIsHonoured`, `RobotsAreObeyed` | `CooldownHonoured`, `RobotsObeyed` |
| `HttpFetchProofs!FetchesTyped`, `ClosedCircuitsQuiet`, `CircuitsOpenOnBurst` | `TypeOK`, `ClosedMeansQuiet`, `OpensOnBurst` |
| `RateLimiterProofs!LimiterTyped` | `TypeOK`: the bucket stays between empty and full |
| `RateLimiterProofs!WaitsSuffice` | `WaitSuffices`, for clocks that differ too |
| `RateLimiterProofs!BucketsBound` | `BucketBound`, for scripts as late and clocks as different as they may be |
| `EmecGateProofs!GateTyped`, `RefreshesAllOrNothing`, `EligiblesWereListed`, `EmptyCrawlsExplained` | `GateTypeOK`, `RefreshAllOrNothing`, `EligibleWasListed`, `EmptyCrawlHasCause` |
| `EmecGateProofs!RefreshesStick` | `RefreshSticks` |
| `ItemReadingProofs!ReadingTyped`, `LettersTellLosses` | `ReadingTypeOK` (a stored row can be read again), `LossLeavesTrace` |
| `ItemReadingProofs!MatchesAreJustified` | `MatchJustified`, with the listing beside it |
| `ItemReadingProofs!SecondAnnouncementHasCause` | `AnnouncedTwiceHasCause`, where `TitlesStable` holds |
| `ItemReadingProofs!QuietWalksCover` | `QuietWalkCovers`, for pages of any size |
| `ItemReadingProofs!AnchorsYieldedOnce` | the fallback of `_parse_html_listing` yields each relevant address once |

*Pipeline.* `MatchSetExact` speaks of the committed tables, but whether a commit
keeps it depends on what the session has read and on what others committed in
the meantime. `SessionConsistent` closes that gap: while a session is open, the
row it found keeps its attributes, the row it inserted is nobody else's (the
unique index), and `added` and `todo` partition the accepted subscribers it has
listed. With it, `Commit` publishes exactly a `Store` or a `Revise`, which is
both the refinement step and the preservation of `MatchSetExact`. For
`FirstScrapeAccepted`, an insert that a unique index refuses has met a row or a
match that is committed, and an error of range is about a stored edital, or names a
column (`RefusedIsStoredOrOversize`). Errors of the connection and deadlock victims
are outside of it: they may meet any edital.

*Digest.* `NotifiedWasDelivered` rests on `RunHonest`: what
a run has marked was in a digest of its own that some channel took, whole or cut off
before it, and each channel that is no longer due has tried what the run has in hand;
matches committed between read and mark are not in hand.
`DuplicateHasCause` rests on `SingleCarrier`: as long as nobody let go of a
match, one run at most holds it, that run will not visit its subscriber again,
and a channel that carried it is behind that run or behind a committed mark.

*Crawl.* `IInv` of `CrawlProofs` adds to the checked invariants that a task has
an outcome exactly when it ended, that the tasks of spiders to come do not
exist, and that a dead task has its letter. The conservation of slots is a
statement about the cardinality of the holders and is proved with the library's
facts about finite sets.

*Browser.* Every step of `BrowserNext` is a step of `Crawl` or leaves its
variables alone (`StepIsCrawlStep`), so what is proved of `Crawl` holds here.
`OneBrowser` needs `BInv`: the lock is held exactly by whoever starts or closes
a browser and while a task holds it there is none (`LockHeld`), the free
contexts and the tasks in the browser make up the pool (`SlotsKept`), and only a
task that fetches is in it (`FetchingInBrowser`). `LeftoverHasCause` needs
`LInv`: a task that outlives its spider has a sibling that raised
(`StrayHasCulprit`), and neither the end of a task nor its cancellation leaves a
page behind (`DoneIsClean`, `CancelledIsClean`).

*HTTP.* `CooldownHonoured` needs to know that as long as no success came the
history of openings dates the window, and that a half open circuit has cooled
down (`CircuitDated`); `RobotsObeyed`, that the cache holds what the host served
last (`CacheCurrent`). `ClosedMeansQuiet` and `OpensOnBurst` do ask which failures
are recent, and the code does not count them in the history but in a list that it
prunes at each failure. `WindowKept` relates the two: sifted by the window of any
later moment, the list and the history since the last success are the same, because
a failure that one window has dropped is in no later window (`WindowSlides`), and
sifting twice is sifting by the finer sieve (`SiftFiner`).

*Rate limiter.* `SleepCovered`: the credit of the bucket at the end of a sleep
covers the sleeper's token. The turn of another caller that gets nothing rewrites
the bucket and its clock, and takes nothing away, since what two stretches of time
yield is at least what the whole yields (`OtherTurnCovered`); a reading is never
ahead of the reader's own clock (`StampPast`), which makes its own sleep long
enough (`OwnSleepCovered`, with the ceiling of the script in `CeilCovers`).
`BucketBound` speaks of any stretch of time, and counts the lateness of the scripts
that ran in it as time that may be credited twice. `Balanced` fixes the end of the
stretch: what was let through since a moment, and what the bucket would hold for the
fastest clock now (`Level`), are no more than a full bucket and the yield of the time
and the lateness since that moment (`Elapsed`). A script that grants moves a token
from the one summand to the other and may set the time of the bucket back by its own
lag, which is the lateness it adds; a tick adds its yield to both sides; and a
stretch that ends earlier is one of which the bound was already known (`PastStays`).
Without that summand the bound is false: see section 6.

*Gate.* `GInv` of `EmecGateProofs` says of a job in the middle of its batch that no
key stands twice in it (`Sound`, which carries over from the file through the
filter, since each line that is kept comes from a place of its own), that it has
passed what it changes (`Touched`), and that each row it has passed is as its file
says except where a column is on its way or another job has committed the row since
(`Compared`). At the commit nothing is on its way any more, which is
`RefreshSticks`; `EligibleWasListed` follows from `GratuitaListed`, by column, so
that a mixture of two files is covered.

*Reading.* `MatchJustified` holds because an update leaves alone every column a
match looks at (`MatchIgnoresMerge`), so it takes nothing of what the parser
yields or how a score is summed. `ReadingTypeOK` does take what the parser
yields: `YieldsTyped` follows a response through the choice of entries, their
levels, the window of the dates and the limit. `LossLeavesTrace` needs
`Accounted`: until a letter is pushed or a push, a stop or a commit has gone wrong,
what is stored, in hand and still to come make up what the feed promised. `AnnouncedTwiceHasCause` needs `AsOnPage`: whatever the LLM has
not touched comes from an entry of some response, and stands under a key that says
what the entry and the row say. Its hypothesis `TitlesStable` (the same address is
always headed by the same title, accents apart) is what the property is about: a
page that changes its title has another key, by the definition of
`canonical_hash`; `MCEditalListing` assumes it of its instance, so that TLC checks
that there is one. `QuietWalkCovers` needs `Walking`: an undisturbed walk has shown
the beginning of the listing up to its offset. Each page is sorted anew, so this
rests on the uniqueness of the order (`OneListing`): two enumerations of a finite set
along one strict order agree, by the least place where they differ.

*Sequences.* What a filter keeps is an induction over the sequence, and the
induction theorems of the library take an operator, which the provers cannot
instantiate. `SiftingProofs` takes a set in its place: the least element of a set
of numbers exists because `<` is well-founded as a relation (`LeastOfSet`), from
which follow induction over a set of numbers and over a set of sequences
(`SeqInduction`), and then what `Sift` returns: its two equations, its elements,
their places, that nothing is lost, and how two sieves compose. This is why the
models filter with `Sift`, a recursive function, and not with `SelectSeq`.

## 5. What is only model-checked

- Liveness (`RunEnds` of the pipeline and of the digest, `FetchEnds`, `CrawlEnds`, `JobsEnd`): the prover has
  no rules for fairness and ENABLED.
- The values of `Hamming` and of `Score` in `MatchRules`, a cardinality of differing bits and a fold:
  no theorem turns on them, only on their arguments.
- The four properties of section 6 that the code does not have; no theorem is
  possible there but the one TLC refutes.

## 6. Disagreements with the repository's own statements

Four runs expect a violation; `PROJECT.json` quotes the lines.

1. `pipeline_cosmetic`: `EditalRepository.upsert` stores the unsigned simhash on
   the update path (the insert path converts it). Re-scraping an edital whose
   simhash has the top bit set raises, and the rest of the feed is dropped.
2. `pipeline_update`: a material update of an edital that has a match inserts
   the match again; the unique index rejects it and rolls the update back.
3. `digest_lost`: a match whose digest failed leaves the 24-hour window before
   the next daily run and is never sent.
4. `crawl_letters`: an httpx error is not a `ScrapingError`; the URL gets no dead
   letter.

The models also contain behaviour that other statements of the documentation
exclude and that no run repeats. The properties that are checked say what
remains true.

- The kind of change may be stale at the commit: two scrapers that read the same
  row both call their draft cosmetic, and the second replaces what the first
  stored, however far apart the two are (`SelectExisting`, `Commit`).
- Dispatching is not idempotent: a run rolled back after a mail was sent sends it
  again (`RunAborts`; `DuplicateHasCause` says when). A match counts as notified
  when only Telegram took it, and even when its part of the text came after the
  4000 characters that `P/notifications/channels/telegram.py:44` sends (`Portions`,
  `MarkNotified`; `NotifiedWasDelivered` says so).
- `gather` passes on the first exception of a spider; those of the siblings that
  raise later are dropped, without a line in the log (`GatherRaises`). What is
  reported is the spider (`FailedSpiderIsReported`), not each of its errors.
- A new edital may be refused for its contents: a title of a feed, an address or a
  number that the LLM found can be more than its column takes (`ColumnsTake`). Every
  later scrape meets the same error and drops the rest of the feed again.
- A dead letter is itself a call to Redis inside the handler: when it raises, or the
  process stops, what a feed lost leaves no letter (`Handled`, `Stopped`;
  `LossLeavesTrace`). An item whose commit was not acknowledged is stored and has a
  letter.
- A success that was under way when a circuit opened closes it at once
  (`RecordSuccess` in any state; `CooldownHonoured` says so). A request for
  robots.txt without an answer overwrites a denial (`RobotsAnswer`;
  `RobotsObeyed`). Both take two fetches of one host in one process. The
  registered spiders discover one URL each and run one after the other;
  `DouSpider` and `SucupiraSpider`, which exist but are not registered, discover
  several, and `BaseSpider.discover_urls` allows it.
- `rate_limiter.py:3` says that the limit of a host is guaranteed between workers.
  The script writes back a reading that lies before the time of the bucket
  (`:46`), and the next script is credited the same time again: two callers of one
  clock whose scripts run out of order pass more than the bucket and its rate
  allow, and so do workers whose clocks differ. `BucketBound` says by how much at
  most (`EvalGrants`, `late`).
- A 5xx answer is not retried (`ServerError`), although
  `docs/SCRAPING_STRATEGY.md:28` says so.
- Orphans (`GatherRaises`) also take a spider with several URLs. With the
  registered spiders `Crawl` degenerates to one task at a time, which the
  invariants cover as a special case of their constants.

Institutions (`EmecGate`):

- An institution that disappears from `data/emec_seed.json` keeps its row, and
  the crawl goes on accepting it: the refresh upserts the lines it finds and
  touches no other row. `README.md:57` says that nothing of an institution that
  is not active is processed. `EligibleWasListed` says what remains: the
  whitelist names institutions that some file once listed as eligible.
- `docs/adr/0006-emec-whitelist.md:21` keeps the list for seven days; the
  scheduler refreshes it every day and there is no cache. `data/emec_seed.json`,
  which `tests/contracts/test_emec_seed.py` expects, is not in the repository:
  a refresh without it stores nothing (`SeedFiles` holds an empty file).
- The whitelist accepts a name that contains the acronym of an institution
  anywhere (`EmecWhitelist.lookup`), so a longer unlisted name may pass.

What the page becomes (`FeedParsing`, `MatchRules`, `ItemReading`):

- `LLMEditalEnricher` says that it gives the item back intact when the LLM fails
  (`P/parsers/pdf/llm_fallback.py:21`); an answer with a null confidence or an
  inverted period raises instead and ends the feed (`Enrich`, `ItemRaises`).
- An answer "desconhecido", which the prompt asks for when a field cannot be
  inferred, replaces a level or modality the rules had found.
- An accented "inscrição" or "até" never matches the keys `inscric` and `ate` of
  `P/parsers/fields/dates.py`: a deadline is then read as an opening date.
- The canonical hash takes other fields than `docs/adr/0004-simhash-deduplication.md`
  lists: the modality and the source, and not the area. The same edital found
  at two sources is two rows, and a text that changes its area keeps its key
  (`Key`; `AnnouncedTwiceHasCause` says when one page is announced twice).
- `docs/adr/0003-hybrid-parsing-llm-fallback.md:43` sends an item on which rules
  and LLM disagree to the dead letters; no code compares them. The docstring of
  `AnthropicLLMClient` sends an unreadable answer there; it becomes "no answer".
- The digest looks up the institution of an edital by e-MEC code with the UUID
  of the row (`P/scheduling/jobs.py:118`): the name is empty in every mail. This
  is wording of the mail, and in no model.
- A rendered fetch asks neither robots.txt nor the rate limiter
  (`docs/SCRAPING_STRATEGY.md:15` makes no exception). No registered spider is
  rendered.

## 7. Not modelled, and the plan

Built in this order: pipeline and catalog, digest, HTTP fetch and rate limiter,
crawl; then the browser, the gate, the reading of pages and the listing.

Left out, and why:

- `DouSpider` and `SucupiraSpider`, `RSSDetector`, the parsers of
  `P/parsers/html`, `P/parsers/wordpress`, the PDF parser, the `ObjectStore` and the
  `SnapshotRepository`: no job reaches them (the spiders are not in
  `SPIDER_REGISTRY`). What follows from a spider with several URLs is covered,
  since `Crawl` leaves the number open.
- Wording and layout of mails and logs, metrics, settings, the seed data, the
  routes `/health` and `/metrics`: no state of interest. The migration and the
  ORM classes appear as the tables, unique keys and defaults of the models.
- The in-process fallback of the rate limiter, used only without Redis: one lock
  over all hosts, no race.
- The counters of `PipelineStats`, raised before the commit and kept when it
  fails: they reach a log line only.
- A failure of `browser.close` or of the driver's `stop`, and the daily
  repetition of a crawl: one job is modelled and the tasks it leaves behind are,
  the next day's job is not.

What would come next: the liveness properties, if a prover with rules for fairness
were at hand, and a model of the in-process fallback of the rate limiter.
