---------------------------- MODULE BrowserCrawl ----------------------------
(***************************************************************************)
(* PlaywrightClient inside a crawl: the fetches of the spiders that set    *)
(* use_playwright share one browser, started by the first that needs it,   *)
(* and a semaphore of contexts; aclose stops it when the job is over,      *)
(* whatever the orphans of a failed spider are doing.  None of the spiders *)
(* registered today sets the flag.                                         *)
(***************************************************************************)
EXTENDS Crawl

CONSTANTS
    PoolSize,   \* playwright_pool_size
    NoOne       \* nobody holds the lock

ASSUME BrowserAssumption ==
    /\ Rendered \subseteq Urls
    /\ PoolSize \in Nat \ {0}
    /\ NoOne \notin Urls /\ "aclose" \notin Urls /\ NoOne # "aclose"

VARIABLES
    page,      \* where the fetch of each rendered URL stands
    slots,     \* free permits of _semaphore
    lock,      \* the URL whose fetch holds _lock, "aclose", or NoOne
    browsers,  \* browsers alive: _browser is set iff there is one
    driver,    \* _pw is set
    leaked,    \* drivers alive that nothing refers to
    attached,  \* the fetches whose browser is the one alive
    shut       \* where aclose stands

browserVars == <<page, slots, lock, browsers, driver, leaked, attached, shut>>

BrowserInit ==
    /\ Init
    /\ page = [u \in Rendered |-> "none"]
    /\ slots = PoolSize
    /\ lock = NoOne
    /\ browsers = 0
    /\ driver = FALSE
    /\ leaked = 0
    /\ attached = {}
    /\ shut = "no"

Show(u, stage) == page' = [page EXCEPT ![u] = stage]

-----------------------------------------------------------------------------
(* _context and _ensure_started                                            *)

TakeSlot(u) ==
    /\ task[u] = "fetching" /\ page[u] = "none"
    /\ slots > 0
    /\ slots' = slots - 1
    /\ Show(u, "queued")
    /\ UNCHANGED <<vars, lock, browsers, driver, leaked, attached, shut>>

FindBrowser(u) ==
    /\ browsers > 0
    /\ attached' = attached \cup {u}
    /\ Show(u, "using")
    /\ UNCHANGED lock

FindNone(u) ==
    /\ browsers = 0
    /\ lock' = u
    /\ Show(u, "starting")
    /\ UNCHANGED attached

EnsureStartedUnlocked(u) ==
    /\ page[u] = "queued"
    /\ FindBrowser(u) \/ FindNone(u)
    /\ UNCHANGED <<vars, slots, browsers, driver, leaked, shut>>

EnsureStarted(u) ==
    /\ page[u] = "queued"
    /\ lock = NoOne
    /\ FindBrowser(u) \/ FindNone(u)
    /\ UNCHANGED <<vars, slots, browsers, driver, leaked, shut>>

\* async_playwright().start(): the driver of a launch that failed is forgotten.
StartDriver(u) ==
    /\ page[u] = "starting"
    /\ driver' = TRUE
    /\ leaked' = IF driver THEN leaked + 1 ELSE leaked
    /\ Show(u, "launching")
    /\ UNCHANGED <<vars, slots, lock, browsers, attached, shut>>

LaunchBrowser(u) ==
    /\ page[u] = "launching"
    /\ browsers' = browsers + 1
    /\ attached' = attached \cup {u}
    /\ lock' = NoOne
    /\ Show(u, "using")
    /\ UNCHANGED <<vars, slots, driver, leaked, shut>>

\* The `async with' and `finally' blocks on the way out of fetch.
LeaveBrowser(u) ==
    /\ Show(u, "none")
    /\ slots' = slots + 1
    /\ lock' = IF lock = u THEN NoOne ELSE lock
    /\ attached' = attached \ {u}
    /\ UNCHANGED <<browsers, driver, leaked, shut>>

Render(u) ==
    /\ page[u] = "using" /\ u \in attached
    /\ FetchOk(u)
    /\ LeaveBrowser(u)

\* A start, a launch, a context or a page that fails, a timeout of goto, or a
\* browser that aclose has taken away.
RenderRaises(u) ==
    /\ page[u] \in {"starting", "launching", "using"}
    /\ FetchRaises(u)
    /\ LeaveBrowser(u)

-----------------------------------------------------------------------------
(* aclose, after http.aclose                                               *)

BeginClose ==
    /\ job = "over" /\ closed
    /\ shut = "no"
    /\ lock = NoOne
    /\ lock' = "aclose"
    /\ shut' = "browser"
    /\ UNCHANGED <<vars, page, slots, browsers, driver, leaked, attached>>

CloseBrowser ==
    /\ shut = "browser"
    /\ shut' = "driver"
    /\ browsers' = IF browsers > 0 THEN browsers - 1 ELSE 0
    /\ attached' = {}
    /\ UNCHANGED <<vars, page, slots, lock, driver, leaked>>

StopDriverLater ==
    /\ shut = "driver"
    /\ shut' = "done"
    /\ lock' = NoOne
    /\ UNCHANGED <<vars, page, slots, browsers, driver, leaked, attached>>

StopDriver ==
    /\ shut = "driver"
    /\ shut' = "done"
    /\ driver' = FALSE
    /\ lock' = NoOne
    /\ UNCHANGED <<vars, page, slots, browsers, leaked, attached>>

AClose == BeginClose \/ CloseBrowser \/ StopDriver

-----------------------------------------------------------------------------
\* The process and its children are gone.
ProcessEnds ==
    /\ LoopCloses
    /\ page' = [u \in Rendered |-> "none"]
    /\ slots' = PoolSize
    /\ lock' = NoOne
    /\ browsers' = 0
    /\ driver' = FALSE
    /\ leaked' = 0
    /\ attached' = {}
    /\ shut' = "done"

HttpStep(u) ==
    /\ u \notin Rendered
    /\ FetchOk(u) \/ FetchFails(u) \/ FetchRaises(u)
    /\ UNCHANGED browserVars

AfterFetch(u) ==
    /\ ParseOk(u) \/ ParseFails(u) \/ Push(u) \/ PushRaises(u)
    /\ UNCHANGED browserVars

BrowserStep(u) ==
    /\ u \in Rendered
    /\ \/ TakeSlot(u) \/ EnsureStarted(u) \/ StartDriver(u) \/ LaunchBrowser(u)
       \/ Render(u) \/ RenderRaises(u)

UrlStep(u) ==
    \/ Acquire(u) /\ UNCHANGED browserVars
    \/ HttpStep(u)
    \/ BrowserStep(u)
    \/ AfterFetch(u)

BrowserNext ==
    \/ JobStep /\ UNCHANGED browserVars
    \/ AClose
    \/ ProcessEnds
    \/ \E u \in Urls : UrlStep(u)

allVars == <<vars, browserVars>>

BrowserSpec == BrowserInit /\ [][BrowserNext]_allVars

\* As FairSpec of Crawl: the calls to the browser have timeouts, and a permit of the
\* pool and the lock, too, go to each fetch once.
BrowserFairSpec ==
    /\ BrowserSpec
    /\ WF_allVars((JobStep /\ UNCHANGED browserVars) \/ AClose)
    /\ \A u \in Urls : WF_allVars(UrlStep(u))

-----------------------------------------------------------------------------
InBrowser == {u \in Rendered : page[u] # "none"}

(***************************************************************************)
(* However many fetches find no browser at once, and whatever aclose and   *)
(* the failed launches do between them, one browser runs at a time and no  *)
(* more fetches use it than the pool has slots; a slot is never lost       *)
(* (playwright_client.py:28, 50).                                          *)
(***************************************************************************)
OneBrowser ==
    /\ browsers <= 1
    /\ slots + Cardinality(InBrowser) = PoolSize
    /\ lock \in Urls => page[lock] \in {"starting", "launching"}

(***************************************************************************)
(* When the job and its tasks are over and aclose has run, a browser or a  *)
(* driver is left only if run_spider raised: a launch that failed leaves   *)
(* its driver to the next start, and an orphan that fetches after aclose   *)
(* starts a browser nobody closes (playwright_client.py:33, 40).           *)
(***************************************************************************)
LeftoverHasCause ==
    shut = "done" /\ (\A u \in Urls : ~ Running(u)) =>
        \/ browsers = 0 /\ ~ driver /\ leaked = 0
        \/ \E s \in Spiders : verdict[s] = "raised"
=============================================================================
