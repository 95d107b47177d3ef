----------------------------- MODULE HttpFetch ------------------------------
(***************************************************************************)
(* HttpClient.fetch against one host: the circuit breaker, the cached      *)
(* robots.txt, the wait for the rate limiter and the retries.  The breaker *)
(* and the cache are in the memory of one process and shared by the        *)
(* fetches it has in flight (the slots of the orchestrator's semaphore);   *)
(* a fetch yields at each await, so what it has checked may no longer hold *)
(* when it acts.  The rate limiter is a wait of any length here.           *)
(***************************************************************************)
EXTENDS Integers, Sequences, Sifting

CONSTANTS
    Fetchers,       \* the fetches that may be in flight at once
    RespectRobots,  \* PEM_RESPECT_ROBOTS
    MaxRetries,     \* PEM_HTTP_MAX_RETRIES
    FailureWindow,  \* failure_window_seconds
    Threshold,      \* failure_threshold
    Cooldown,       \* cooldown_seconds
    RobotsTtl,      \* cache_ttl_seconds of RobotsChecker
    MaxTime,        \* bound on the clock
    None            \* no value

ASSUME FetchAssumption ==
    /\ RespectRobots \in BOOLEAN
    /\ {MaxRetries, Threshold} \subseteq Nat \ {0}
    /\ {FailureWindow, Cooldown, RobotsTtl, MaxTime} \subseteq Nat
    /\ None \notin 0 .. MaxTime

VARIABLES
    now,
    circuit,     \* the host's window: state, failures and opened_at
    robots,      \* the cached robots.txt: None, or its verdict and when it was read
    pc,          \* where each fetch stands
    tries,       \* requests its retry loop has made
    result,      \* how the last fetch ended
    log,         \* history: times of the failures recorded since the last success
    trip,        \* history: when the breaker last opened, if no success came since
    answer       \* history: the last robots.txt the host served, if no later request
                 \* for it was left without an answer

fetch == <<pc, tries, result>>
vars  == <<now, circuit, robots, pc, tries, result, log, trip, answer>>

Times    == 0 .. MaxTime
Verdicts == {"none", "allow", "deny"}
Results  == {None, "response", "ScrapingError", "HTTPError"}

Init ==
    /\ now = 0
    /\ circuit = [state |-> "closed", failures |-> <<>>, opened |-> None]
    /\ robots = None
    /\ pc = [f \in Fetchers |-> "idle"]
    /\ tries = [f \in Fetchers |-> 0]
    /\ result = [f \in Fetchers |-> None]
    /\ log = <<>>
    /\ trip = None
    /\ answer = None

Tick ==
    /\ now < MaxTime
    /\ now' = now + 1
    /\ UNCHANGED <<circuit, robots, fetch, log, trip, answer>>

Goto(f, label) == pc' = [pc EXCEPT ![f] = label]

End(f, outcome) ==
    /\ Goto(f, "idle")
    /\ result' = [result EXCEPT ![f] = outcome]
    /\ tries' = [tries EXCEPT ![f] = 0]

-----------------------------------------------------------------------------
(* CircuitBreaker                                                          *)

RecentStrict(times) == Sift(times, {t \in Times : now - t < FailureWindow})
Recent(times) == Sift(times, {t \in Times : now - t <= FailureWindow})

RecordSuccessKeeping ==
    /\ circuit' = [circuit EXCEPT !.state = "closed", !.opened = None]
    /\ log' = <<>>
    /\ trip' = None

RecordSuccess ==
    /\ circuit' = [state |-> "closed", failures |-> <<>>, opened |-> None]
    /\ log' = <<>>
    /\ trip' = None

RecordFailureUndated ==
    LET failures == Append(Recent(circuit.failures), now)
        opens    == circuit.state = "half_open" \/ Len(failures) >= Threshold
    IN  /\ circuit' = [circuit EXCEPT !.state = IF opens THEN "open" ELSE @,
                                      !.failures = failures]
        /\ log' = Append(log, now)
        /\ trip' = IF opens THEN now ELSE trip

RecordFailure ==
    LET failures == Append(Recent(circuit.failures), now)
        opens    == circuit.state = "half_open" \/ Len(failures) >= Threshold
    IN  /\ circuit' = [state    |-> IF opens THEN "open" ELSE circuit.state,
                       failures |-> failures,
                       opened   |-> IF opens THEN now ELSE circuit.opened]
        /\ log' = Append(log, now)
        /\ trip' = IF opens THEN now ELSE trip

CoolingEager == FALSE
Cooling == circuit.state = "open" /\ now - circuit.opened < Cooldown

CheckPasses(f) ==
    /\ pc[f] = "idle"
    /\ ~ Cooling
    /\ circuit' = [circuit EXCEPT !.state = IF @ = "open" THEN "half_open" ELSE @]
    /\ Goto(f, IF RespectRobots THEN "robots" ELSE "rate")
    /\ result' = [result EXCEPT ![f] = None]
    /\ UNCHANGED <<now, robots, tries, log, trip, answer>>

CheckRefuses(f) ==
    /\ pc[f] = "idle"
    /\ Cooling
    /\ End(f, "ScrapingError")
    /\ UNCHANGED <<now, circuit, robots, log, trip, answer>>

-----------------------------------------------------------------------------
(* RobotsChecker                                                           *)

\* What the cache keeps of an answer.
ForgetDenial(verdict) == IF verdict = "deny" THEN "none" ELSE verdict
Cached(verdict) == verdict

\* A refusal is raised outside the try: it is no failure of the host.
Obey(f, verdict) ==
    IF verdict = "deny" THEN End(f, "ScrapingError")
    ELSE Goto(f, "rate") /\ UNCHANGED <<tries, result>>

RobotsFresh == robots # None /\ now - robots.at < RobotsTtl

RobotsCached(f) ==
    /\ pc[f] = "robots"
    /\ RobotsFresh
    /\ Obey(f, robots.verdict)
    /\ UNCHANGED <<now, circuit, robots, log, trip, answer>>

RobotsAsk(f) ==
    /\ pc[f] = "robots"
    /\ ~ RobotsFresh
    /\ Goto(f, "asking")
    /\ UNCHANGED <<now, circuit, robots, tries, result, log, trip, answer>>

\* "none": an error, a timeout, a status other than 200 or an empty body.
RobotsAnswer(f, verdict) ==
    /\ pc[f] = "asking"
    /\ robots' = [verdict |-> Cached(verdict), at |-> now]
    /\ answer' = IF verdict = "none" THEN None ELSE [verdict |-> verdict, at |-> now]
    /\ Obey(f, verdict)
    /\ UNCHANGED <<now, circuit, log, trip>>

-----------------------------------------------------------------------------
(* The rate limiter and the retry loop                                     *)

RateGranted(f) ==
    /\ pc[f] = "rate"
    /\ Goto(f, "request")
    /\ tries' = [tries EXCEPT ![f] = 1]
    /\ UNCHANGED <<now, circuit, robots, result, log, trip, answer>>

\* A status that is not retryable, 403 and 404 included.
Response(f) ==
    /\ pc[f] = "request"
    /\ RecordSuccess
    /\ End(f, "response")
    /\ UNCHANGED <<now, robots, answer>>

RetryForever(f) ==
    /\ tries' = [tries EXCEPT ![f] = IF @ = MaxRetries THEN 1 ELSE @ + 1]
    /\ UNCHANGED <<pc, result, circuit, log, trip>>

Retry(f) ==
    /\ tries[f] < MaxRetries
    /\ tries' = [tries EXCEPT ![f] = @ + 1]
    /\ UNCHANGED <<pc, result, circuit, log, trip>>

\* A timeout or a connection error.
TransportError(f) ==
    /\ pc[f] = "request"
    /\ \/ Retry(f)
       \/ /\ tries[f] = MaxRetries
          /\ RecordFailure
          /\ End(f, "HTTPError")
    /\ UNCHANGED <<now, robots, answer>>

\* 429: retried, and raised past every except clause when the tries are spent.
RateLimited(f) ==
    /\ pc[f] = "request"
    /\ \/ Retry(f)
       \/ /\ tries[f] = MaxRetries
          /\ End(f, "ScrapingError")
          /\ UNCHANGED <<circuit, log, trip>>
    /\ UNCHANGED <<now, robots, answer>>

\* 408, 425 or 5xx: raise_for_status raises an error the loop does not retry.
\* Too many redirects end alike.
ServerError(f) ==
    /\ pc[f] = "request"
    /\ RecordFailure
    /\ End(f, "HTTPError")
    /\ UNCHANGED <<now, robots, answer>>

\* The task is cancelled when the event loop closes.
Cancelled(f) ==
    /\ pc[f] # "idle"
    /\ End(f, None)
    /\ UNCHANGED <<now, circuit, robots, log, trip, answer>>

-----------------------------------------------------------------------------
Progress(f) ==
    \/ RobotsCached(f)
    \/ RobotsAsk(f)
    \/ \E verdict \in Verdicts : RobotsAnswer(f, verdict)
    \/ RateGranted(f)
    \/ Response(f)
    \/ TransportError(f)
    \/ RateLimited(f)
    \/ ServerError(f)

Next ==
    \/ Tick
    \/ \E f \in Fetchers : CheckPasses(f) \/ CheckRefuses(f) \/ Progress(f) \/ Cancelled(f)

Spec == Init /\ [][Next]_vars

\* Every await of a fetch ends: requests and robots.txt have timeouts, backoff
\* and rate waits are finite.
FairSpec == Spec /\ \A f \in Fetchers : WF_vars(Progress(f))

-----------------------------------------------------------------------------
Windows == [state : {"closed", "open", "half_open"}, failures : Seq(Times),
            opened : Times \cup {None}]

\* The last conjunct of `circuit' is the assertion of CircuitBreaker.check.
TypeOK ==
    /\ now \in Times
    /\ circuit \in Windows
    /\ circuit.state = "open" => circuit.opened # None
    /\ robots = None \/ robots \in [verdict : Verdicts, at : Times]
    /\ pc \in [Fetchers -> {"idle", "robots", "asking", "rate", "request"}]
    /\ tries \in [Fetchers -> 0 .. MaxRetries]
    /\ result \in [Fetchers -> Results]
    /\ log \in Seq(Times)
    /\ trip \in Times \cup {None}
    /\ answer = None \/ answer \in [verdict : {"allow", "deny"}, at : Times]

Burst(times) == Len(Sift(times, {t \in Times : t >= now - FailureWindow})) >= Threshold

(***************************************************************************)
(* ARCHITECTURE.md:71, one way: Threshold failures within the window that  *)
(* no success has interrupted never leave the circuit closed, whatever     *)
(* fetches overlap (circuit_breaker.py record_failure, record_success).    *)
(***************************************************************************)
ClosedMeansQuiet == circuit.state = "closed" => ~ Burst(log)

(***************************************************************************)
(* The other way: a closed circuit opens on a burst only, never on         *)
(* failures that a success or the window has already forgiven.             *)
(***************************************************************************)
OpensOnBurst ==
    [][circuit.state = "closed" /\ circuit'.state = "open" => Burst(log')]_vars

(***************************************************************************)
(* ARCHITECTURE.md:71, as far as the code keeps it: an opened circuit      *)
(* admits nothing for the cooldown unless a success was recorded since it  *)
(* opened, which only a request sent before it opened can bring (record_   *)
(* success closes the circuit in any state).                               *)
(***************************************************************************)
CooldownHonoured ==
    [][\A f \in Fetchers : pc[f] = "idle" /\ pc'[f] # "idle" =>
         trip = None \/ now - trip >= Cooldown]_vars

(***************************************************************************)
(* SCRAPING_STRATEGY.md:14-16, as far as the code keeps it: while the      *)
(* robots.txt last served is younger than the cache's lifetime and forbids *)
(* the path, no request passes, unless a later request for robots.txt got  *)
(* no answer: of two fetches that ask at once, such a one overwrites the   *)
(* denial the other has cached.                                            *)
(***************************************************************************)
RobotsObeyed ==
    [][\A f \in Fetchers : pc[f] \in {"robots", "asking"} /\ pc'[f] = "rate" =>
         ~ (answer' # None /\ answer'.verdict = "deny" /\ now - answer'.at < RobotsTtl)]_vars

(***************************************************************************)
(* A fetch that has passed the circuit ends (tenacity stops after          *)
(* MaxRetries attempts).                                                   *)
(***************************************************************************)
FetchEnds == \A f \in Fetchers : pc[f] # "idle" ~> pc[f] = "idle"
=============================================================================
