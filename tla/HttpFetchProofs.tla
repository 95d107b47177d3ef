--------------------------- MODULE HttpFetchProofs ---------------------------
(***************************************************************************)
(* For any number of fetches, any threshold and any lifetimes: an opened   *)
(* circuit admits nothing for the cooldown, a denial that is fresh is      *)
(* obeyed, and the circuit opens on a burst and on nothing less.  The last *)
(* depends on which failures count as recent, the others do not.           *)
(***************************************************************************)
EXTENDS HttpFetch, SiftingProofs

-----------------------------------------------------------------------------
(* What the history of openings says of the circuit: it dates the window   *)
(* as long as no success came, and a half open one has cooled down.        *)
CircuitDated ==
    /\ now \in Times
    /\ trip \in Times \cup {None}
    /\ trip # None => trip <= now
    /\ circuit = [state |-> circuit.state, failures |-> circuit.failures,
                  opened |-> circuit.opened]
    /\ circuit.state \in {"closed", "open", "half_open"}
    /\ circuit.state = "closed" => trip = None
    /\ circuit.state = "open" => circuit.opened = trip /\ trip # None
    /\ circuit.state = "half_open" => trip = None \/ now - trip >= Cooldown

(* The cache holds what the host served last.                              *)
CacheCurrent == answer # None => robots = answer

PlacesTyped == pc \in [Fetchers -> {"idle", "robots", "asking", "rate", "request"}]

IInv == CircuitDated /\ CacheCurrent /\ PlacesTyped

LEMMA BoundsAreNumbers ==
    /\ None \notin Times
    /\ Cooldown \in Nat
    /\ Times \subseteq Nat
  BY FetchAssumption DEF Times

LEMMA InitIInv == Init => IInv
  BY BoundsAreNumbers, FetchAssumption DEF Init, IInv, CircuitDated, CacheCurrent,
     PlacesTyped, Times

-----------------------------------------------------------------------------
(* The breaker.                                                            *)

LEMMA SuccessDated ==
    ASSUME CircuitDated, RecordSuccess, UNCHANGED now
    PROVE  CircuitDated'
  BY DEF CircuitDated, RecordSuccess

LEMMA FailureDated ==
    ASSUME CircuitDated, RecordFailure, UNCHANGED now
    PROVE  CircuitDated'
  <1> DEFINE failures == Append(Recent(circuit.failures), now)
             opens == circuit.state = "half_open" \/ Len(failures) >= Threshold
  <1>1. /\ circuit' = [state |-> IF opens THEN "open" ELSE circuit.state,
                       failures |-> failures,
                       opened |-> IF opens THEN now ELSE circuit.opened]
        /\ trip' = IF opens THEN now ELSE trip
    BY DEF RecordFailure
  <1> HIDE DEF failures, opens
  <1>2. ~ opens => circuit.state # "half_open"
    BY DEF opens
  <1> QED
    BY <1>1, <1>2, BoundsAreNumbers DEF CircuitDated

LEMMA AdmittedDated ==
    ASSUME CircuitDated, NEW f \in Fetchers, CheckPasses(f)
    PROVE  CircuitDated'
  BY BoundsAreNumbers DEF CircuitDated, CheckPasses, Cooling

LEMMA TickDated ==
    ASSUME CircuitDated, Tick
    PROVE  CircuitDated'
  BY BoundsAreNumbers, FetchAssumption DEF CircuitDated, Tick, Times

-----------------------------------------------------------------------------
LEMMA StepPlaces == PlacesTyped /\ [Next]_vars => PlacesTyped'
<1> SUFFICES ASSUME PlacesTyped, [Next]_vars PROVE PlacesTyped'
  OBVIOUS
<1> USE DEF PlacesTyped, Goto, End
<1>1. CASE Tick \/ UNCHANGED vars
  BY <1>1 DEF Tick, vars, fetch
<1>2. ASSUME NEW f \in Fetchers, CheckPasses(f) \/ CheckRefuses(f) \/ Cancelled(f)
      PROVE  PlacesTyped'
  BY <1>2 DEF CheckPasses, CheckRefuses, Cancelled
<1>3. ASSUME NEW f \in Fetchers, Progress(f) PROVE PlacesTyped'
  BY <1>3 DEF Progress, RobotsCached, RobotsAsk, RobotsAnswer, RateGranted, Response,
     TransportError, RateLimited, ServerError, Retry, Obey
<1> QED
  BY <1>1, <1>2, <1>3 DEF Next

LEMMA StepDated == IInv /\ [Next]_vars => (CircuitDated /\ CacheCurrent)'
<1> DEFINE Good == CircuitDated /\ CacheCurrent
<1> SUFFICES ASSUME Good, [Next]_vars PROVE Good'
  BY DEF IInv
<1>1. CASE Tick
  BY <1>1, TickDated DEF Tick, CacheCurrent
<1>2. ASSUME NEW f \in Fetchers, CheckPasses(f) PROVE Good'
  BY <1>2, AdmittedDated DEF CheckPasses, CacheCurrent
<1>3. ASSUME NEW f \in Fetchers, NEW verdict \in Verdicts, RobotsAnswer(f, verdict) PROVE Good'
  BY <1>3 DEF RobotsAnswer, Cached, CircuitDated, CacheCurrent
<1>4. ASSUME NEW f \in Fetchers, Response(f) PROVE Good'
  BY <1>4, SuccessDated DEF Response, CacheCurrent
<1>5. ASSUME NEW f \in Fetchers, TransportError(f) PROVE Good'
  <2>1. CASE Retry(f)
    BY <1>5, <2>1 DEF TransportError, Retry, CircuitDated, CacheCurrent
  <2>2. CASE RecordFailure
    BY <1>5, <2>2, FailureDated DEF TransportError, CacheCurrent
  <2> QED
    BY <1>5, <2>1, <2>2 DEF TransportError
<1>6. ASSUME NEW f \in Fetchers, ServerError(f) PROVE Good'
  BY <1>6, FailureDated DEF ServerError, CacheCurrent
<1>7. ASSUME UNCHANGED <<now, circuit, robots, trip, answer>> PROVE Good'
  BY <1>7 DEF CircuitDated, CacheCurrent
<1>8. ASSUME NEW f \in Fetchers,
             CheckRefuses(f) \/ RobotsCached(f) \/ RobotsAsk(f) \/ RateGranted(f)
               \/ RateLimited(f) \/ Cancelled(f)
      PROVE  Good'
  BY <1>7, <1>8 DEF CheckRefuses, RobotsCached, RobotsAsk, RateGranted, RateLimited, Retry,
     Cancelled
<1>9. CASE UNCHANGED vars
  BY <1>7, <1>9 DEF vars
<1> QED
  BY <1>1, <1>2, <1>3, <1>4, <1>5, <1>6, <1>8, <1>9 DEF Next, Progress

LEMMA StepIInv == IInv /\ [Next]_vars => IInv'
  BY StepPlaces, StepDated DEF IInv

LEMMA IInvInvariant == Spec => []IInv
  BY InitIInv, StepIInv, PTL DEF Spec

-----------------------------------------------------------------------------
LEMMA AdmittedAfterCooldown ==
    ASSUME IInv, [Next]_vars, NEW f \in Fetchers, pc[f] = "idle", pc'[f] # "idle"
    PROVE  trip = None \/ now - trip >= Cooldown
<1>1. PICK g \in Fetchers : CheckPasses(g) \/ CheckRefuses(g) \/ Progress(g) \/ Cancelled(g)
  BY DEF Next, Tick, fetch, vars
<1>2. CASE CheckPasses(g)
  BY <1>2, BoundsAreNumbers DEF CheckPasses, Cooling, IInv, CircuitDated
<1>3. CASE g # f
  BY <1>1, <1>3 DEF Progress, CheckPasses, CheckRefuses, RobotsCached, RobotsAsk, RobotsAnswer,
     RateGranted, Response, TransportError, RateLimited, ServerError, Cancelled, Retry, Obey,
     End, Goto, IInv, PlacesTyped
<1>4. CASE g = f /\ ~ CheckPasses(g)
  BY <1>1, <1>4 DEF Progress, CheckRefuses, RobotsCached, RobotsAsk, RobotsAnswer, RateGranted,
     Response, TransportError, RateLimited, ServerError, Cancelled, End, Goto, IInv, PlacesTyped
<1> QED
  BY <1>2, <1>3, <1>4

(***************************************************************************)
(* An opened circuit admits nothing for the cooldown, unless a success has *)
(* closed it (circuit_breaker.py check, record_failure), for any number of *)
(* overlapping fetches.                                                    *)
(***************************************************************************)
THEOREM CooldownIsHonoured == Spec => CooldownHonoured
<1>1. IInv /\ [Next]_vars =>
        [\A f \in Fetchers : pc[f] = "idle" /\ pc'[f] # "idle" =>
           trip = None \/ now - trip >= Cooldown]_vars
  BY AdmittedAfterCooldown
<1> QED
  BY <1>1, IInvInvariant, PTL DEF Spec, CooldownHonoured

LEMMA PassedByRobots ==
    ASSUME IInv, [Next]_vars, NEW f \in Fetchers,
           pc[f] \in {"robots", "asking"}, pc'[f] = "rate"
    PROVE  ~ (answer' # None /\ answer'.verdict = "deny" /\ now - answer'.at < RobotsTtl)
<1>1. PICK g \in Fetchers : CheckPasses(g) \/ CheckRefuses(g) \/ Progress(g) \/ Cancelled(g)
  BY DEF Next, Tick, fetch, vars
<1>2. CASE RobotsCached(g) /\ g = f
  BY <1>2 DEF RobotsCached, Obey, End, Goto, IInv, CacheCurrent, PlacesTyped
<1>3. CASE g = f /\ \E verdict \in Verdicts : RobotsAnswer(g, verdict)
  BY <1>3 DEF RobotsAnswer, Obey, End, Goto, IInv, PlacesTyped
<1>4. CASE g # f
  BY <1>1, <1>4 DEF Progress, CheckPasses, CheckRefuses, RobotsCached, RobotsAsk, RobotsAnswer,
     RateGranted, Response, TransportError, RateLimited, ServerError, Cancelled, Retry, Obey,
     End, Goto, IInv, PlacesTyped
<1>5. CASE g = f /\ ~ RobotsCached(g) /\ ~ \E verdict \in Verdicts : RobotsAnswer(g, verdict)
  BY <1>1, <1>5 DEF Progress, CheckPasses, CheckRefuses, RobotsAsk, RateGranted, Response,
     TransportError, RateLimited, ServerError, Cancelled, End, Goto, IInv, PlacesTyped
<1> QED
  BY <1>2, <1>3, <1>4, <1>5

(***************************************************************************)
(* No request passes a fresh denial of the host, unless a later request    *)
(* for robots.txt got no answer (robots_checker.py), for any number of     *)
(* overlapping fetches.                                                    *)
(***************************************************************************)
THEOREM RobotsAreObeyed == Spec => RobotsObeyed
<1>1. IInv /\ [Next]_vars =>
        [\A f \in Fetchers : pc[f] \in {"robots", "asking"} /\ pc'[f] = "rate" =>
           ~ (answer' # None /\ answer'.verdict = "deny" /\ now - answer'.at < RobotsTtl)]_vars
  BY PassedByRobots
<1> QED
  BY <1>1, IInvInvariant, PTL DEF Spec, RobotsObeyed

-----------------------------------------------------------------------------
(* Types.                                                                  *)

LEMMA RecentTyped ==
    ASSUME TypeOK
    PROVE  /\ Recent(circuit.failures) \in Seq(Times)
           /\ Append(Recent(circuit.failures), now) \in Seq(Times)
<1>1. circuit.failures \in Seq(Times) /\ now \in Times
  BY DEF TypeOK, Windows
<1>2. Recent(circuit.failures) \in Seq(Times)
  BY <1>1, SiftTyped DEF Recent
<1> QED
  BY <1>1, <1>2

BreakerTyped ==
    /\ circuit \in Windows
    /\ circuit.state = "open" => circuit.opened # None
    /\ log \in Seq(Times)
    /\ trip \in Times \cup {None}

LEMMA FailureTyped == ASSUME TypeOK, RecordFailure PROVE BreakerTyped'
<1> DEFINE failures == Append(Recent(circuit.failures), now)
           opens == circuit.state = "half_open" \/ Len(failures) >= Threshold
<1>1. /\ circuit' = [state |-> IF opens THEN "open" ELSE circuit.state,
                     failures |-> failures,
                     opened |-> IF opens THEN now ELSE circuit.opened]
      /\ log' = Append(log, now)
      /\ trip' = IF opens THEN now ELSE trip
  BY DEF RecordFailure
<1>2. failures \in Seq(Times)
  BY RecentTyped
<1> HIDE DEF failures, opens
<1>3. /\ now \in Times /\ now # None /\ log' \in Seq(Times)
      /\ circuit.state \in {"closed", "open", "half_open"} /\ circuit.opened \in Times \cup {None}
  BY <1>1, BoundsAreNumbers DEF TypeOK, Windows
<1>4. circuit' \in Windows
  BY <1>1, <1>2, <1>3 DEF Windows
<1> QED
  BY <1>1, <1>3, <1>4 DEF BreakerTyped, TypeOK

LEMMA SuccessTyped == ASSUME RecordSuccess PROVE BreakerTyped'
  BY DEF RecordSuccess, BreakerTyped, Windows

FetchTyped ==
    /\ now \in Times
    /\ robots = None \/ robots \in [verdict : Verdicts, at : Times]
    /\ pc \in [Fetchers -> {"idle", "robots", "asking", "rate", "request"}]
    /\ tries \in [Fetchers -> 0 .. MaxRetries]
    /\ result \in [Fetchers -> Results]
    /\ answer = None \/ answer \in [verdict : {"allow", "deny"}, at : Times]

LEMMA InitTypeOK == Init => TypeOK
  BY BoundsAreNumbers, FetchAssumption DEF Init, TypeOK, Windows, Times, Results

LEMMA StepBreakerTyped == TypeOK /\ [Next]_vars => BreakerTyped'
<1> SUFFICES ASSUME TypeOK, [Next]_vars PROVE BreakerTyped'
  OBVIOUS
<1>1. ASSUME UNCHANGED <<circuit, log, trip>> PROVE BreakerTyped'
  BY <1>1 DEF TypeOK, BreakerTyped
<1>2. ASSUME NEW f \in Fetchers, CheckPasses(f) PROVE BreakerTyped'
  <2>1. /\ circuit' = [state |-> IF circuit.state = "open" THEN "half_open" ELSE circuit.state,
                       failures |-> circuit.failures, opened |-> circuit.opened]
        /\ UNCHANGED <<log, trip>>
    BY <1>2 DEF CheckPasses, TypeOK, Windows
  <2> QED
    BY <2>1 DEF TypeOK, BreakerTyped, Windows
<1>3. CASE RecordSuccess
  BY <1>3, SuccessTyped
<1>4. CASE RecordFailure
  BY <1>4, FailureTyped
<1>5. CASE Tick \/ UNCHANGED vars
  BY <1>1, <1>5 DEF Tick, vars
<1>6. ASSUME NEW f \in Fetchers,
             CheckRefuses(f) \/ Cancelled(f) \/ RobotsCached(f) \/ RobotsAsk(f) \/ RateGranted(f)
               \/ RateLimited(f) \/ \E verdict \in Verdicts : RobotsAnswer(f, verdict)
      PROVE  UNCHANGED <<circuit, log, trip>>
  BY <1>6 DEF CheckRefuses, Cancelled, RobotsCached, RobotsAsk, RobotsAnswer, RateGranted,
     RateLimited, Retry
<1>7. ASSUME NEW f \in Fetchers, Response(f) \/ TransportError(f) \/ ServerError(f)
      PROVE  BreakerTyped'
  BY <1>1, <1>3, <1>4, <1>7 DEF Response, TransportError, ServerError, Retry
<1> QED
  BY <1>1, <1>2, <1>5, <1>6, <1>7 DEF Next, Progress

LEMMA StepFetchTyped == TypeOK /\ [Next]_vars => FetchTyped'
<1> SUFFICES ASSUME TypeOK, [Next]_vars PROVE FetchTyped'
  OBVIOUS
<1>1. now' \in Times
  BY FetchAssumption DEF Next, Tick, CheckPasses, CheckRefuses, Progress, RobotsCached, RobotsAsk,
     RobotsAnswer, RateGranted, Response, TransportError, RateLimited, ServerError, Cancelled,
     vars, TypeOK, Times
<1>2. /\ robots' = None \/ robots' \in [verdict : Verdicts, at : Times]
      /\ answer' = None \/ answer' \in [verdict : {"allow", "deny"}, at : Times]
  BY DEF Next, Tick, CheckPasses, CheckRefuses, Progress, RobotsCached, RobotsAsk,
     RobotsAnswer, RateGranted, Response, TransportError, RateLimited, ServerError, Cancelled,
     vars, TypeOK, Verdicts, Cached
<1>3. pc' \in [Fetchers -> {"idle", "robots", "asking", "rate", "request"}]
  BY StepPlaces DEF TypeOK, PlacesTyped
<1>4. tries' \in [Fetchers -> 0 .. MaxRetries] /\ result' \in [Fetchers -> Results]
  <2> USE FetchAssumption DEF TypeOK, Goto, End, Results
  <2>1. CASE Tick \/ UNCHANGED vars
    BY <2>1 DEF Tick, vars, fetch
  <2>2. ASSUME NEW f \in Fetchers, CheckPasses(f) \/ CheckRefuses(f) \/ Cancelled(f)
        PROVE  (tries' \in [Fetchers -> 0 .. MaxRetries] /\ result' \in [Fetchers -> Results])
    <3>1. /\ tries' = tries \/ tries' = [tries EXCEPT ![f] = 0]
          /\ \E outcome \in Results : result' = [result EXCEPT ![f] = outcome]
      BY <2>2 DEF CheckPasses, CheckRefuses, Cancelled
    <3> QED
      BY <3>1
  <2>3. ASSUME NEW f \in Fetchers, Progress(f)
        PROVE  (tries' \in [Fetchers -> 0 .. MaxRetries] /\ result' \in [Fetchers -> Results])
    BY <2>3 DEF Progress, RobotsCached, RobotsAsk, RobotsAnswer, RateGranted, Response,
       TransportError, RateLimited, ServerError, Retry, Obey
  <2> QED
    BY <2>1, <2>2, <2>3 DEF Next
<1> QED
  BY <1>1, <1>2, <1>3, <1>4 DEF FetchTyped

LEMMA StepTypeOK == TypeOK /\ [Next]_vars => TypeOK'
<1>1. TypeOK /\ [Next]_vars => BreakerTyped' /\ FetchTyped'
  BY StepBreakerTyped, StepFetchTyped
<1>2. BreakerTyped' /\ FetchTyped' => TypeOK'
  BY DEF TypeOK, BreakerTyped, FetchTyped
<1> QED
  BY <1>1, <1>2

(***************************************************************************)
(* Types of the client; and an open circuit has the date it opened, what   *)
(* CircuitBreaker.check asserts.                                           *)
(***************************************************************************)
THEOREM FetchesTyped == Spec => []TypeOK
  BY InitTypeOK, StepTypeOK, PTL DEF Spec

-----------------------------------------------------------------------------
(* What the breaker has thrown away was too old then and is older ever     *)
(* since: of the failures within the window, now or later, those it keeps  *)
(* are those it was told of since the last success.                        *)
WindowAt(u) == {t \in Times : u - t <= FailureWindow}

WindowKept ==
    \A u \in Times : u >= now => Sift(log, WindowAt(u)) = Sift(circuit.failures, WindowAt(u))

LEMMA BurstIsRecent ==
    ASSUME now \in Times, NEW times
    PROVE  /\ Burst(times) <=> Len(Sift(times, WindowAt(now))) >= Threshold
           /\ Recent(times) = Sift(times, WindowAt(now))
<1>1. {t \in Times : t >= now - FailureWindow} = WindowAt(now)
  <2>1. \A t \in Times : t >= now - FailureWindow <=> now - t <= FailureWindow
    BY FetchAssumption DEF Times
  <2> QED
    BY <2>1 DEF WindowAt
<1> QED
  BY <1>1 DEF Burst, Recent, WindowAt

LEMMA WindowSlides ==
    ASSUME NEW u \in Times, NEW v \in Times, u <= v
    PROVE  WindowAt(v) \subseteq WindowAt(u)
  BY FetchAssumption DEF WindowAt, Times

\* A failure, recorded by the breaker and by the history alike.
LEMMA FailureKept ==
    ASSUME TypeOK, WindowKept, RecordFailure, UNCHANGED now
    PROVE  /\ WindowKept'
           /\ circuit'.failures = Sift(log', WindowAt(now))
           /\ Len(circuit'.failures) >= Threshold => circuit'.state = "open"
           /\ circuit'.state = "open" => \/ circuit.state \in {"open", "half_open"}
                                         \/ Len(circuit'.failures) >= Threshold
<1> DEFINE recent == Recent(circuit.failures)
           failures == Append(recent, now)
<1>1. /\ circuit'.failures = failures
      /\ log' = Append(log, now)
      /\ Len(failures) >= Threshold => circuit'.state = "open"
      /\ circuit'.state = "open" => \/ circuit.state \in {"open", "half_open"}
                                    \/ Len(failures) >= Threshold
  BY DEF RecordFailure, TypeOK, Windows
<1>2. now \in Times /\ log \in Seq(Times) /\ circuit.failures \in Seq(Times)
  BY DEF TypeOK, Windows
<1>3. recent \in Seq(Times) /\ recent = Sift(circuit.failures, WindowAt(now))
  BY <1>2, RecentTyped, BurstIsRecent
<1>4. now \in WindowAt(now)
  BY <1>2, FetchAssumption DEF WindowAt, Times
<1>5. circuit'.failures = Sift(log', WindowAt(now))
  <2>1. Sift(Append(log, now), WindowAt(now)) = Append(Sift(log, WindowAt(now)), now)
    BY <1>2, <1>4, SiftAppend
  <2>2. now >= now
    BY <1>2, BoundsAreNumbers
  <2>3. Sift(log, WindowAt(now)) = recent
    BY <1>2, <1>3, <2>2, Zenon DEF WindowKept
  <2> QED
    BY <1>1, <2>1, <2>3
<1> HIDE DEF recent
<1>6. ASSUME NEW u \in Times, u >= now
      PROVE  Sift(log', WindowAt(u)) = Sift(circuit'.failures, WindowAt(u))
  <2>1. Sift(Append(log, now), WindowAt(u))
          = IF now \in WindowAt(u) THEN Append(Sift(log, WindowAt(u)), now)
            ELSE Sift(log, WindowAt(u))
    BY <1>2, SiftAppend
  <2>2. Sift(Append(recent, now), WindowAt(u))
          = IF now \in WindowAt(u) THEN Append(Sift(recent, WindowAt(u)), now)
            ELSE Sift(recent, WindowAt(u))
    <3>1. recent \in Seq(Times) /\ now \in Times
      BY <1>2, <1>3
    <3> QED
      BY <3>1, SiftAppend
  <2>3. Sift(recent, WindowAt(u)) = Sift(log, WindowAt(u))
    <3>1. now <= u
      BY <1>2, <1>6, BoundsAreNumbers
    <3>2. WindowAt(u) \subseteq WindowAt(now)
      BY <1>2, <3>1, WindowSlides
    <3>3. Sift(Sift(circuit.failures, WindowAt(now)), WindowAt(u))
            = Sift(circuit.failures, WindowAt(u))
      <4>1. WindowAt(u) \cap Times \subseteq WindowAt(now)
        BY <3>2
      <4> QED
        BY <1>2, <4>1, SiftFiner
    <3>4. Sift(log, WindowAt(u)) = Sift(circuit.failures, WindowAt(u))
      BY <1>6, Zenon DEF WindowKept
    <3> QED
      BY <1>3, <3>3, <3>4
  <2> QED
    BY <1>1, <2>1, <2>2, <2>3
<1>7. WindowKept'
  BY <1>6 DEF WindowKept, WindowAt
<1> QED
  BY <1>1, <1>5, <1>7

BInv == TypeOK /\ WindowKept /\ ClosedMeansQuiet

LEMMA InitBInv == Init => BInv
<1> SUFFICES ASSUME Init PROVE BInv
  OBVIOUS
<1>1. TypeOK
  BY InitTypeOK
<1>2. log = <<>> /\ circuit.failures = <<>> /\ now \in Times
  BY <1>1 DEF Init, TypeOK
<1>3. Len(Sift(log, WindowAt(now))) = 0
  BY <1>2, SiftEmpty
<1>4. ~ Burst(log)
  <2>1. ~ (0 >= Threshold)
    BY FetchAssumption
  <2> QED
    BY <1>2, <1>3, <2>1, BurstIsRecent
<1> QED
  BY <1>1, <1>2, <1>4 DEF BInv, WindowKept, ClosedMeansQuiet

\* Nothing happens to the breaker, while time may pass.
LEMMA IdleKeeps ==
    ASSUME BInv, TypeOK', now' = now \/ now' = now + 1, UNCHANGED log,
           circuit'.failures = circuit.failures,
           circuit'.state = "closed" => circuit.state = "closed"
    PROVE  BInv'
<1>1. now \in Times /\ now' \in Times /\ now <= now' /\ log \in Seq(Times)
  BY BoundsAreNumbers DEF BInv, TypeOK
<1>2. WindowKept'
  <2>1. ASSUME NEW u \in Times, u >= now' PROVE u >= now
    BY <1>1, <2>1, BoundsAreNumbers
  <2> QED
    BY <2>1 DEF BInv, WindowKept, WindowAt
<1>3. ASSUME circuit'.state = "closed" PROVE ~ Burst(log)'
  <2>1. WindowAt(now') \cap Times \subseteq WindowAt(now)
    BY <1>1, WindowSlides
  <2>2. Len(Sift(log, WindowAt(now'))) <= Len(Sift(log, WindowAt(now)))
    BY <1>1, <2>1, SiftFiner
  <2>3. /\ Len(Sift(log, WindowAt(now))) \in Nat /\ Len(Sift(log, WindowAt(now'))) \in Nat
    <3>1. Sift(log, WindowAt(now)) \in Seq(Times) /\ Sift(log, WindowAt(now')) \in Seq(Times)
      BY <1>1, SiftTyped
    <3> QED
      BY <3>1
  <2>4. ~ (Len(Sift(log, WindowAt(now))) >= Threshold)
    BY <1>1, <1>3, BurstIsRecent DEF BInv, ClosedMeansQuiet
  <2>5. ~ (Len(Sift(log, WindowAt(now'))) >= Threshold)
    BY <2>2, <2>3, <2>4, FetchAssumption
  <2>6. Burst(log)' <=> Len(Sift(log, WindowAt(now'))) >= Threshold
    <3>1. {t \in Times : t >= now' - FailureWindow} = WindowAt(now')
      <4>1. \A t \in Times : t >= now' - FailureWindow <=> now' - t <= FailureWindow
        BY <1>1, FetchAssumption DEF Times
      <4> QED
        BY <4>1 DEF WindowAt
    <3> QED
      BY <3>1 DEF Burst
  <2> QED
    BY <2>5, <2>6
<1> QED
  BY <1>2, <1>3 DEF BInv, ClosedMeansQuiet

LEMMA FailureKeeps ==
    ASSUME BInv, TypeOK', RecordFailure, UNCHANGED now
    PROVE  /\ BInv'
           /\ circuit.state = "closed" /\ circuit'.state = "open" => Burst(log')
<1>1. now \in Times
  BY DEF BInv, TypeOK
<1>2. Burst(log') <=> Len(circuit'.failures) >= Threshold
  BY <1>1, FailureKept, BurstIsRecent DEF BInv
<1>3. Burst(log)' <=> Burst(log')
  BY DEF Burst
<1> QED
  BY <1>2, <1>3, FailureKept DEF BInv, ClosedMeansQuiet

LEMMA SuccessKeeps ==
    ASSUME BInv, TypeOK', RecordSuccess, UNCHANGED now
    PROVE  BInv'
<1>1. log' = <<>> /\ circuit'.failures = <<>> /\ now \in Times
  BY DEF RecordSuccess, BInv, TypeOK
<1>2. Burst(<<>>) <=> Len(Sift(<<>>, WindowAt(now))) >= Threshold
  BY <1>1, BurstIsRecent
<1>3. Len(Sift(<<>>, WindowAt(now))) = 0
  BY SiftEmpty
<1>4. ~ (0 >= Threshold)
  BY FetchAssumption
<1>5. ~ Burst(log)'
  BY <1>1, <1>2, <1>3, <1>4 DEF Burst
<1> QED
  BY <1>1, <1>5 DEF BInv, WindowKept, ClosedMeansQuiet

LEMMA StepBInv ==
    ASSUME BInv, [Next]_vars
    PROVE  /\ BInv'
           /\ circuit.state = "closed" /\ circuit'.state = "open" => Burst(log')
<1> USE DEF BInv
<1>1. TypeOK'
  BY StepTypeOK
<1>2. ASSUME UNCHANGED <<now, circuit, log>> PROVE BInv' /\ circuit'.state = circuit.state
  BY <1>1, <1>2, IdleKeeps
<1>3. CASE Tick
  BY <1>1, <1>3, IdleKeeps DEF Tick
<1>4. ASSUME NEW f \in Fetchers, CheckPasses(f)
      PROVE  BInv' /\ ~ (circuit.state = "closed" /\ circuit'.state = "open")
  <2>1. circuit' = [state |-> IF circuit.state = "open" THEN "half_open" ELSE circuit.state,
                    failures |-> circuit.failures, opened |-> circuit.opened]
    BY <1>4 DEF CheckPasses, TypeOK, Windows
  <2> QED
    BY <1>1, <1>4, <2>1, IdleKeeps DEF CheckPasses
<1>5. ASSUME NEW f \in Fetchers,
             CheckRefuses(f) \/ Cancelled(f) \/ RobotsCached(f) \/ RobotsAsk(f) \/ RateGranted(f)
               \/ RateLimited(f) \/ \E verdict \in Verdicts : RobotsAnswer(f, verdict)
      PROVE  UNCHANGED <<now, circuit, log>>
  BY <1>5 DEF CheckRefuses, Cancelled, RobotsCached, RobotsAsk, RobotsAnswer, RateGranted,
     RateLimited, Retry
<1>6. ASSUME NEW f \in Fetchers, Response(f) PROVE BInv' /\ circuit'.state = "closed"
  BY <1>1, <1>6, SuccessKeeps DEF Response, RecordSuccess
<1>7. ASSUME NEW f \in Fetchers, TransportError(f) \/ ServerError(f)
      PROVE  UNCHANGED <<now, circuit, log>> \/ (RecordFailure /\ UNCHANGED now)
  BY <1>7 DEF TransportError, ServerError, Retry
<1>8. CASE UNCHANGED vars
  BY <1>2, <1>8 DEF vars
<1> QED
  BY <1>1, <1>2, <1>3, <1>4, <1>5, <1>6, <1>7, <1>8, FailureKeeps DEF Next, Progress, Tick

(***************************************************************************)
(* Threshold failures within the window that no success has interrupted    *)
(* never leave the circuit closed (ARCHITECTURE.md:71; circuit_breaker.py  *)
(* record_failure): what the breaker has discarded it does not miss.       *)
(***************************************************************************)
THEOREM ClosedCircuitsQuiet == Spec => []ClosedMeansQuiet
<1>1. BInv /\ [Next]_vars => BInv'
  BY StepBInv
<1>2. BInv => ClosedMeansQuiet
  BY DEF BInv
<1> QED
  BY <1>1, <1>2, InitBInv, PTL DEF Spec

(***************************************************************************)
(* A closed circuit opens on a burst only, never on failures that a        *)
(* success or the window has forgiven (record_failure, record_success).    *)
(***************************************************************************)
THEOREM CircuitsOpenOnBurst == Spec => OpensOnBurst
<1>1. BInv /\ [Next]_vars => BInv'
  BY StepBInv
<1>2. BInv /\ [Next]_vars =>
        [circuit.state = "closed" /\ circuit'.state = "open" => Burst(log')]_vars
  BY StepBInv
<1> QED
  BY <1>1, <1>2, InitBInv, PTL DEF Spec, OpensOnBurst
=============================================================================
