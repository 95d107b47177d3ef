---------------------------- MODULE RateLimiter -----------------------------
(***************************************************************************)
(* RateLimiter.acquire for one host.  With Redis, each caller reads its    *)
(* own clock, then has the Lua script run on the shared bucket, then       *)
(* sleeps for the wait it was told and starts over.  The script is atomic; *)
(* reading the clock and running the script are not one step, other        *)
(* scripts and any time may pass in between, and the clocks of two workers *)
(* need not agree.                                                         *)
(*                                                                         *)
(* Time is in ticks, tokens in parts: a request costs Cost parts and a     *)
(* tick yields Rate of them, so that Rate / Cost is the `rps'.             *)
(***************************************************************************)
EXTENDS Integers

CONSTANTS
    Callers,    \* coroutines that acquire, of one worker or of several
    Skew,       \* how far ahead of real time the clock of a caller is
    MaxSkew,    \* how far ahead it can be
    Rate,       \* parts a tick yields
    Cost,       \* parts a request takes
    Capacity,   \* parts a full bucket holds
    Expiry,     \* PEXPIRE: ticks after which an unused bucket is forgotten
    MaxTime,    \* bound on real time
    None        \* no bucket, no reading

ASSUME LimiterAssumption ==
    /\ MaxSkew \in Nat
    /\ Skew \in [Callers -> 0 .. MaxSkew]
    /\ {Rate, Cost} \subseteq Nat \ {0}
    /\ {Capacity, Expiry, MaxTime} \subseteq Nat
    /\ Cost =< Capacity
    /\ Capacity =< Rate * Expiry
    /\ None \notin [tokens : Nat, ts : Nat]

VARIABLES
    now,       \* real time
    bucket,    \* the hash in Redis: tokens and ts, or None
    written,   \* when Redis last wrote it
    pc,        \* "idle", "stamped" (clock read, script not run) or "asleep"
    stamp,     \* the clock value the caller has read
    wake,      \* when the sleep of the caller ends
    granted,   \* history: requests let through up to each time
    late,      \* history: how late the scripts were, summed up to each time
    overtaken  \* history: another caller got a token since this one fell asleep

vars == <<now, bucket, written, pc, stamp, wake, granted, late, overtaken>>

Times == 0 .. MaxTime

Init ==
    /\ now = 0
    /\ bucket = None
    /\ written = 0
    /\ pc = [c \in Callers |-> "idle"]
    /\ stamp = [c \in Callers |-> 0]
    /\ wake = [c \in Callers |-> 0]
    /\ granted = [t \in Times |-> 0]
    /\ late = [t \in Times |-> 0]
    /\ overtaken = [c \in Callers |-> FALSE]

Tick ==
    /\ now < MaxTime
    /\ now' = now + 1
    /\ granted' = [granted EXCEPT ![now + 1] = granted[now]]
    /\ late' = [late EXCEPT ![now + 1] = late[now]]
    /\ UNCHANGED <<bucket, written, pc, stamp, wake, overtaken>>

Forget ==
    /\ bucket # None
    /\ now - written >= Expiry
    /\ bucket' = None
    /\ UNCHANGED <<now, written, pc, stamp, wake, granted, late, overtaken>>

-----------------------------------------------------------------------------
ReadClock(c) ==
    /\ \/ pc[c] = "idle"
       \/ pc[c] = "asleep" /\ now >= wake[c]
    /\ stamp' = [stamp EXCEPT ![c] = now + Skew[c]]
    /\ pc' = [pc EXCEPT ![c] = "stamped"]
    /\ UNCHANGED <<now, bucket, written, wake, granted, late, overtaken>>

Floor(a, b) == a \div b
Ceil(a, b) == (a + b - 1) \div b
Least(a, b) == IF a =< b THEN a ELSE b
Most(a, b)  == IF a >= b THEN a ELSE b

\* The tokens the script finds for a caller whose clock shows t.
RefilledUncapped(t) ==
    IF bucket = None THEN Capacity
    ELSE bucket.tokens + Most(0, t - bucket.ts) * Rate

Refilled(t) ==
    IF bucket = None THEN Capacity
    ELSE Least(Capacity, bucket.tokens + Most(0, t - bucket.ts) * Rate)

\* How far behind the fastest clock the reading is when its script runs.
Lag(c) == now + MaxSkew - stamp[c]

\* The script writes the bucket whether it grants or not, and the reading of its
\* caller as the time of the bucket even where that takes the time back.
EvalGrants(c) ==
    /\ pc[c] = "stamped"
    /\ Refilled(stamp[c]) >= Cost
    /\ bucket' = [tokens |-> Refilled(stamp[c]) - Cost, ts |-> stamp[c]]
    /\ written' = now
    /\ granted' = [granted EXCEPT ![now] = @ + 1]
    /\ late' = [late EXCEPT ![now] = @ + Lag(c)]
    /\ overtaken' = [d \in Callers |-> overtaken[d] \/ d # c]
    /\ pc' = [pc EXCEPT ![c] = "idle"]
    /\ UNCHANGED <<now, stamp, wake>>

EvalWaits(c) ==
    /\ pc[c] = "stamped"
    /\ Refilled(stamp[c]) < Cost
    /\ bucket' = [tokens |-> Refilled(stamp[c]), ts |-> stamp[c]]
    /\ written' = now
    /\ late' = [late EXCEPT ![now] = @ + Lag(c)]
    /\ wake' = [wake EXCEPT ![c] = now + Ceil(Cost - Refilled(stamp[c]), Rate)]
    /\ overtaken' = [overtaken EXCEPT ![c] = FALSE]
    /\ pc' = [pc EXCEPT ![c] = "asleep"]
    /\ UNCHANGED <<now, stamp, granted>>

Next ==
    \/ Tick
    \/ Forget
    \/ \E c \in Callers : ReadClock(c) \/ EvalGrants(c) \/ EvalWaits(c)

Spec == Init /\ [][Next]_vars

-----------------------------------------------------------------------------
TypeOK ==
    /\ now \in Times
    /\ bucket = None \/ bucket \in [tokens : 0 .. Capacity, ts : Nat]
    /\ written \in Times
    /\ pc \in [Callers -> {"idle", "stamped", "asleep"}]
    /\ stamp \in [Callers -> Nat]
    /\ wake \in [Callers -> Nat]
    /\ granted \in [Times -> Nat]
    /\ late \in [Times -> Nat]
    /\ overtaken \in [Callers -> BOOLEAN]

\* What a history has counted in the times from .. to.
Within(counts, from, to) == counts[to] - (IF from = 0 THEN 0 ELSE counts[from - 1])

(***************************************************************************)
(* What the token bucket keeps to (rate_limiter.py:3, the Lua script),     *)
(* with the reading of the clock, the script and the clocks of the workers *)
(* as they are: a stretch of time lets through what a full bucket holds,   *)
(* what the stretch yields, and what the lateness of its scripts yields    *)
(* once more, and nothing else adds to it, however many callers contend.   *)
(***************************************************************************)
BucketBound ==
    \A from \in 0 .. now : \A to \in from .. now :
        Cost * Within(granted, from, to)
            =< Capacity + Rate * ((to - from) + Within(late, from, to))

(***************************************************************************)
(* The wait the script returns is enough: a caller that wakes finds its    *)
(* token unless another caller was given one in the meantime, and nobody   *)
(* else's turn in between, which rewrites the bucket and its clock, takes  *)
(* anything away (the ceiling of the script, fractional rates included).   *)
(***************************************************************************)
WaitSuffices ==
    \A c \in Callers :
        pc[c] = "asleep" /\ now >= wake[c] /\ ~ overtaken[c] => Refilled(now + Skew[c]) >= Cost
=============================================================================
