-------------------------- MODULE RateLimiterProofs --------------------------
(***************************************************************************)
(* For any number of callers, any rate, clocks that differ and scripts     *)
(* that run as late as they like: the wait the script returns is enough,   *)
(* and a stretch of time lets through no more than a full bucket, its      *)
(* yield and the yield of the lateness of its scripts.                     *)
(***************************************************************************)
EXTENDS RateLimiter, TLAPS

-----------------------------------------------------------------------------
(* Arithmetic.                                                             *)

LEMMA CeilCovers ==
    ASSUME NEW a \in Nat, NEW b \in Nat \ {0}
    PROVE  Ceil(a, b) \in Nat /\ Ceil(a, b) * b >= a
<1> DEFINE q == (a + b - 1) \div b
           r == (a + b - 1) % b
<1>1. a + b - 1 \in Nat
  OBVIOUS
<1>2. q \in Int /\ r \in 0 .. b - 1 /\ a + b - 1 = b * q + r
  BY <1>1
<1> HIDE DEF q, r
<1>3. b * q >= a
  BY <1>2
<1>4. q >= 0
  <2>1. CASE q <= -1
    BY <2>1, <1>2, <1>3
  <2> QED
    BY <2>1, <1>2
<1>5. q * b = b * q
  BY <1>2
<1> QED
  BY <1>2, <1>3, <1>4, <1>5 DEF Ceil, q

LEMMA MostTyped ==
    ASSUME NEW a \in Int
    PROVE  Most(0, a) \in Nat /\ Most(0, a) >= a
  BY DEF Most

LEMMA TimesRate ==
    ASSUME NEW a \in Nat, NEW b \in Nat, NEW r \in Nat, a <= b
    PROVE  a * r \in Nat /\ a * r <= b * r
<1>1. PICK d \in Nat : b = a + d
  <2>1. b - a \in Nat /\ b = a + (b - a)
    OBVIOUS
  <2> QED
    BY <2>1
<1>2. b * r = a * r + d * r
  BY <1>1
<1>3. a * r \in Nat /\ d * r \in Nat
  BY <1>1
<1> QED
  BY <1>2, <1>3

-----------------------------------------------------------------------------
(* What the script finds.                                                  *)

LEMMA ConstantsTyped ==
    /\ Rate \in Nat \ {0} /\ Cost \in Nat \ {0}
    /\ Capacity \in Nat /\ MaxTime \in Nat
    /\ Cost <= Capacity
    /\ MaxSkew \in Nat /\ Skew \in [Callers -> Nat]
    /\ \A c \in Callers : Skew[c] <= MaxSkew
  BY LimiterAssumption

\* The credit of a bucket that is read at t.
Credit(t) == bucket.tokens + Most(0, t - bucket.ts) * Rate

LEMMA CreditGrows ==
    ASSUME TypeOK, bucket # None, NEW t \in Nat, NEW u \in Nat, t <= u
    PROVE  Credit(t) \in Nat /\ Credit(t) <= Credit(u) /\ bucket.tokens <= Credit(t)
<1>1. bucket.tokens \in Nat /\ bucket.ts \in Nat
  BY ConstantsTyped DEF TypeOK
<1>2. Most(0, t - bucket.ts) \in Nat /\ Most(0, u - bucket.ts) \in Nat
  BY <1>1, MostTyped
<1>3. Most(0, t - bucket.ts) <= Most(0, u - bucket.ts)
  BY <1>1 DEF Most
<1>4. /\ Most(0, t - bucket.ts) * Rate \in Nat
      /\ Most(0, t - bucket.ts) * Rate <= Most(0, u - bucket.ts) * Rate
  BY <1>2, <1>3, TimesRate, ConstantsTyped
<1>5. Most(0, u - bucket.ts) * Rate \in Nat
  BY <1>2, TimesRate, ConstantsTyped
<1> QED
  BY <1>1, <1>4, <1>5 DEF Credit

LEMMA RefilledTyped ==
    ASSUME TypeOK, NEW t \in Nat
    PROVE  /\ Refilled(t) \in 0 .. Capacity
           /\ Refilled(t) < Cost => bucket # None /\ Refilled(t) = Credit(t)
           /\ Credit(t) >= Cost => Refilled(t) >= Cost
           /\ bucket = None => Refilled(t) >= Cost
<1>1. CASE bucket = None
  BY <1>1, ConstantsTyped DEF Refilled
<1>2. CASE bucket # None
  <2>1. Refilled(t) = Least(Capacity, Credit(t))
    BY <1>2 DEF Refilled, Credit
  <2>2. Credit(t) \in Nat
    BY <1>2, CreditGrows
  <2> QED
    BY <1>2, <2>1, <2>2, ConstantsTyped DEF Least
<1> QED
  BY <1>1, <1>2

-----------------------------------------------------------------------------
(* Types.                                                                  *)

LEMMA InitTypeOK == Init => TypeOK
  BY ConstantsTyped DEF Init, TypeOK, Times

\* A reading is never ahead of the caller's own clock, nor of the fastest one.
StampPast == \A c \in Callers : pc[c] = "stamped" => stamp[c] <= now + Skew[c]

LEMMA LagTyped ==
    ASSUME TypeOK, StampPast, NEW c \in Callers, pc[c] = "stamped"
    PROVE  stamp[c] \in Nat /\ stamp[c] <= now + MaxSkew /\ Lag(c) \in Nat
<1>1. stamp[c] \in Nat /\ now \in Nat /\ Skew[c] \in Nat /\ MaxSkew \in Nat
  BY ConstantsTyped DEF TypeOK, Times
<1>2. stamp[c] <= now + Skew[c] /\ Skew[c] <= MaxSkew
  BY ConstantsTyped DEF StampPast
<1> QED
  BY <1>1, <1>2 DEF Lag

LEMMA LateTyped ==
    ASSUME TypeOK, StampPast, NEW c \in Callers, EvalGrants(c) \/ EvalWaits(c)
    PROVE  late' \in [Times -> Nat]
<1>1. Lag(c) \in Nat /\ now \in Times /\ late[now] \in Nat
  BY LagTyped DEF EvalGrants, EvalWaits, TypeOK
<1> QED
  BY <1>1 DEF EvalGrants, EvalWaits, TypeOK

LEMMA StepTypeOK == TypeOK /\ StampPast /\ [Next]_vars => TypeOK'
<1> SUFFICES ASSUME TypeOK, StampPast, [Next]_vars PROVE TypeOK'
  OBVIOUS
<1>1. CASE Tick
  <2>1. now \in Times /\ now + 1 \in Times /\ granted[now] \in Nat /\ late[now] \in Nat
    BY <1>1, ConstantsTyped DEF TypeOK, Tick, Times
  <2> QED
    BY <1>1, <2>1 DEF TypeOK, Tick
<1>2. CASE Forget
  BY <1>2 DEF TypeOK, Forget
<1>3. ASSUME NEW c \in Callers, ReadClock(c) PROVE TypeOK'
  <2>1. now + Skew[c] \in Nat
    BY ConstantsTyped DEF TypeOK, Times
  <2> QED
    BY <1>3, <2>1 DEF TypeOK, ReadClock
<1>4. ASSUME NEW c \in Callers, EvalGrants(c) PROVE TypeOK'
  <2>1. stamp[c] \in Nat /\ Refilled(stamp[c]) - Cost \in 0 .. Capacity
    BY <1>4, RefilledTyped, ConstantsTyped DEF TypeOK, EvalGrants
  <2>2. granted' \in [Times -> Nat]
    BY <1>4 DEF TypeOK, EvalGrants
  <2>3. overtaken' \in [Callers -> BOOLEAN]
    BY <1>4, Zenon DEF TypeOK, EvalGrants
  <2>4. bucket' \in [tokens : 0 .. Capacity, ts : Nat]
    BY <1>4, <2>1 DEF EvalGrants
  <2> QED
    BY <1>4, <2>2, <2>3, <2>4, LateTyped DEF TypeOK, EvalGrants
<1>5. ASSUME NEW c \in Callers, EvalWaits(c) PROVE TypeOK'
  <2>1. stamp[c] \in Nat /\ Refilled(stamp[c]) \in 0 .. Capacity
    BY RefilledTyped DEF TypeOK
  <2>2. Cost - Refilled(stamp[c]) \in Nat
    BY <1>5, <2>1, ConstantsTyped DEF EvalWaits
  <2>3. now + Ceil(Cost - Refilled(stamp[c]), Rate) \in Nat
    <3> HIDE DEF Ceil
    <3>1. Ceil(Cost - Refilled(stamp[c]), Rate) \in Nat
      BY <2>2, CeilCovers, ConstantsTyped
    <3> QED
      BY <3>1, ConstantsTyped DEF TypeOK, Times
  <2>4. wake' \in [Callers -> Nat]
    BY <1>5, <2>3 DEF TypeOK, EvalWaits
  <2>5. overtaken' \in [Callers -> BOOLEAN]
    BY <1>5, Zenon DEF TypeOK, EvalWaits
  <2>6. bucket' \in [tokens : 0 .. Capacity, ts : Nat]
    BY <1>5, <2>1 DEF EvalWaits
  <2> QED
    BY <1>5, <2>4, <2>5, <2>6, LateTyped DEF TypeOK, EvalWaits
<1>6. CASE UNCHANGED vars
  BY <1>6 DEF TypeOK, vars
<1> QED
  BY <1>1, <1>2, <1>3, <1>4, <1>5, <1>6 DEF Next

-----------------------------------------------------------------------------
(* The credit of the bucket at the end of a sleep covers the sleeper's     *)
(* token.                                                                  *)
Covered(c) == bucket = None \/ Credit(wake[c] + Skew[c]) >= Cost

SleepCovered == \A c \in Callers : pc[c] = "asleep" /\ ~ overtaken[c] => Covered(c)

IInv == TypeOK /\ StampPast /\ SleepCovered

LEMMA StampStep == TypeOK /\ StampPast /\ [Next]_vars => StampPast'
<1> SUFFICES ASSUME TypeOK, StampPast, [Next]_vars PROVE StampPast'
  OBVIOUS
<1> USE ConstantsTyped DEF TypeOK, Times, StampPast
<1>1. CASE Tick
  BY <1>1 DEF Tick
<1>2. ASSUME NEW c \in Callers, ReadClock(c) PROVE StampPast'
  BY <1>2 DEF ReadClock
<1>3. ASSUME NEW c \in Callers, EvalGrants(c) \/ EvalWaits(c) PROVE StampPast'
  BY <1>3 DEF EvalGrants, EvalWaits
<1>4. CASE Forget \/ UNCHANGED vars
  BY <1>4 DEF Forget, vars
<1> QED
  BY <1>1, <1>2, <1>3, <1>4 DEF Next

\* The sleep of the caller itself is as long as what is missing.
LEMMA OwnSleepCovered ==
    ASSUME IInv, NEW c \in Callers, EvalWaits(c)
    PROVE  Covered(c)'
<1> DEFINE s == stamp[c]
           missing == Cost - Refilled(s)
           sleep == Ceil(missing, Rate)
<1>1. s \in Nat /\ Refilled(s) \in 0 .. Capacity /\ now \in Nat /\ Skew[c] \in Nat
  BY RefilledTyped, ConstantsTyped DEF IInv, TypeOK, Times
<1>2. missing \in Nat
  BY <1>1, ConstantsTyped DEF EvalWaits
<1>3. sleep \in Nat /\ sleep * Rate >= missing
  BY <1>2, CeilCovers, ConstantsTyped
<1>4. wake'[c] = now + sleep /\ bucket' = [tokens |-> Refilled(s), ts |-> s]
  BY DEF EvalWaits, IInv, TypeOK
<1>5. s <= now + Skew[c]
  BY DEF EvalWaits, IInv, StampPast
<1> DEFINE slack == (wake'[c] + Skew[c]) - s
<1>6. slack \in Nat /\ sleep <= slack
  <2> HIDE DEF s, sleep
  <2> QED
    BY <1>1, <1>3, <1>4, <1>5
<1> HIDE DEF s, missing, sleep
<1>7. Most(0, slack) = slack
  <2> HIDE DEF slack
  <2> QED
    BY <1>6 DEF Most
<1>8. slack * Rate \in Nat /\ sleep * Rate <= slack * Rate /\ sleep * Rate \in Nat
  BY <1>3, <1>6, TimesRate, ConstantsTyped
<1>9. Refilled(s) + slack * Rate >= Cost
  <2> HIDE DEF slack
  <2> QED
    BY <1>1, <1>3, <1>8, ConstantsTyped DEF missing
<1>10. Credit(wake[c] + Skew[c])' = Refilled(s) + slack * Rate
  <2>1. bucket'.tokens = Refilled(s) /\ bucket'.ts = s
    BY <1>4
  <2>2. Credit(wake[c] + Skew[c])' = bucket'.tokens + Most(0, slack) * Rate
    BY <2>1 DEF Credit
  <2> HIDE DEF slack
  <2> QED
    BY <1>7, <2>1, <2>2
<1> QED
  BY <1>9, <1>10 DEF Covered

\* The turn of another caller that gets nothing takes nothing away.
LEMMA OtherTurnCovered ==
    ASSUME IInv, NEW c \in Callers, NEW d \in Callers, c # d, EvalWaits(c), Covered(d)
    PROVE  Covered(d)'
<1> DEFINE s == stamp[c]
           w == wake[d] + Skew[d]
<1>1. s \in Nat /\ w \in Nat
  BY ConstantsTyped DEF IInv, TypeOK
<1>2. bucket # None /\ Refilled(s) = Credit(s)
  BY <1>1, RefilledTyped DEF EvalWaits, IInv
<1>3. bucket.tokens \in Nat /\ bucket.ts \in Nat
  BY <1>2, ConstantsTyped DEF IInv, TypeOK
<1>4. wake'[d] = wake[d] /\ bucket' = [tokens |-> Refilled(s), ts |-> s]
  BY DEF EvalWaits, IInv, TypeOK
<1> HIDE DEF s, w
<1> DEFINE x == Most(0, s - bucket.ts)
           y == Most(0, w - s)
           z == Most(0, w - bucket.ts)
<1>5. x \in Nat /\ y \in Nat /\ z \in Nat /\ z <= x + y
  BY <1>1, <1>3 DEF Most
<1>6. Credit(w) = bucket.tokens + z * Rate /\ Credit(s) = bucket.tokens + x * Rate
  BY DEF Credit
<1>7. Credit(w)' = Refilled(s) + y * Rate
  <2>1. w' = w
    BY <1>4 DEF w
  <2> QED
    BY <1>4, <2>1 DEF Credit
<1> HIDE DEF x, y, z
<1>8. z * Rate \in Nat /\ z * Rate <= (x + y) * Rate
  BY <1>5, TimesRate, ConstantsTyped
<1>9. (x + y) * Rate = x * Rate + y * Rate /\ x * Rate \in Nat /\ y * Rate \in Nat
  BY <1>5, TimesRate, ConstantsTyped
<1>10. Credit(w) >= Cost
  BY <1>2 DEF Covered, w
<1>11. Credit(w)' >= Cost
  BY <1>2, <1>3, <1>6, <1>7, <1>8, <1>9, <1>10, ConstantsTyped
<1> QED
  BY <1>11 DEF Covered, w

LEMMA SleepStep == IInv /\ [Next]_vars => SleepCovered'
<1> SUFFICES ASSUME IInv, [Next]_vars, NEW d \in Callers,
                    pc'[d] = "asleep", ~ overtaken'[d]
             PROVE  Covered(d)'
  BY DEF SleepCovered
<1> USE DEF IInv
<1>1. CASE Tick \/ UNCHANGED vars
  BY <1>1 DEF Tick, vars, SleepCovered, Covered, Credit
<1>2. CASE Forget
  BY <1>2 DEF Forget, Covered
<1>3. ASSUME NEW c \in Callers, ReadClock(c) PROVE Covered(d)'
  <2>1. pc[d] = "asleep" /\ ~ overtaken[d]
    BY <1>3 DEF ReadClock, TypeOK
  <2> QED
    BY <1>3, <2>1 DEF ReadClock, SleepCovered, Covered, Credit
<1>4. ASSUME NEW c \in Callers, EvalGrants(c) PROVE Covered(d)'
  <2>1. pc'[c] = "idle" /\ (d # c => overtaken'[d])
    BY <1>4, Zenon DEF EvalGrants, TypeOK
  <2> QED
    BY <2>1
<1>5. ASSUME NEW c \in Callers, EvalWaits(c) PROVE Covered(d)'
  <2>1. CASE d = c
    BY <1>5, <2>1, OwnSleepCovered
  <2>2. CASE d # c
    <3>1. pc[d] = "asleep" /\ ~ overtaken[d]
      BY <1>5, <2>2 DEF EvalWaits, TypeOK
    <3> QED
      BY <1>5, <2>2, <3>1, OtherTurnCovered DEF SleepCovered
  <2> QED
    BY <2>1, <2>2
<1> QED
  BY <1>1, <1>2, <1>3, <1>4, <1>5 DEF Next

LEMMA IInvInvariant == Spec => []IInv
<1>1. Init => IInv
  BY InitTypeOK DEF Init, IInv, StampPast, SleepCovered
<1>2. IInv /\ [Next]_vars => IInv'
  BY StepTypeOK, StampStep, SleepStep DEF IInv
<1> QED
  BY <1>1, <1>2, PTL DEF Spec

(***************************************************************************)
(* Types of the limiter: the bucket never holds less than nothing or more  *)
(* than its capacity, whatever the clocks of its callers show.             *)
(***************************************************************************)
THEOREM LimiterTyped == Spec => []TypeOK
<1>1. IInv => TypeOK
  BY DEF IInv
<1> QED
  BY <1>1, IInvInvariant, PTL

(***************************************************************************)
(* The wait the script returns is enough (rate_limiter.py, the ceiling of  *)
(* the Lua script), for any number of callers and for clocks that differ.  *)
(***************************************************************************)
THEOREM WaitsSuffice == Spec => []WaitSuffices
<1>1. IInv => WaitSuffices
  <2> SUFFICES ASSUME IInv, NEW c \in Callers,
                      pc[c] = "asleep", now >= wake[c], ~ overtaken[c]
               PROVE  Refilled(now + Skew[c]) >= Cost
    BY DEF WaitSuffices
  <2>1. /\ now + Skew[c] \in Nat /\ wake[c] + Skew[c] \in Nat
        /\ wake[c] + Skew[c] <= now + Skew[c]
    BY ConstantsTyped DEF IInv, TypeOK, Times
  <2>2. CASE bucket = None
    BY <2>1, <2>2, RefilledTyped DEF IInv
  <2>3. CASE bucket # None
    <3>1. Credit(wake[c] + Skew[c]) >= Cost
      BY <2>3 DEF IInv, SleepCovered, Covered
    <3>2. /\ Credit(wake[c] + Skew[c]) \in Nat /\ Credit(now + Skew[c]) \in Nat
          /\ Credit(wake[c] + Skew[c]) <= Credit(now + Skew[c])
      BY <2>1, <2>3, CreditGrows DEF IInv
    <3>3. Credit(now + Skew[c]) >= Cost
      BY <3>1, <3>2, ConstantsTyped
    <3> QED
      BY <2>1, <3>3, RefilledTyped DEF IInv
  <2> QED
    BY <2>2, <2>3
<1> QED
  BY <1>1, IInvInvariant, PTL

-----------------------------------------------------------------------------
(* What a history counts within a stretch.                                 *)

LEMMA WithinTyped ==
    ASSUME NEW h \in [Times -> Nat], NEW to \in Times, NEW from \in 0 .. to
    PROVE  Within(h, from, to) \in Int
<1>1. h[to] \in Nat
  OBVIOUS
<1>2. CASE from = 0
  BY <1>1, <1>2 DEF Within
<1>3. CASE from # 0
  <2>1. from - 1 \in Times
    BY <1>3, ConstantsTyped DEF Times
  <2>2. h[from - 1] \in Nat
    BY <2>1
  <2> QED
    BY <1>1, <1>3, <2>2 DEF Within
<1> QED
  BY <1>2, <1>3

\* Counts before now stay as they are, and the one of now is raised.
LEMMA WithinAdds ==
    ASSUME NEW h \in [Times -> Nat], NEW n \in Times, NEW k \in Nat, NEW from \in 0 .. n
    PROVE  Within([h EXCEPT ![n] = @ + k], from, n) = Within(h, from, n) + k
<1> DEFINE g == [h EXCEPT ![n] = @ + k]
<1>1. g[n] = h[n] + k /\ h[n] \in Nat
  OBVIOUS
<1>2. CASE from = 0
  BY <1>1, <1>2 DEF Within
<1>3. CASE from # 0
  <2>1. from - 1 \in Times /\ from - 1 # n
    BY <1>3, ConstantsTyped DEF Times
  <2>2. g[from - 1] = h[from - 1] /\ h[from - 1] \in Nat
    BY <2>1
  <2> HIDE DEF g
  <2> QED
    BY <1>1, <1>3, <2>2 DEF Within, g
<1> QED
  BY <1>2, <1>3

LEMMA WithinTick ==
    ASSUME NEW h \in [Times -> Nat], NEW n \in Times, n + 1 \in Times, NEW from \in 0 .. n + 1
    PROVE  Within([h EXCEPT ![n + 1] = h[n]], from, n + 1)
             = IF from = n + 1 THEN 0 ELSE Within(h, from, n)
<1> DEFINE g == [h EXCEPT ![n + 1] = h[n]]
<1>0. n \in Nat /\ from \in Nat
  BY ConstantsTyped DEF Times
<1>1. g[n + 1] = h[n] /\ h[n] \in Nat
  OBVIOUS
<1>2. CASE from = 0
  BY <1>0, <1>1, <1>2 DEF Within
<1>3. CASE from # 0
  <2>1. from - 1 \in Times /\ from - 1 # n + 1
    BY <1>0, <1>3, ConstantsTyped DEF Times
  <2>2. g[from - 1] = h[from - 1] /\ h[from - 1] \in Nat
    BY <2>1
  <2>3. from = n + 1 => from - 1 = n
    BY <1>0
  <2> HIDE DEF g
  <2>4. Within(g, from, n + 1) = h[n] - h[from - 1] /\ Within(h, from, n) = h[n] - h[from - 1]
    BY <1>1, <1>3, <2>2 DEF Within
  <2> QED
    BY <1>1, <2>2, <2>3, <2>4 DEF g
<1> QED
  BY <1>2, <1>3

LEMMA WithinPast ==
    ASSUME NEW h, NEW g, NEW to \in Nat, NEW from \in 0 .. to, \A t \in 0 .. to : g[t] = h[t]
    PROVE  Within(g, from, to) = Within(h, from, to)
<1>1. g[to] = h[to] /\ (from # 0 => g[from - 1] = h[from - 1])
  OBVIOUS
<1> QED
  BY <1>1 DEF Within

-----------------------------------------------------------------------------
(* The bucket bound.  No clock is ahead of Front, so the bucket is worth   *)
(* at most Level to anyone; what was let through since any moment plus     *)
(* Level never exceeds a full bucket and the yield of the time since and   *)
(* of the lateness since.                                                  *)
Front == now + MaxSkew
Level == Refilled(Front)

InTime == written <= now /\ (bucket # None => bucket.ts <= written + MaxSkew)

Spent(from)   == Cost * Within(granted, from, now)
Elapsed(from) == (now - from) + Within(late, from, now)
Yield(n)      == Rate * n

Balanced == \A from \in 0 .. now : Spent(from) + Level <= Capacity + Yield(Elapsed(from))

BInv == IInv /\ InTime /\ Balanced /\ BucketBound

LEMMA RateAdds ==
    ASSUME NEW a \in Int, NEW b \in Int
    PROVE  Yield(a) \in Int /\ Yield(a + b) = Yield(a) + Yield(b)
  BY ConstantsTyped DEF Yield

LEMMA CostAdds ==
    ASSUME NEW a \in Int
    PROVE  Cost * a \in Int /\ Cost * (a + 1) = Cost * a + Cost
  BY ConstantsTyped

LEMMA NowTyped ==
    ASSUME TypeOK
    PROVE  now \in Nat /\ now \in Times /\ written \in Nat /\ Front \in Nat
  BY ConstantsTyped DEF TypeOK, Times, Front

LEMMA SpentTyped ==
    ASSUME TypeOK, NEW from \in 0 .. now
    PROVE  /\ Within(granted, from, now) \in Int /\ Spent(from) \in Int
           /\ Within(late, from, now) \in Int /\ Elapsed(from) \in Int
           /\ Yield(Elapsed(from)) \in Int
<1>1. Within(granted, from, now) \in Int /\ Within(late, from, now) \in Int
  BY NowTyped, WithinTyped DEF TypeOK
<1>2. Elapsed(from) \in Int
  BY <1>1, NowTyped DEF Elapsed
<1> QED
  BY <1>1, <1>2, CostAdds, RateAdds DEF Spent

LEMMA LevelTyped == ASSUME TypeOK PROVE Level \in 0 .. Capacity
  BY NowTyped, RefilledTyped DEF Level

LEMMA LevelStays ==
    ASSUME now' = now, bucket' = bucket
    PROVE  Level' = Level
  BY DEF Level, Front, Refilled

LEMMA InTimeStep == TypeOK /\ StampPast /\ InTime /\ [Next]_vars => InTime'
<1> SUFFICES ASSUME TypeOK, StampPast, InTime, [Next]_vars PROVE InTime'
  OBVIOUS
<1> USE NowTyped, ConstantsTyped DEF InTime
<1>1. CASE Tick
  BY <1>1 DEF Tick
<1>2. CASE Forget
  BY <1>2 DEF Forget
<1>3. ASSUME NEW c \in Callers, ReadClock(c) PROVE InTime'
  BY <1>3 DEF ReadClock
<1>4. ASSUME NEW c \in Callers, EvalGrants(c) \/ EvalWaits(c) PROVE InTime'
  <2>1. stamp[c] <= now + MaxSkew
    BY <1>4, LagTyped DEF EvalGrants, EvalWaits
  <2>2. written' = now /\ now' = now /\ bucket'.ts = stamp[c]
    BY <1>4 DEF EvalGrants, EvalWaits
  <2> QED
    BY <2>1, <2>2
<1>5. CASE UNCHANGED vars
  BY <1>5 DEF vars
<1> QED
  BY <1>1, <1>2, <1>3, <1>4, <1>5 DEF Next

\* One tick is worth its rate.
LEMMA LevelAfterTick ==
    ASSUME TypeOK, InTime, Tick
    PROVE  Level' <= Level + Rate /\ Level' \in 0 .. Capacity
<1>1. Front \in Nat /\ Front + 1 \in Nat /\ Front' = Front + 1 /\ bucket' = bucket
  BY NowTyped, ConstantsTyped DEF Tick, Front
<1>2. Level' = Refilled(Front + 1)
  BY <1>1 DEF Level, Refilled
<1>3. Level \in 0 .. Capacity /\ Level' \in 0 .. Capacity
  BY <1>1, <1>2, LevelTyped, RefilledTyped
<1>4. CASE bucket = None
  BY <1>2, <1>3, <1>4, ConstantsTyped DEF Level, Refilled
<1>5. CASE bucket # None
  <2> DEFINE n == Front - bucket.ts
             tokens == bucket.tokens
  <2>1. n \in Nat /\ tokens \in Nat
    <3>1. bucket.ts \in Nat /\ tokens \in Nat
      BY <1>5, ConstantsTyped DEF TypeOK
    <3> QED
      BY <1>5, <3>1, NowTyped, ConstantsTyped DEF InTime, Front
  <2>2. Most(0, n) = n /\ Most(0, (Front + 1) - bucket.ts) = n + 1
    <3>1. bucket.ts \in Nat
      BY <1>5 DEF TypeOK
    <3>2. (Front + 1) - bucket.ts = n + 1
      BY <1>1, <3>1
    <3> HIDE DEF n
    <3> QED
      BY <2>1, <3>2 DEF Most
  <2>3. Level = Least(Capacity, tokens + n * Rate)
    BY <1>5, <2>2 DEF Level, Refilled
  <2>4. Level' = Least(Capacity, tokens + (n + 1) * Rate)
    BY <1>2, <1>5, <2>2 DEF Refilled
  <2> HIDE DEF n, tokens
  <2>5. n * Rate \in Nat /\ (n + 1) * Rate = n * Rate + Rate
    BY <2>1, ConstantsTyped
  <2>6. Level' <= Level + Rate
    BY <2>1, <2>3, <2>4, <2>5, ConstantsTyped DEF Least
  <2> QED
    BY <1>3, <2>6
<1> QED
  BY <1>4, <1>5

\* A bucket that Redis forgets was full: the expiry outlasts the refill.
LEMMA LevelAfterForget ==
    ASSUME TypeOK, InTime, Forget
    PROVE  Level' = Level
<1>1. now \in Nat /\ written \in Nat /\ bucket # None /\ bucket' = None /\ Expiry <= now - written
  BY NowTyped DEF Forget
<1>2. Level' = Capacity
  BY <1>1 DEF Level, Refilled
<1>3. Expiry \in Nat /\ Capacity <= Rate * Expiry
  BY LimiterAssumption
<1> DEFINE n == Front - bucket.ts
           tokens == bucket.tokens
<1>4. tokens \in Nat /\ n \in Nat /\ Expiry <= n
  <2>1. bucket.ts \in Nat /\ tokens \in Nat
    BY <1>1, ConstantsTyped DEF TypeOK
  <2> QED
    BY <1>1, <1>3, <2>1, ConstantsTyped DEF InTime, Front
<1>5. Level = Least(Capacity, tokens + Most(0, n) * Rate)
  BY <1>1 DEF Level, Refilled
<1> HIDE DEF n, tokens
<1>6. Most(0, n) = n
  BY <1>4 DEF Most
<1>7. Expiry * Rate <= n * Rate /\ n * Rate \in Nat /\ Expiry * Rate = Rate * Expiry
  BY <1>3, <1>4, TimesRate, ConstantsTyped
<1>8. Capacity <= tokens + n * Rate
  BY <1>3, <1>4, <1>7, ConstantsTyped
<1>9. Level = Capacity
  BY <1>4, <1>5, <1>6, <1>7, <1>8, ConstantsTyped DEF Least
<1> QED
  BY <1>2, <1>9

\* A caller finds no more than Level.
LEMMA FindsNoMore ==
    ASSUME TypeOK, NEW t \in Nat, t <= Front
    PROVE  Refilled(t) <= Level
<1>1. CASE bucket = None
  BY <1>1, ConstantsTyped DEF Level, Refilled
<1>2. CASE bucket # None
  <2>1. Credit(t) \in Nat /\ Credit(Front) \in Nat /\ Credit(t) <= Credit(Front)
    BY <1>2, NowTyped, CreditGrows
  <2>2. Refilled(t) = Least(Capacity, Credit(t)) /\ Level = Least(Capacity, Credit(Front))
    BY <1>2 DEF Refilled, Credit, Level
  <2> QED
    BY <2>1, <2>2, ConstantsTyped DEF Least
<1> QED
  BY <1>1, <1>2

\* A script gives back at most the yield of its lateness.
LEMMA LevelAfterWrite ==
    ASSUME TypeOK, StampPast, NEW c \in Callers, pc[c] = "stamped", NEW left \in 0 .. Capacity,
           now' = now, bucket' = [tokens |-> left, ts |-> stamp[c]]
    PROVE  Level' \in Nat /\ Level' <= left + Yield(Lag(c))
<1>1. stamp[c] \in Nat /\ Lag(c) \in Nat /\ Front \in Nat
  BY LagTyped, NowTyped
<1>2. bucket' # None /\ bucket'.tokens = left /\ bucket'.ts = stamp[c]
  BY <1>1, LimiterAssumption
<1>3. Level' = Least(Capacity, left + Most(0, Front - stamp[c]) * Rate)
  BY <1>2 DEF Level, Refilled, Front
<1>4. Most(0, Front - stamp[c]) = Lag(c)
  <2>1. Front - stamp[c] = Lag(c)
    BY <1>1, NowTyped, ConstantsTyped DEF Front, Lag
  <2> QED
    BY <1>1, <2>1 DEF Most
<1> DEFINE n == Lag(c)
<1> HIDE DEF n
<1>5. n \in Nat /\ n * Rate = Yield(n) /\ n * Rate \in Nat
  BY <1>1, ConstantsTyped DEF Yield, n
<1>6. Level' = Least(Capacity, left + n * Rate)
  BY <1>3, <1>4 DEF n
<1>7. Level' \in Nat /\ Level' <= left + n * Rate
  BY <1>5, <1>6, ConstantsTyped DEF Least
<1> QED
  BY <1>5, <1>7 DEF n

LEMMA LevelAfterScript ==
    ASSUME TypeOK, StampPast, NEW c \in Callers
    PROVE  /\ EvalGrants(c) => Level' \in Nat /\ Level' <= (Level - Cost) + Yield(Lag(c))
           /\ EvalWaits(c) => Level' \in Nat /\ Level' <= Level + Yield(Lag(c))
<1>1. ASSUME EvalGrants(c) \/ EvalWaits(c)
      PROVE  /\ pc[c] = "stamped" /\ Refilled(stamp[c]) \in 0 .. Capacity
             /\ Refilled(stamp[c]) <= Level /\ Level \in 0 .. Capacity /\ Yield(Lag(c)) \in Int
  <2>1. pc[c] = "stamped"
    BY <1>1 DEF EvalGrants, EvalWaits
  <2>2. stamp[c] \in Nat /\ stamp[c] <= Front /\ Lag(c) \in Nat
    BY <2>1, LagTyped DEF Front
  <2>3. Refilled(stamp[c]) \in 0 .. Capacity /\ Refilled(stamp[c]) <= Level
    BY <2>2, RefilledTyped, FindsNoMore
  <2>4. Lag(c) \in Int
    BY <2>2
  <2>5. Yield(Lag(c)) \in Int
    BY <2>4, RateAdds
  <2> QED
    BY <2>1, <2>3, <2>5, LevelTyped
<1>2. ASSUME EvalGrants(c)
      PROVE  Level' \in Nat /\ Level' <= (Level - Cost) + Yield(Lag(c))
  <2> DEFINE left == Refilled(stamp[c]) - Cost
  <2>1. left \in 0 .. Capacity /\ left <= Level - Cost
    BY <1>1, <1>2, ConstantsTyped DEF EvalGrants
  <2>2. now' = now /\ bucket' = [tokens |-> left, ts |-> stamp[c]]
    BY <1>2 DEF EvalGrants
  <2> HIDE DEF left
  <2>3. Level' \in Nat /\ Level' <= left + Yield(Lag(c))
    BY <1>1, <1>2, <2>1, <2>2, LevelAfterWrite
  <2> QED
    BY <1>1, <1>2, <2>1, <2>3, ConstantsTyped
<1>3. ASSUME EvalWaits(c)
      PROVE  Level' \in Nat /\ Level' <= Level + Yield(Lag(c))
  <2>1. now' = now /\ bucket' = [tokens |-> Refilled(stamp[c]), ts |-> stamp[c]]
    BY <1>3 DEF EvalWaits
  <2>2. Level' \in Nat /\ Level' <= Refilled(stamp[c]) + Yield(Lag(c))
    BY <1>1, <1>3, <2>1, LevelAfterWrite
  <2> QED
    BY <1>1, <1>3, <2>2, ConstantsTyped
<1> QED
  BY <1>2, <1>3

LEMMA BalancedStep ==
    ASSUME TypeOK, StampPast, InTime, Balanced, [Next]_vars
    PROVE  Balanced'
<1> SUFFICES ASSUME NEW from \in 0 .. now'
             PROVE  Spent(from)' + Level' <= Capacity + Yield(Elapsed(from)')
  BY DEF Balanced, Yield
<1>0. now \in Nat /\ now \in Times /\ Level \in 0 .. Capacity
  BY NowTyped, LevelTyped
<1>1. ASSUME now' = now
      PROVE  /\ from \in 0 .. now /\ Spent(from) \in Int /\ Elapsed(from) \in Int
             /\ Within(granted, from, now) \in Int /\ Within(late, from, now) \in Int
             /\ Yield(Elapsed(from)) \in Int
             /\ Spent(from) + Level <= Capacity + Yield(Elapsed(from))
  BY <1>1, SpentTyped DEF Balanced
<1>2. CASE UNCHANGED <<now, granted, late>> /\ Level' = Level
  <2>1. Spent(from)' = Spent(from) /\ Elapsed(from)' = Elapsed(from)
    BY <1>2 DEF Spent, Elapsed, Within
  <2> QED
    BY <1>1, <1>2, <2>1
<1>3. CASE Forget
  BY <1>2, <1>3, LevelAfterForget DEF Forget
<1>4. ASSUME NEW c \in Callers, ReadClock(c)
      PROVE  Spent(from)' + Level' <= Capacity + Yield(Elapsed(from)')
  BY <1>2, <1>4, LevelStays DEF ReadClock
<1>5. CASE UNCHANGED vars
  BY <1>2, <1>5, LevelStays DEF vars
<1>6. ASSUME NEW c \in Callers, now' = now, Lag(c) \in Nat, late' = [late EXCEPT ![now] = @ + Lag(c)]
      PROVE  Yield(Elapsed(from)') = Yield(Elapsed(from)) + Yield(Lag(c)) /\ Yield(Lag(c)) \in Int
  <2>1. Within(late, from, now)' = Within(late, from, now) + Lag(c)
    <3>1. Within([late EXCEPT ![now] = @ + Lag(c)], from, now) = Within(late, from, now) + Lag(c)
      <4>1. late \in [Times -> Nat] /\ from \in 0 .. now
        BY <1>1, <1>6 DEF TypeOK
      <4> HIDE DEF Lag
      <4> QED
        BY <1>0, <1>6, <4>1, WithinAdds
    <3>2. Within(late, from, now)' = Within(late', from, now')
      BY DEF Within
    <3> QED
      BY <1>6, <3>1, <3>2
  <2>2. Elapsed(from)' = Elapsed(from) + Lag(c)
    BY <1>0, <1>1, <1>6, <2>1 DEF Elapsed
  <2> QED
    BY <1>1, <1>6, <2>2, RateAdds
<1>7. ASSUME NEW c \in Callers, EvalWaits(c)
      PROVE  Spent(from)' + Level' <= Capacity + Yield(Elapsed(from)')
  <2>1. /\ UNCHANGED <<now, granted>> /\ late' = [late EXCEPT ![now] = @ + Lag(c)]
        /\ Lag(c) \in Nat
    BY <1>7, LagTyped DEF EvalWaits
  <2>2. Spent(from)' = Spent(from)
    BY <2>1 DEF Spent, Within
  <2>3. Yield(Elapsed(from)') = Yield(Elapsed(from)) + Yield(Lag(c)) /\ Yield(Lag(c)) \in Int
    BY <1>6, <2>1
  <2>4. Level' \in Nat /\ Level' <= Level + Yield(Lag(c))
    BY <1>7, LevelAfterScript
  <2> QED
    BY <1>0, <1>1, <2>1, <2>2, <2>3, <2>4, ConstantsTyped
<1>8. ASSUME NEW c \in Callers, EvalGrants(c)
      PROVE  Spent(from)' + Level' <= Capacity + Yield(Elapsed(from)')
  <2>1. /\ now' = now /\ granted' = [granted EXCEPT ![now] = @ + 1]
        /\ late' = [late EXCEPT ![now] = @ + Lag(c)] /\ Lag(c) \in Nat
    BY <1>8, LagTyped DEF EvalGrants
  <2>2. Spent(from)' = Spent(from) + Cost
    <3>1. Within([granted EXCEPT ![now] = @ + 1], from, now) = Within(granted, from, now) + 1
      <4>1. granted \in [Times -> Nat] /\ from \in 0 .. now /\ 1 \in Nat
        BY <1>1, <2>1 DEF TypeOK
      <4> QED
        BY <1>0, <4>1, WithinAdds
    <3>2. Within(granted, from, now)' = Within(granted', from, now')
      BY DEF Within
    <3>3. Spent(from)' = Cost * (Within(granted, from, now) + 1)
      BY <2>1, <3>1, <3>2 DEF Spent
    <3> QED
      BY <1>1, <2>1, <3>3, CostAdds DEF Spent
  <2>3. Yield(Elapsed(from)') = Yield(Elapsed(from)) + Yield(Lag(c)) /\ Yield(Lag(c)) \in Int
    BY <1>6, <2>1
  <2>4. Level' \in Nat /\ Level' <= (Level - Cost) + Yield(Lag(c))
    BY <1>8, LevelAfterScript
  <2> QED
    BY <1>0, <1>1, <2>1, <2>2, <2>3, <2>4, ConstantsTyped
<1>9. CASE Tick
  <2>1. /\ now' = now + 1 /\ granted' = [granted EXCEPT ![now + 1] = granted[now]]
        /\ late' = [late EXCEPT ![now + 1] = late[now]]
        /\ now + 1 \in Times
    BY <1>0, <1>9, ConstantsTyped DEF Tick, Times
  <2>2. /\ Within(granted, from, now)' = IF from = now + 1 THEN 0 ELSE Within(granted, from, now)
        /\ Within(late, from, now)' = IF from = now + 1 THEN 0 ELSE Within(late, from, now)
    <3>1. from \in 0 .. now + 1
      BY <2>1
    <3>2. /\ Within(granted, from, now)' = Within(granted', from, now + 1)
          /\ Within(late, from, now)' = Within(late', from, now + 1)
      BY <2>1 DEF Within
    <3>3. granted \in [Times -> Nat] /\ late \in [Times -> Nat]
      BY DEF TypeOK
    <3>4. Within(granted', from, now + 1) = IF from = now + 1 THEN 0 ELSE Within(granted, from, now)
      BY <1>0, <2>1, <3>1, <3>3, WithinTick
    <3>5. Within(late', from, now + 1) = IF from = now + 1 THEN 0 ELSE Within(late, from, now)
      BY <1>0, <2>1, <3>1, <3>3, WithinTick
    <3> QED
      BY <3>2, <3>4, <3>5
  <2>3. Level' <= Level + Rate /\ Level' \in 0 .. Capacity
    BY <1>9, LevelAfterTick
  <2>4. CASE from = now + 1
    <3>1. Spent(from)' = Cost * 0
      BY <2>2, <2>4 DEF Spent
    <3>2. Elapsed(from)' = 0
      BY <1>0, <2>1, <2>2, <2>4 DEF Elapsed
    <3>3. Spent(from)' = 0 /\ Yield(Elapsed(from)') = 0
      BY <3>1, <3>2, ConstantsTyped DEF Yield
    <3>4. Level' <= Capacity /\ Level' \in Int /\ Capacity \in Int
      BY <2>3, ConstantsTyped
    <3>5. /\ Spent(from)' \in Int /\ Spent(from)' <= 0
          /\ Yield(Elapsed(from)') \in Int /\ Yield(Elapsed(from)') >= 0
      BY <3>3
    <3> QED
      BY <3>4, <3>5
  <2>5. CASE from # now + 1
    <3>1. from \in 0 .. now
      BY <1>0, <2>1, <2>5
    <3>2. Spent(from) \in Int /\ Elapsed(from) \in Int /\ Within(late, from, now) \in Int
          /\ Yield(Elapsed(from)) \in Int
      BY <3>1, SpentTyped
    <3>3. Spent(from)' = Spent(from)
      BY <2>2, <2>5 DEF Spent
    <3>4. Elapsed(from)' = Elapsed(from) + 1
      BY <1>0, <2>1, <2>2, <2>5, <3>1, <3>2 DEF Elapsed
    <3>5. Yield(1) = Rate /\ Yield(Elapsed(from)') = Yield(Elapsed(from)) + Yield(1)
      <4>1. Yield(Elapsed(from) + 1) = Yield(Elapsed(from)) + Yield(1)
        BY <3>2, RateAdds
      <4> QED
        BY <3>4, <4>1, ConstantsTyped DEF Yield
    <3>6. Spent(from) + Level <= Capacity + Yield(Elapsed(from))
      BY <3>1 DEF Balanced
    <3> QED
      BY <1>0, <2>3, <3>2, <3>3, <3>5, <3>6, ConstantsTyped
  <2> QED
    BY <2>4, <2>5
<1> QED
  BY <1>3, <1>4, <1>5, <1>7, <1>8, <1>9 DEF Next

\* What was counted up to a moment that is over is not counted again.
LEMMA PastStays ==
    ASSUME TypeOK, [Next]_vars, NEW t \in Nat, t < now'
    PROVE  granted'[t] = granted[t] /\ late'[t] = late[t]
<1>1. now \in Nat /\ now \in Times
  BY NowTyped
<1>2. CASE Tick
  <2>1. t \in Times /\ t # now + 1
    BY <1>1, <1>2, ConstantsTyped DEF Tick, Times
  <2> QED
    BY <1>2, <2>1 DEF Tick, TypeOK
<1>3. ASSUME NEW c \in Callers, EvalGrants(c) \/ EvalWaits(c)
      PROVE  granted'[t] = granted[t] /\ late'[t] = late[t]
  <2>1. t \in Times /\ t # now
    BY <1>1, <1>3, ConstantsTyped DEF EvalGrants, EvalWaits, Times
  <2> QED
    BY <1>3, <2>1 DEF EvalGrants, EvalWaits, TypeOK
<1>4. CASE UNCHANGED <<granted, late>>
  BY <1>4
<1> QED
  BY <1>2, <1>3, <1>4 DEF Next, Forget, ReadClock, vars

LEMMA BoundStep ==
    ASSUME TypeOK, BucketBound, [Next]_vars, TypeOK', Balanced', Level' \in Nat
    PROVE  BucketBound'
<1> SUFFICES ASSUME NEW from \in 0 .. now', NEW to \in from .. now'
             PROVE  Cost * Within(granted', from, to)
                      <= Capacity + Rate * ((to - from) + Within(late', from, to))
  BY DEF BucketBound, Within
<1>0. now \in Nat /\ now' \in Nat /\ now' \in Times /\ (now' = now \/ now' = now + 1)
  <2>1. now \in Nat /\ now' \in Nat /\ now' \in Times
    BY ConstantsTyped DEF TypeOK, Times
  <2>2. now' = now \/ now' = now + 1
    BY DEF Next, Tick, Forget, ReadClock, EvalGrants, EvalWaits, vars
  <2> QED
    BY <2>1, <2>2
<1>1. CASE to = now'
  <2>1. Spent(from)' + Level' <= Capacity + Yield(Elapsed(from)')
    BY DEF Balanced, Yield
  <2>2. /\ Spent(from)' = Cost * Within(granted', from, to)
        /\ Elapsed(from)' = (to - from) + Within(late', from, to)
    BY <1>1 DEF Spent, Elapsed, Within
  <2>3. Within(granted', from, to) \in Int /\ Within(late', from, to) \in Int
    <3>1. granted' \in [Times -> Nat] /\ late' \in [Times -> Nat] /\ to \in Times
      BY <1>0, <1>1 DEF TypeOK
    <3>2. from \in 0 .. to
      BY <1>0
    <3> QED
      BY <3>1, <3>2, WithinTyped
  <2>4. (to - from) + Within(late', from, to) \in Int
    BY <1>0, <2>3
  <2>5. Spent(from)' \in Int /\ Yield(Elapsed(from)') \in Int
    BY <2>2, <2>3, <2>4, CostAdds, RateAdds
  <2>6. Spent(from)' <= Capacity + Yield(Elapsed(from)')
    <3> HIDE DEF Spent, Level, Yield, Elapsed
    <3> QED
      BY <2>1, <2>5, ConstantsTyped
  <2> QED
    BY <2>2, <2>6 DEF Yield
<1>2. CASE to # now'
  <2>1. to \in Nat /\ to < now' /\ from \in 0 .. to
    BY <1>0, <1>2
  <2>2. from \in 0 .. now /\ to \in from .. now
    BY <1>0, <2>1
  <2>3. \A t \in 0 .. to : granted'[t] = granted[t] /\ late'[t] = late[t]
    BY <1>0, <2>1, PastStays
  <2>4. /\ Within(granted', from, to) = Within(granted, from, to)
        /\ Within(late', from, to) = Within(late, from, to)
    BY <2>1, <2>3, WithinPast
  <2> QED
    BY <2>2, <2>4 DEF BucketBound
<1> QED
  BY <1>1, <1>2

LEMMA BInvInit == Init => BInv
<1> SUFFICES ASSUME Init PROVE BInv
  OBVIOUS
<1>1. IInv /\ InTime
  BY InitTypeOK, ConstantsTyped DEF Init, InTime, IInv, StampPast, SleepCovered
<1>2. Level = Capacity /\ Capacity \in Nat /\ now = 0 /\ granted[0] = 0 /\ late[0] = 0
  BY ConstantsTyped DEF Init, Level, Refilled, Times
<1>3. \A from \in 0 .. 0 : from = 0
  OBVIOUS
<1>4. Cost * 0 = 0 /\ Rate * 0 = 0
  BY ConstantsTyped
<1>5. Within(granted, 0, 0) = 0 /\ Within(late, 0, 0) = 0
  BY <1>2 DEF Within
<1>6. Balanced
  BY <1>2, <1>3, <1>4, <1>5 DEF Balanced, Spent, Elapsed, Yield
<1>7. BucketBound
  BY <1>2, <1>3, <1>4, <1>5 DEF BucketBound
<1> QED
  BY <1>1, <1>6, <1>7 DEF BInv

LEMMA BInvStep == BInv /\ [Next]_vars => BInv'
<1> SUFFICES ASSUME BInv, [Next]_vars PROVE BInv'
  OBVIOUS
<1>1. IInv' /\ InTime'
  BY StepTypeOK, StampStep, SleepStep, InTimeStep DEF BInv, IInv
<1>2. Balanced'
  BY BalancedStep DEF BInv, IInv
<1>3. Level' \in Nat
  <2>1. TypeOK' /\ MaxSkew \in Nat /\ Capacity \in Nat /\ Rate \in Nat
    BY <1>1, ConstantsTyped DEF IInv
  <2>2. CASE bucket' = None
    BY <2>1, <2>2 DEF Level, Refilled
  <2>3. CASE bucket' # None
    <3>1. bucket'.tokens \in Nat /\ bucket'.ts \in Nat /\ now' \in Nat
      BY <2>1, <2>3, ConstantsTyped DEF TypeOK, Times
    <3> DEFINE m == Most(0, (now' + MaxSkew) - bucket'.ts)
    <3>2. m \in Nat
      BY <2>1, <3>1, MostTyped
    <3>3. Level' = Least(Capacity, bucket'.tokens + m * Rate)
      BY <2>3 DEF Level, Refilled, Front
    <3> HIDE DEF m
    <3>4. m * Rate \in Nat
      BY <2>1, <3>2
    <3> QED
      BY <2>1, <3>1, <3>3, <3>4 DEF Least
  <2> QED
    BY <2>2, <2>3
<1>4. BucketBound'
  BY <1>1, <1>2, <1>3, BoundStep DEF BInv, IInv
<1> QED
  BY <1>1, <1>2, <1>4 DEF BInv

(***************************************************************************)
(* What the token bucket keeps to (rate_limiter.py:3): any stretch of time *)
(* lets through at most a full bucket, the yield of the stretch and the    *)
(* yield of the lateness of its scripts, for any number of callers, any    *)
(* rate, any expiry that outlasts a refill, clocks that differ and any     *)
(* delay between the reading of a clock and its script.  Where the clocks  *)
(* agree and no script is late, this is the bucket and the yield alone.    *)
(***************************************************************************)
THEOREM BucketsBound == Spec => []BucketBound
<1>1. BInv => BucketBound
  BY DEF BInv
<1> QED
  BY <1>1, BInvInit, BInvStep, PTL DEF Spec
=============================================================================
