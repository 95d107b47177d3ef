------------------------ MODULE DigestDispatchProofs ------------------------
(***************************************************************************)
(* For any number of dispatchers, subscribers, matches and channels: what  *)
(* is marked was delivered or cut off, every channel tried it, and nothing *)
(* is delivered twice on a channel unless a run let go of it or two had it *)
(* in hand.                                                                *)
(***************************************************************************)
EXTENDS DigestDispatch, TLAPS

\* The actions of the pipeline, the clock and the seed, which touch no run.
Environment ==
    \/ Tick
    \/ \E m \in Matches : OpenMatch(m) \/ CommitMatch(m) \/ RollbackMatch(m)
    \/ \E s \in Subs : SeedSubscriber(s)

DispatcherStep(d) ==
    \/ ListAtivos(d)
    \/ \E s \in Subs : ReadPending(d, s)
    \/ \E c \in Channels : Send(d, c)
    \/ MarkNotified(d)
    \/ NothingToMark(d)
    \/ CommitRun(d)
    \/ Rollback(d)

\* Every step is the environment's or one dispatcher's; an abort and a lost
\* deadlock are the same rollback.
LEMMA StepSplit ==
    ASSUME [Next]_vars
    PROVE  Environment \/ (\E d \in Dispatchers : DispatcherStep(d)) \/ UNCHANGED vars
  BY DEF Next, Dispatch, Environment, DispatcherStep, RunAborts, DeadlockVictim

-----------------------------------------------------------------------------
(* Types.                                                                  *)

LEMMA InitTypeOK == Init => TypeOK
  BY DispatchAssumption DEF Init, TypeOK, NoMatch, Records, Fates

\* What a channel does to the fate of a match: it only gets better, a success
\* carries the match or cuts it off, and one digest carries it once.
LEMMA SendEffect ==
    ASSUME TypeOK, NEW d \in Dispatchers, NEW c \in Channels, Send(d, c)
    PROVE  /\ fate' \in [Matches -> [Channels -> Fates]]
           /\ ok' \in [Dispatchers -> BOOLEAN]
           /\ \A m \in Matches, x \in Channels :
                /\ m \notin pending[d] \/ x # c => fate'[m][x] = fate[m][x]
                /\ fate[m][x] # "none" => fate'[m][x] # "none"
                /\ fate'[m][x] = "again" => Carried(m, x)
                /\ Carried(m, x) => fate'[m][x] \in {"sent", "again"}
                /\ fate[m][x] = "cut" => fate'[m][x] \in {"cut", "sent", "again"}
           /\ \A m \in pending[d] : fate'[m][c] # "none"
           /\ ok'[d] => ok[d] \/ (\A m \in pending[d] : fate'[m][c] \in {"cut", "sent", "again"})
  <1>1. PICK delivered \in BOOLEAN, reported \in BOOLEAN, T \in Portions(c, pending[d]) :
          Try(d, c, delivered, reported, T)
    BY Zenon DEF Send
  <1> DEFINE New(m) == CASE ~ delivered -> "failed"
                        [] m \in T     -> "sent"
                        [] OTHER       -> "cut"
  <1>2. /\ reported => delivered
        /\ ok' = [ok EXCEPT ![d] = @ \/ reported]
        /\ fate' = [m \in Matches |->
                      IF m \notin pending[d] THEN fate[m]
                      ELSE [fate[m] EXCEPT ![c] = Better(@, New(m))]]
    BY <1>1 DEF Try, Reports
  <1>3. ASSUME NEW m \in Matches, NEW old \in Fates
        PROVE  /\ Better(old, New(m)) \in Fates \ {"none"}
               /\ Better(old, New(m)) = "again" => old \in {"sent", "again"}
               /\ old \in {"sent", "again"} => Better(old, New(m)) \in {"sent", "again"}
               /\ old = "cut" => Better(old, New(m)) \in {"cut", "sent", "again"}
               /\ delivered => Better(old, New(m)) \in {"cut", "sent", "again"}
    <2>1. New(m) \in {"failed", "sent", "cut"} /\ (delivered => New(m) \in {"sent", "cut"})
      OBVIOUS
    <2> HIDE DEF New
    <2> QED
      BY <2>1 DEF Better, Fates
  <1> HIDE DEF New
  <1>4. pending[d] \subseteq Matches /\ \A m \in Matches : fate[m] \in [Channels -> Fates]
    BY DEF TypeOK
  <1>5. ASSUME NEW m \in Matches, NEW x \in Channels
        PROVE  /\ fate'[m] \in [Channels -> Fates]
               /\ fate[m][x] \in Fates
               /\ fate'[m][x] = IF m \in pending[d] /\ x = c THEN Better(fate[m][c], New(m))
                                ELSE fate[m][x]
    <2>1. fate[m][c] \in Fates /\ Better(fate[m][c], New(m)) \in Fates
      BY <1>3, <1>4
    <2> QED
      BY <1>2, <1>4, <2>1
  <1>6. fate' \in [Matches -> [Channels -> Fates]]
    <2>1. fate' = [m \in Matches |-> fate'[m]]
      BY <1>2
    <2> QED
      BY <1>5, <2>1
  <1>7. ok' \in [Dispatchers -> BOOLEAN] /\ (ok'[d] => ok[d] \/ reported)
    <2>1. ok[d] \/ reported \in BOOLEAN
      OBVIOUS
    <2> QED
      BY <1>2, <2>1 DEF TypeOK
  <1>8. ASSUME NEW m \in Matches, NEW x \in Channels
        PROVE  /\ m \notin pending[d] \/ x # c => fate'[m][x] = fate[m][x]
               /\ fate[m][x] # "none" => fate'[m][x] # "none"
               /\ fate'[m][x] = "again" => Carried(m, x)
               /\ Carried(m, x) => fate'[m][x] \in {"sent", "again"}
               /\ fate[m][x] = "cut" => fate'[m][x] \in {"cut", "sent", "again"}
               /\ m \in pending[d] => fate'[m][c] # "none"
               /\ m \in pending[d] /\ delivered => fate'[m][c] \in {"cut", "sent", "again"}
    <2>1. CASE m \in pending[d] /\ x = c
      BY <1>3, <1>5, <2>1 DEF Carried
    <2>2. CASE ~ (m \in pending[d] /\ x = c)
      <3>1. m \in pending[d] => /\ fate'[m][c] # "none"
                                /\ delivered => fate'[m][c] \in {"cut", "sent", "again"}
        BY <1>3, <1>5
      <3> QED
        BY <1>5, <2>2, <3>1 DEF Carried
    <2> QED
      BY <2>1, <2>2
  <1> QED
    BY <1>2, <1>4, <1>6, <1>7, <1>8

LEMMA TypeStep == TypeOK /\ [Next]_vars => TypeOK'
  <1> SUFFICES ASSUME TypeOK, [Next]_vars PROVE TypeOK'
    OBVIOUS
  <1> USE DispatchAssumption
  <1>1. CASE Environment
    <2>1. match' \in [Matches -> Records]
      <3>1. ASSUME NEW m \in Matches, OpenMatch(m) PROVE match' \in [Matches -> Records]
        BY <3>1 DEF OpenMatch, TypeOK, Records, NoMatch
      <3>2. ASSUME NEW m \in Matches, CommitMatch(m) \/ RollbackMatch(m)
            PROVE  match' \in [Matches -> Records]
        <4>1. [match[m] EXCEPT !.state = "stored"] \in Records
          <5>1. match[m] \in Records
            BY DEF TypeOK
          <5> QED
            BY <5>1, Zenon DEF Records
        <4>2. NoMatch \in Records
          BY DEF Records, NoMatch
        <4> QED
          BY <3>2, <4>1, <4>2 DEF CommitMatch, RollbackMatch, TypeOK
      <3> QED
        BY <1>1, <3>1, <3>2 DEF Environment, Tick, SeedSubscriber, TypeOK
    <2>2. now' \in 0 .. MaxTime /\ active' \in SUBSET Subs /\ UNCHANGED <<run, fate, excused>>
      BY <1>1 DEF Environment, Tick, OpenMatch, CommitMatch, RollbackMatch, SeedSubscriber,
                  TypeOK, world
    <2> QED
      BY <2>1, <2>2 DEF TypeOK, run
  <1>2. ASSUME NEW d \in Dispatchers, DispatcherStep(d) PROVE TypeOK'
    <2> USE DEF TypeOK, world
    <2>1. CASE ListAtivos(d)
      BY <2>1 DEF ListAtivos
    <2>2. ASSUME NEW s \in Subs, ReadPending(d, s) PROVE TypeOK'
      <3>1. excused' \in SUBSET Matches
        BY <2>2 DEF ReadPending, Excuse, Pending
      <3>2. Pending(s) \in SUBSET Matches
        BY DEF Pending
      <3> QED
        BY <2>2, <3>1, <3>2 DEF ReadPending
    <2>3. ASSUME NEW c \in Channels, Send(d, c) PROVE TypeOK'
      <3>1. /\ due' = [due EXCEPT ![d] = @ \ {c}]
            /\ UNCHANGED <<now, active, match, pc, todo, pending, marked, excused>>
        BY <2>3, Zenon DEF Send
      <3>2. due' \in [Dispatchers -> SUBSET Channels]
        BY <3>1
      <3>3. /\ fate' \in [Matches -> [Channels -> Fates]]
            /\ ok' \in [Dispatchers -> BOOLEAN]
        BY <2>3, SendEffect
      <3> QED
        BY <3>1, <3>2, <3>3, Zenon
    <2>4. CASE MarkNotified(d)
      BY <2>4 DEF MarkNotified
    <2>5. CASE NothingToMark(d)
      <3>1. excused' \in SUBSET Matches
        BY <2>5 DEF NothingToMark, Excuse
      <3> QED
        BY <2>5, <3>1 DEF NothingToMark
    <2>6. CASE CommitRun(d)
      <3>1. ASSUME NEW m \in Matches
            PROVE  match[m] \in Records /\ [match[m] EXCEPT !.notified = TRUE] \in Records
        <4>1. match[m] \in Records
          OBVIOUS
        <4> QED
          BY <4>1, Zenon DEF Records
      <3>2. match' \in [Matches -> Records]
        BY <2>6, <3>1 DEF CommitRun
      <3> QED
        BY <2>6, <3>2 DEF CommitRun
    <2>7. CASE Rollback(d)
      <3>1. excused' \in SUBSET Matches
        BY <2>7 DEF Rollback, Excuse, InHand
      <3> QED
        BY <2>7, <3>1 DEF Rollback
    <2> QED
      BY <1>2, <2>1, <2>2, <2>3, <2>4, <2>5, <2>6, <2>7 DEF DispatcherStep
  <1>3. CASE UNCHANGED vars
    BY <1>3 DEF vars, TypeOK
  <1> QED
    BY <1>1, <1>2, <1>3, StepSplit

-----------------------------------------------------------------------------
(* What a step may do to the table and to the histories.                   *)

\* The environment neither moves a run nor touches a stored match.
LEMMA EnvironmentKeeps ==
    ASSUME TypeOK, Environment
    PROVE  /\ UNCHANGED <<run, fate, excused>>
           /\ \A m \in Matches :
                /\ match[m].state = "stored" =>
                      match'[m].state = "stored" /\ match'[m].notified = match[m].notified
                /\ match'[m].notified => match[m].notified
  <1>1. ASSUME NEW m \in Matches, OpenMatch(m) \/ CommitMatch(m) \/ RollbackMatch(m),
               NEW n \in Matches
        PROVE  /\ match[n].state = "stored" =>
                     match'[n].state = "stored" /\ match'[n].notified = match[n].notified
               /\ match'[n].notified => match[n].notified
    <2>1. CASE n # m
      BY <1>1, <2>1 DEF OpenMatch, CommitMatch, RollbackMatch, TypeOK
    <2>2. CASE n = m /\ OpenMatch(m)
      BY <2>2 DEF OpenMatch, NoMatch, TypeOK
    <2>3. CASE n = m /\ CommitMatch(m)
      <3>1. match[m] \in Records
        BY DEF TypeOK
      <3>2. match' = [match EXCEPT ![m].state = "stored"]
        BY <2>3 DEF CommitMatch
      <3>3. match'[m].notified = match[m].notified
        BY <3>1, <3>2 DEF TypeOK, Records
      <3>4. match'[m].state = "stored"
        BY <3>1, <3>2 DEF TypeOK, Records
      <3> QED
        BY <2>3, <3>3, <3>4
    <2>4. CASE n = m /\ RollbackMatch(m)
      BY <2>4 DEF RollbackMatch, NoMatch, TypeOK
    <2> QED
      BY <1>1, <2>1, <2>2, <2>3, <2>4
  <1>2. CASE Tick \/ \E s \in Subs : SeedSubscriber(s)
    BY <1>2 DEF Tick, SeedSubscriber, TypeOK, Records
  <1>3. UNCHANGED <<run, fate, excused>>
    BY DEF Environment, Tick, OpenMatch, CommitMatch, RollbackMatch, SeedSubscriber
  <1> QED
    BY <1>1, <1>2, <1>3 DEF Environment

-----------------------------------------------------------------------------
(* RunHonest is inductive.                                                 *)

LEMMA HonestStep == TypeOK /\ RunHonest /\ [Next]_vars => RunHonest'
  <1> SUFFICES ASSUME TypeOK, RunHonest, [Next]_vars PROVE RunHonest'
    OBVIOUS
  <1>1. CASE Environment
    <2>1. \A d \in Dispatchers : InHand(d) \subseteq Matches
      BY DEF TypeOK, InHand
    <2> QED
      BY <1>1, <2>1, EnvironmentKeeps DEF RunHonest, InHand, DeliveredOrCut, Carried, run, TypeOK
  <1>2. ASSUME NEW d \in Dispatchers, DispatcherStep(d) PROVE RunHonest'
    <2>1. CASE ListAtivos(d)
      BY <2>1 DEF ListAtivos, RunHonest, InHand, DeliveredOrCut, Carried, world, TypeOK
    <2>2. ASSUME NEW s \in Subs, ReadPending(d, s) PROVE RunHonest'
      BY <2>2 DEF ReadPending, Pending, RunHonest, InHand, DeliveredOrCut, Carried, world, TypeOK
    <2>3. ASSUME NEW c \in Channels, Send(d, c) PROVE RunHonest'
      <3>1. \A m \in Matches : DeliveredOrCut(m) => DeliveredOrCut(m)'
        BY <2>3, SendEffect DEF DeliveredOrCut, Carried
      <3>2. ok'[d] => ok[d] \/ \A m \in pending[d] : DeliveredOrCut(m)'
        BY <2>3, SendEffect DEF DeliveredOrCut, Carried
      <3>3. \A x \in Dispatchers : pending[x] \subseteq Matches /\ marked[x] \subseteq Matches
        BY DEF TypeOK
      <3>4. \A x \in Dispatchers \ {d} : ok'[x] = ok[x]
        BY <2>3 DEF Send, Try, TypeOK
      <3>5. UNCHANGED <<pc, match, pending, marked>>
        BY <2>3 DEF Send
      <3>6. \A m \in Matches, x \in Channels : fate[m][x] # "none" => fate'[m][x] # "none"
        BY <2>3, SendEffect
      <3>7. \A m \in pending[d] : fate'[m][c] # "none"
        BY <2>3, SendEffect
      <3>8. \A x \in Dispatchers : due'[x] = IF x = d THEN due[d] \ {c} ELSE due[x]
        BY <2>3 DEF Send, TypeOK
      <3>9. \A x \in Dispatchers : \A m \in pending[x], e \in Channels \ due'[x] : fate'[m][e] # "none"
              \/ pc[x] # "send"
        BY <3>3, <3>6, <3>7, <3>8 DEF RunHonest
      <3> QED
        BY <3>1, <3>2, <3>3, <3>4, <3>5, <3>6, <3>9 DEF RunHonest, InHand
    <2>4. CASE MarkNotified(d)
      BY <2>4 DEF MarkNotified, RunHonest, InHand, DeliveredOrCut, Carried, world, TypeOK
    <2>5. CASE NothingToMark(d)
      BY <2>5 DEF NothingToMark, RunHonest, InHand, DeliveredOrCut, Carried, world, TypeOK
    <2>6. CASE CommitRun(d)
      <3>1. \A m \in Matches : /\ match'[m].state = match[m].state
                               /\ match'[m].notified => match[m].notified \/ m \in marked[d]
        BY <2>6 DEF CommitRun, TypeOK, Records
      <3>2. pending[d] = {} /\ UNCHANGED <<pending, due, ok, fate>>
        BY <2>6 DEF CommitRun, RunHonest
      <3>3. \A x \in Dispatchers : /\ pc'[x] = IF x = d THEN "idle" ELSE pc[x]
                                   /\ marked'[x] = IF x = d THEN {} ELSE marked[x]
                                   /\ InHand(x) \subseteq Matches
        BY <2>6 DEF CommitRun, TypeOK, InHand
      <3> QED
        BY <3>1, <3>2, <3>3 DEF RunHonest, InHand, DeliveredOrCut, Carried
    <2>7. CASE Rollback(d)
      BY <2>7 DEF Rollback, RunHonest, InHand, DeliveredOrCut, Carried, world, TypeOK
    <2> QED
      BY <1>2, <2>1, <2>2, <2>3, <2>4, <2>5, <2>6, <2>7 DEF DispatcherStep
  <1>3. CASE UNCHANGED vars
    BY <1>3 DEF vars, RunHonest, InHand, DeliveredOrCut, Carried
  <1> QED
    BY <1>1, <1>2, <1>3, StepSplit

\* Everything notified was delivered or cut off, and tried on every channel: the
\* marks a commit publishes are honest.
LEMMA DeliveredStep ==
    TypeOK /\ RunHonest /\ NotifiedWasDelivered /\ [Next]_vars
       => NotifiedWasDelivered'
  <1> DEFINE Settled(m) == DeliveredOrCut(m) /\ \A c \in Channels : fate[m][c] # "none"
  <1> SUFFICES ASSUME TypeOK, RunHonest, [Next]_vars,
                      \A m \in Matches : match[m].notified => Settled(m)
               PROVE  \A m \in Matches : match'[m].notified => Settled(m)'
    BY DEF NotifiedWasDelivered
  <1>1. CASE UNCHANGED fate /\ \A m \in Matches : match'[m].notified => match[m].notified
    BY <1>1 DEF DeliveredOrCut, Carried
  <1>2. CASE Environment
    BY <1>1, <1>2, EnvironmentKeeps
  <1>3. ASSUME NEW d \in Dispatchers, DispatcherStep(d)
        PROVE  \A m \in Matches : match'[m].notified => Settled(m)'
    <2>1. CASE \E c \in Channels : Send(d, c)
      <3>1. \A m \in Matches : Settled(m) => Settled(m)'
        BY <2>1, SendEffect DEF DeliveredOrCut, Carried
      <3>2. match' = match
        BY <2>1 DEF Send
      <3> QED
        BY <3>1, <3>2
    <2>2. CASE CommitRun(d)
      <3>1. \A m \in Matches : match'[m].notified => match[m].notified \/ m \in marked[d]
        BY <2>2 DEF CommitRun, TypeOK, Records
      <3>2. \A m \in marked[d] : Settled(m)
        BY DEF RunHonest
      <3>3. \A m \in Matches : Settled(m) => Settled(m)'
        BY <2>2 DEF CommitRun, DeliveredOrCut, Carried
      <3> QED
        BY <3>1, <3>2, <3>3
    <2>3. CASE UNCHANGED <<match, fate>>
      BY <1>1, <2>3
    <2> QED
      BY <1>3, <2>1, <2>2, <2>3 DEF DispatcherStep, ListAtivos, ReadPending, MarkNotified,
                                    NothingToMark, Rollback
  <1>4. CASE UNCHANGED vars
    BY <1>1, <1>4 DEF vars
  <1> QED
    BY <1>2, <1>3, <1>4, StepSplit

-----------------------------------------------------------------------------
(* SingleCarrier is inductive.                                             *)

\* No step takes an excuse back.
LEMMA ExcusesGrow ==
    ASSUME TypeOK, NEW d \in Dispatchers, DispatcherStep(d), NEW m \in Matches,
           m \notin excused'
    PROVE  /\ m \notin excused
           /\ Rollback(d) => m \notin InHand(d)
           /\ NothingToMark(d) => m \notin pending[d]
           /\ \A s \in Subs : ReadPending(d, s) /\ m \in Pending(s) =>
                                 \A x \in Dispatchers \ {d} : m \notin InHand(x)
  <1>1. ASSUME NEW S, Excuse(S) PROVE m \notin excused /\ m \notin S
    BY <1>1 DEF Excuse
  <1>2. Rollback(d) => m \notin excused /\ m \notin InHand(d)
    BY <1>1 DEF Rollback
  <1>3. NothingToMark(d) => m \notin excused /\ m \notin pending[d]
    BY <1>1 DEF NothingToMark
  <1>4. ASSUME NEW s \in Subs, ReadPending(d, s)
        PROVE  /\ m \notin excused
               /\ m \in Pending(s) => \A x \in Dispatchers \ {d} : m \notin InHand(x)
    BY <1>1, <1>4 DEF ReadPending
  <1>5. ListAtivos(d) \/ MarkNotified(d) \/ CommitRun(d) => m \notin excused
    BY DEF ListAtivos, MarkNotified, CommitRun
  <1>6. ASSUME NEW c \in Channels, Send(d, c) PROVE m \notin excused
    BY <1>6 DEF Send
  <1> QED
    BY <1>2, <1>3, <1>4, <1>5, <1>6 DEF DispatcherStep

LEMMA OnceStep ==
    ASSUME TypeOK, RunHonest, \A x \in Dispatchers : OncePerRun(x),
           NEW d \in Dispatchers, DispatcherStep(d)
    PROVE  \A x \in Dispatchers : OncePerRun(x)'
  <1> USE DEF OncePerRun, InHand, TypeOK
  <1>1. CASE ListAtivos(d)
    BY <1>1 DEF ListAtivos, RunHonest
  <1>2. ASSUME NEW s \in Subs, ReadPending(d, s) PROVE \A x \in Dispatchers : OncePerRun(x)'
    BY <1>2 DEF ReadPending, Pending
  <1>3. ASSUME NEW c \in Channels, Send(d, c) PROVE \A x \in Dispatchers : OncePerRun(x)'
    BY <1>3 DEF Send
  <1>4. CASE MarkNotified(d) \/ NothingToMark(d)
    BY <1>4 DEF MarkNotified, NothingToMark
  <1>5. CASE CommitRun(d) \/ Rollback(d)
    BY <1>5 DEF CommitRun, Rollback
  <1> QED
    BY <1>1, <1>2, <1>3, <1>4, <1>5 DEF DispatcherStep

\* A match nobody has let go of stays in one hand and is carried once.
LEMMA CarrierStep ==
    ASSUME TypeOK, RunHonest, SingleCarrier, NEW d \in Dispatchers, DispatcherStep(d),
           NEW m \in Matches, m \notin excused'
    PROVE  HeldByOne(m)' /\ \A c \in Channels : CarriedOnce(m, c)'
  <1>1. HeldByOne(m) /\ \A c \in Channels : CarriedOnce(m, c)
    BY ExcusesGrow DEF SingleCarrier
  <1>2. \A x \in Dispatchers : OncePerRun(x)
    BY DEF SingleCarrier
  <1>3. CASE ListAtivos(d)
    BY <1>1, <1>3 DEF ListAtivos, HeldByOne, CarriedOnce, InHand, TypeOK
  <1>4. ASSUME NEW s \in Subs, ReadPending(d, s)
        PROVE  HeldByOne(m)' /\ \A c \in Channels : CarriedOnce(m, c)'
    <2>1. /\ UNCHANGED <<match, marked, fate>>
          /\ pending[d] = {} /\ pending'[d] = Pending(s)
          /\ \A x \in Dispatchers \ {d} : pending'[x] = pending[x] /\ due'[x] = due[x]
      BY <1>4 DEF ReadPending, RunHonest, TypeOK
    <2>2. CASE m \in Pending(s)
      <3>1. ~ match[m].notified /\ \A x \in Dispatchers : m \notin InHand(x)
        <4>1. m \notin InHand(d)
          BY <1>2, <1>4, <2>2 DEF OncePerRun, ReadPending, Pending
        <4> QED
          BY <1>4, <2>2, <4>1, ExcusesGrow DEF Pending
      <3>2. \A c \in Channels : ~ Carried(m, c)
        BY <1>1, <3>1 DEF CarriedOnce, InHand, Carried
      <3> QED
        BY <2>1, <3>1, <3>2 DEF HeldByOne, CarriedOnce, InHand, Carried
    <2>3. CASE m \notin Pending(s)
      BY <1>1, <2>1, <2>3 DEF HeldByOne, CarriedOnce, InHand
    <2> QED
      BY <2>2, <2>3
  <1>5. ASSUME NEW c \in Channels, Send(d, c)
        PROVE  HeldByOne(m)' /\ \A x \in Channels : CarriedOnce(m, x)'
    <2>1. HeldByOne(m)'
      BY <1>1, <1>5 DEF Send, HeldByOne, InHand
    <2>2. /\ UNCHANGED <<match, marked, pending>>
          /\ c \in due[d]
          /\ \A x \in Dispatchers : due'[x] = IF x = d THEN due[d] \ {c} ELSE due[x]
      BY <1>5 DEF Send, TypeOK
    <2>3. ASSUME m \in pending[d] PROVE ~ Carried(m, c)
      <3>1. ~ match[m].notified /\ \A x \in Dispatchers \ {d} : m \notin InHand(x)
        BY <1>1, <2>3 DEF HeldByOne, InHand
      <3>2. m \notin marked[d]
        BY <1>2, <2>3 DEF OncePerRun
      <3>3. fate[m][c] # "sent"
        BY <1>1, <2>2, <3>1, <3>2 DEF CarriedOnce, InHand
      <3> QED
        BY <1>1, <3>3 DEF CarriedOnce, Carried
    <2>4. ASSUME NEW x \in Channels PROVE CarriedOnce(m, x)'
      <3>1. CASE m \in pending[d] /\ x = c
        <4>1. fate'[m][c] # "again"
          BY <1>5, <2>3, <3>1, SendEffect
        <4>2. m \in pending'[d] /\ c \notin due'[d]
          BY <2>2, <3>1
        <4> QED
          BY <3>1, <4>1, <4>2 DEF CarriedOnce
      <3>2. CASE ~ (m \in pending[d] /\ x = c)
        <4>1. fate'[m][x] = fate[m][x]
          BY <1>5, <3>2, SendEffect
        <4> QED
          BY <1>1, <2>2, <4>1 DEF CarriedOnce
      <3> QED
        BY <3>1, <3>2
    <2> QED
      BY <2>1, <2>4
  <1>6. CASE MarkNotified(d)
    BY <1>1, <1>6 DEF MarkNotified, HeldByOne, CarriedOnce, InHand, TypeOK
  <1>7. CASE NothingToMark(d)
    <2>1. m \notin pending[d]
      BY <1>7, ExcusesGrow
    <2> QED
      BY <1>1, <1>7, <2>1 DEF NothingToMark, HeldByOne, CarriedOnce, InHand, TypeOK
  <1>8. CASE CommitRun(d)
    <2>1. /\ match'[m].notified <=> match[m].notified \/ m \in marked[d]
          /\ UNCHANGED <<pending, due, fate>>
          /\ \A x \in Dispatchers : marked'[x] = IF x = d THEN {} ELSE marked[x]
      BY <1>8 DEF CommitRun, TypeOK, Records
    <2> QED
      BY <1>1, <2>1, <1>8 DEF HeldByOne, CarriedOnce, InHand, CommitRun, RunHonest
  <1>9. CASE Rollback(d)
    <2>1. m \notin InHand(d)
      BY <1>9, ExcusesGrow
    <2> QED
      BY <1>1, <1>9, <2>1 DEF Rollback, HeldByOne, CarriedOnce, InHand, TypeOK
  <1> QED
    BY <1>3, <1>4, <1>5, <1>6, <1>7, <1>8, <1>9 DEF DispatcherStep

LEMMA SingleCarrierStep ==
    TypeOK /\ RunHonest /\ SingleCarrier /\ [Next]_vars => SingleCarrier'
  <1> SUFFICES ASSUME TypeOK, RunHonest, SingleCarrier, [Next]_vars PROVE SingleCarrier'
    OBVIOUS
  <1>1. CASE Environment
    <2>1. \A d \in Dispatchers : InHand(d) \subseteq Matches
      BY DEF TypeOK, InHand
    <2>2. \A m \in Matches : /\ \A d \in Dispatchers :
                                   m \in InHand(d) => match'[m].notified = match[m].notified
                             /\ match[m].notified => match'[m].notified
      BY <1>1, EnvironmentKeeps DEF RunHonest, TypeOK, Records
    <2>3. UNCHANGED <<run, fate, excused>>
      BY <1>1, EnvironmentKeeps
    <2> QED
      BY <2>1, <2>2, <2>3 DEF SingleCarrier, OncePerRun, HeldByOne, CarriedOnce, InHand, run
  <1>2. ASSUME NEW d \in Dispatchers, DispatcherStep(d) PROVE SingleCarrier'
    BY <1>2, OnceStep, CarrierStep DEF SingleCarrier
  <1>3. CASE UNCHANGED vars
    BY <1>3 DEF vars, SingleCarrier, OncePerRun, HeldByOne, CarriedOnce, InHand
  <1> QED
    BY <1>1, <1>2, <1>3, StepSplit

-----------------------------------------------------------------------------
IInv == TypeOK /\ RunHonest /\ NotifiedWasDelivered /\ SingleCarrier

LEMMA IInvInductive == (Init => IInv) /\ (IInv /\ [Next]_vars => IInv')
  <1>1. Init => RunHonest /\ NotifiedWasDelivered
    BY DEF Init, RunHonest, NotifiedWasDelivered, InHand, NoMatch
  <1>2. Init => SingleCarrier
    BY DEF Init, SingleCarrier, OncePerRun, HeldByOne, CarriedOnce, InHand, NoMatch
  <1> QED
    BY <1>1, <1>2, InitTypeOK, TypeStep, HonestStep, DeliveredStep, SingleCarrierStep DEF IInv

(***************************************************************************)
(* Every reachable state of the dispatch is typed.                         *)
(***************************************************************************)
THEOREM DispatchTyped == Spec => []TypeOK
  <1>1. IInv => TypeOK
    BY DEF IInv
  <1> QED
    BY <1>1, IInvInductive, PTL DEF Spec

(***************************************************************************)
(* What a run has marked it has delivered or Telegram cut it off, on every *)
(* enabled channel it has tried, and what it holds was committed when it   *)
(* read it, whatever other runs and the pipeline commit in between         *)
(* (jobs.py, the list of ids between pending_notifications_for and         *)
(* mark_notified).                                                         *)
(***************************************************************************)
THEOREM RunsHonest == Spec => []RunHonest
  <1>1. IInv => RunHonest
    BY DEF IInv
  <1> QED
    BY <1>1, IInvInductive, PTL DEF Spec

(***************************************************************************)
(* A match that no run let go of is in the hands of one run at most, and a *)
(* channel carried it only for that run or for a committed mark: the       *)
(* reason why DuplicateHasCause holds (dispatch_digest_job).               *)
(***************************************************************************)
THEOREM SingleCarriers == Spec => []SingleCarrier
  <1>1. IInv => SingleCarrier
    BY DEF IInv
  <1> QED
    BY <1>1, IInvInductive, PTL DEF Spec

(***************************************************************************)
(* However many dispatchers run beside the pipeline, a match marked as     *)
(* notified was in a digest some channel took, or in the part of a text    *)
(* that Telegram was not sent (jobs.py, mark_notified by the ids that were *)
(* read; telegram.py, body_text[:4000]), and every enabled channel has     *)
(* carried it, has reported a failure of it or has cut it off              *)
(* (dispatcher.py, send_digest goes on after a success and a failure).     *)
(***************************************************************************)
THEOREM NotifiedDelivered == Spec => []NotifiedWasDelivered
  <1>1. IInv => NotifiedWasDelivered
    BY DEF IInv
  <1> QED
    BY <1>1, IInvInductive, PTL DEF Spec

(***************************************************************************)
(* A channel carries a match twice only when a run let go of it without a  *)
(* committed mark or two runs had it in hand: rollbacks, unreported        *)
(* deliveries and overlapping dispatchers are the only causes of duplicate *)
(* digests (MatchRecord.notified).                                         *)
(***************************************************************************)
THEOREM DuplicatesExplained == Spec => []DuplicateHasCause
  <1>1. IInv => DuplicateHasCause
    BY DEF IInv, SingleCarrier, CarriedOnce, DuplicateHasCause
  <1> QED
    BY <1>1, IInvInductive, PTL DEF Spec
=============================================================================
