--------------------------- MODULE DigestDispatch ---------------------------
(***************************************************************************)
(* dispatch_digest_job: one database transaction in which a dispatcher     *)
(* (the scheduler's daily job, a `pem dispatch-digest' beside it) reads    *)
(* the pending matches of every active subscriber, sends the digest on     *)
(* each enabled channel and marks what it has read as notified.  The marks *)
(* become visible when the whole run commits; a mail is gone when it is    *)
(* sent.                                                                   *)
(*                                                                         *)
(* `match' is the committed table match_records; the pipeline that fills   *)
(* it is reduced to the opening, the commit and the rollback of its        *)
(* transaction.  `created_at' is the time that transaction began.          *)
(***************************************************************************)
EXTENDS Integers

CONSTANTS
    Dispatchers,  \* processes that run the job
    Matches,      \* (subscriber, edital) pairs that may match
    Subs,         \* subscribers
    Owner,        \* match -> its subscriber
    Channels,     \* the enabled channels: "email", "telegram" or both
    Score,        \* match -> its score, the order of the digest
    OnlyOnMatch,  \* PEM_NOTIFY_ONLY_ON_MATCH
    Window,       \* since_hours of pending_notifications_for
    MaxTime       \* bound on the clock

ASSUME DispatchAssumption ==
    /\ Owner \in [Matches -> Subs]
    /\ Channels \subseteq {"email", "telegram"}
    /\ Score \in [Matches -> Nat]
    /\ OnlyOnMatch \in BOOLEAN
    /\ Window \in Nat
    /\ MaxTime \in Nat

VARIABLES
    now,
    active,   \* subscribers with ativo = true
    match,    \* match -> its record
    pc,       \* where each dispatcher stands
    todo,     \* subscribers its loop has still to visit
    pending,  \* matches read for the subscriber at hand
    due,      \* channels still to try
    ok,       \* any_ok of send_digest
    marked,   \* matches updated by its open transaction
    fate,     \* history: the best that digests with the match have come to, by channel
    excused   \* history: matches that a run let go of without committing a mark, or
              \* that two runs had in hand at once

\* No digest has tried; the channel reported a failure; it took a digest cut off
\* before the match; it carried the match; it carried it more than once.
Fates   == {"none", "failed", "cut", "sent", "again"}
Records == [state : {"none", "open", "stored"}, created : 0 .. MaxTime, notified : BOOLEAN]
NoMatch == [state |-> "none", created |-> 0, notified |-> FALSE]

world == <<now, active>>
run   == <<pc, todo, pending, due, ok, marked>>
vars  == <<now, active, match, pc, todo, pending, due, ok, marked, fate, excused>>

Init ==
    /\ now = 0
    /\ active \in SUBSET Subs
    /\ match = [m \in Matches |-> NoMatch]
    /\ pc = [d \in Dispatchers |-> "idle"]
    /\ todo = [d \in Dispatchers |-> {}]
    /\ pending = [d \in Dispatchers |-> {}]
    /\ due = [d \in Dispatchers |-> {}]
    /\ ok = [d \in Dispatchers |-> FALSE]
    /\ marked = [d \in Dispatchers |-> {}]
    /\ fate = [m \in Matches |-> [c \in Channels |-> "none"]]
    /\ excused = {}

-----------------------------------------------------------------------------
(* The pipeline and the clock                                              *)

Tick ==
    /\ now < MaxTime
    /\ now' = now + 1
    /\ UNCHANGED <<active, match, run, fate, excused>>

OpenMatchAhead(m) ==
    /\ match[m].state = "none"
    /\ match' = [match EXCEPT ![m] = [NoMatch EXCEPT !.state = "open", !.created = now + 1]]
    /\ UNCHANGED <<world, run, fate, excused>>

OpenMatch(m) ==
    /\ match[m].state = "none"
    /\ match' = [match EXCEPT ![m] = [NoMatch EXCEPT !.state = "open", !.created = now]]
    /\ UNCHANGED <<world, run, fate, excused>>

CommitMatch(m) ==
    /\ match[m].state = "open"
    /\ match' = [match EXCEPT ![m].state = "stored"]
    /\ UNCHANGED <<world, run, fate, excused>>

RollbackMatch(m) ==
    /\ match[m].state = "open"
    /\ match' = [match EXCEPT ![m] = NoMatch]
    /\ UNCHANGED <<world, run, fate, excused>>

SeedSubscriber(s) ==
    /\ active' = active \cup {s}
    /\ UNCHANGED <<now, match, run, fate, excused>>

-----------------------------------------------------------------------------
(* dispatch_digest_job                                                     *)

\* MatchRepository.pending_notifications_for
PendingRegardless(s) ==
    {m \in Matches : /\ Owner[m] = s
                     /\ match[m].state = "stored"
                     /\ match[m].created >= now - Window}

Pending(s) ==
    {m \in Matches : /\ Owner[m] = s
                     /\ match[m].state = "stored"
                     /\ ~ match[m].notified
                     /\ match[m].created >= now - Window}

\* What a dispatcher has read and not yet settled by a commit.
InHand(d) == pending[d] \cup marked[d]

Excuse(S) == excused' = excused \cup S

ListAtivos(d) ==
    /\ pc[d] = "idle"
    /\ pc' = [pc EXCEPT ![d] = "loop"]
    /\ todo' = [todo EXCEPT ![d] = active]
    /\ UNCHANGED <<world, match, pending, due, ok, marked, fate, excused>>

\* The next subscriber; send_digest returns at once when there is nothing to
\* tell, unless empty digests are wanted.
ReadAgain(d, s) ==
    /\ pc[d] = "loop"
    /\ s \in todo[d]
    /\ ok' = [ok EXCEPT ![d] = FALSE]
    /\ pending' = [pending EXCEPT ![d] = Pending(s)]
    /\ due' = [due EXCEPT ![d] = IF Pending(s) = {} /\ OnlyOnMatch THEN {} ELSE Channels]
    /\ pc' = [pc EXCEPT ![d] = "send"]
    /\ Excuse({m \in Pending(s) : \E x \in Dispatchers \ {d} : m \in InHand(x)})
    /\ UNCHANGED <<world, match, todo, marked, fate>>

ReadPending(d, s) ==
    /\ pc[d] = "loop"
    /\ s \in todo[d]
    /\ todo' = [todo EXCEPT ![d] = @ \ {s}]
    /\ ok' = [ok EXCEPT ![d] = FALSE]
    /\ pending' = [pending EXCEPT ![d] = Pending(s)]
    /\ due' = [due EXCEPT ![d] = IF Pending(s) = {} /\ OnlyOnMatch THEN {} ELSE Channels]
    /\ pc' = [pc EXCEPT ![d] = "send"]
    /\ Excuse({m \in Pending(s) : \E x \in Dispatchers \ {d} : m \in InHand(x)})
    /\ UNCHANGED <<world, match, marked, fate>>

\* NotificationChannel.send reports an error of the server instead of raising it.
\* It may report a failure of a mail the server has taken: the answer was lost
\* or came after the timeout.
Reports(delivered, reported) == reported => delivered

\* What a channel takes of a digest of S: a mail is whole, Telegram gets the
\* first 4000 characters of the text, the best scores first.
Portions(c, S) ==
    {T \in SUBSET S : /\ c = "email" => T = S
                      /\ \A m \in T, n \in S \ T : Score[m] >= Score[n]}

Better(old, new) ==
    CASE old \in {"sent", "again"} -> IF new = "sent" THEN "again" ELSE old
      [] old = "cut" /\ new = "failed" -> "cut"
      [] OTHER -> new

\* One channel tries the digest of the run, of which it takes T.
Try(d, c, delivered, reported, T) ==
    /\ Reports(delivered, reported)
    /\ ok' = [ok EXCEPT ![d] = @ \/ reported]
    /\ fate' = [m \in Matches |->
                  IF m \notin pending[d] THEN fate[m]
                  ELSE [fate[m] EXCEPT ![c] =
                          Better(@, CASE ~ delivered -> "failed"
                                      [] m \in T    -> "sent"
                                      [] OTHER      -> "cut")]]

SendUntilTaken(d, c) ==
    /\ pc[d] = "send"
    /\ c \in due[d]
    /\ "email" \in due[d] => c = "email"
    /\ \E delivered, reported \in BOOLEAN, T \in Portions(c, pending[d]) :
         /\ Try(d, c, delivered, reported, T)
         /\ due' = [due EXCEPT ![d] = IF reported THEN {} ELSE @ \ {c}]
    /\ UNCHANGED <<world, match, pc, todo, pending, marked, excused>>

Send(d, c) ==
    /\ pc[d] = "send"
    /\ c \in due[d]
    /\ "email" \in due[d] => c = "email"
    /\ \E delivered, reported \in BOOLEAN, T \in Portions(c, pending[d]) :
         Try(d, c, delivered, reported, T)
    /\ due' = [due EXCEPT ![d] = @ \ {c}]
    /\ UNCHANGED <<world, match, pc, todo, pending, marked, excused>>

\* MatchRepository.mark_notified: the UPDATE waits for the rows another
\* dispatcher has updated and not committed.
RowsFree(d) == \A x \in Dispatchers \ {d} : marked[x] \cap pending[d] = {}

MarkOwner(d) ==
    /\ pc[d] = "send"
    /\ due[d] = {}
    /\ ok[d] /\ pending[d] # {}
    /\ RowsFree(d)
    /\ marked' = [marked EXCEPT ![d] = @ \cup UNION {Pending(Owner[m]) : m \in pending[d]}]
    /\ pending' = [pending EXCEPT ![d] = {}]
    /\ pc' = [pc EXCEPT ![d] = "loop"]
    /\ UNCHANGED <<world, match, todo, due, ok, fate, excused>>

MarkNotified(d) ==
    /\ pc[d] = "send"
    /\ due[d] = {}
    /\ ok[d] /\ pending[d] # {}
    /\ RowsFree(d)
    /\ marked' = [marked EXCEPT ![d] = @ \cup pending[d]]
    /\ pending' = [pending EXCEPT ![d] = {}]
    /\ pc' = [pc EXCEPT ![d] = "loop"]
    /\ UNCHANGED <<world, match, todo, due, ok, fate, excused>>

NothingToMark(d) ==
    /\ pc[d] = "send"
    /\ due[d] = {}
    /\ ~ (ok[d] /\ pending[d] # {})
    /\ Excuse(pending[d])
    /\ pending' = [pending EXCEPT ![d] = {}]
    /\ pc' = [pc EXCEPT ![d] = "loop"]
    /\ UNCHANGED <<world, match, todo, due, ok, marked, fate>>

\* get_session commits when the loop is over.
CommitRun(d) ==
    /\ pc[d] = "loop"
    /\ todo[d] = {}
    /\ match' = [m \in Matches |->
                   IF m \in marked[d] THEN [match[m] EXCEPT !.notified = TRUE] ELSE match[m]]
    /\ marked' = [marked EXCEPT ![d] = {}]
    /\ pc' = [pc EXCEPT ![d] = "idle"]
    /\ UNCHANGED <<world, todo, pending, due, ok, fate, excused>>

\* A rollback: what the run has updated is as it was, what it has sent is gone.
Rollback(d) ==
    /\ pc' = [pc EXCEPT ![d] = "idle"]
    /\ todo' = [todo EXCEPT ![d] = {}]
    /\ pending' = [pending EXCEPT ![d] = {}]
    /\ due' = [due EXCEPT ![d] = {}]
    /\ marked' = [marked EXCEPT ![d] = {}]
    /\ Excuse(InHand(d))
    /\ UNCHANGED <<world, match, ok, fate>>

\* A statement, a template or the building of a mail raises, or the process dies.
RunAborts(d) ==
    /\ pc[d] # "idle"
    /\ Rollback(d)

\* Two dispatchers visit the subscribers in different orders and wait for each
\* other's rows; PostgreSQL cancels one of them.
WaitsFor(d, x) ==
    /\ pc[d] = "send"
    /\ due[d] = {}
    /\ ok[d]
    /\ marked[x] \cap pending[d] # {}

DeadlockVictim(d) ==
    /\ \E D \in SUBSET Dispatchers :
         /\ d \in D
         /\ \A x \in D : \E y \in D \ {x} : WaitsFor(x, y)
    /\ Rollback(d)

-----------------------------------------------------------------------------
Dispatch(d) ==
    \/ \E s \in Subs : ReadPending(d, s)
    \/ \E c \in Channels : Send(d, c)
    \/ MarkNotified(d)
    \/ NothingToMark(d)
    \/ CommitRun(d)
    \/ DeadlockVictim(d)

Next ==
    \/ Tick
    \/ \E m \in Matches : OpenMatch(m) \/ CommitMatch(m) \/ RollbackMatch(m)
    \/ \E s \in Subs : SeedSubscriber(s)
    \/ \E d \in Dispatchers : ListAtivos(d) \/ Dispatch(d) \/ RunAborts(d)

Spec == Init /\ [][Next]_vars

\* A run that has begun keeps being scheduled: every channel gives up after its
\* timeout, and PostgreSQL's row locks are first come, first served, so a
\* waiting UPDATE gets the row when its holder ends (hence strong fairness).
FairSpec == Spec /\ \A d \in Dispatchers : SF_vars(Dispatch(d))

-----------------------------------------------------------------------------
TypeOK ==
    /\ now \in 0 .. MaxTime
    /\ active \in SUBSET Subs
    /\ match \in [Matches -> Records]
    /\ pc \in [Dispatchers -> {"idle", "loop", "send"}]
    /\ todo \in [Dispatchers -> SUBSET Subs]
    /\ pending \in [Dispatchers -> SUBSET Matches]
    /\ due \in [Dispatchers -> SUBSET Channels]
    /\ ok \in [Dispatchers -> BOOLEAN]
    /\ marked \in [Dispatchers -> SUBSET Matches]
    /\ fate \in [Matches -> [Channels -> Fates]]
    /\ excused \in SUBSET Matches

Carried(m, c) == fate[m][c] \in {"sent", "again"}
DeliveredOrCut(m) == \E c \in Channels : Carried(m, c) \/ fate[m][c] = "cut"

(***************************************************************************)
(* A match marked as notified has been in a digest that some channel took, *)
(* or Telegram took a digest cut off before it (telegram.py:44 sends 4000  *)
(* characters, mark_notified gets every id read); matches committed        *)
(* between the read, the sending and the mark are not marked with them.    *)
(* One success is enough for the mark, but not the end of the sending:     *)
(* every enabled channel has carried the match unless that channel         *)
(* reported a failure of it or cut it off (dispatcher.py, the loop over    *)
(* the channels and any_ok).                                               *)
(***************************************************************************)
NotifiedWasDelivered ==
    \A m \in Matches : match[m].notified =>
        DeliveredOrCut(m) /\ \A c \in Channels : fate[m][c] # "none"

(***************************************************************************)
(* The inductive reason: a run that has reported a success has delivered   *)
(* or cut off whatever it read and whatever it has marked, and has tried   *)
(* each channel that is no longer due.  Whatever it holds, and whatever is *)
(* notified, is committed.                                                 *)
(***************************************************************************)
RunHonest ==
    /\ \A m \in Matches : match[m].notified => match[m].state = "stored"
    /\ \A d \in Dispatchers :
        /\ pc[d] # "send" => pending[d] = {}
        /\ pc[d] = "idle" => marked[d] = {}
        /\ pc[d] = "send" => \A m \in pending[d] :
              /\ ok[d] => DeliveredOrCut(m)
              /\ \A c \in Channels \ due[d] : fate[m][c] # "none"
        /\ \A m \in marked[d] : DeliveredOrCut(m) /\ \A c \in Channels : fate[m][c] # "none"
        /\ \A m \in InHand(d) : match[m].state = "stored"

(***************************************************************************)
(* `MatchRecord.notified' keeps a match out of later digests: a channel    *)
(* carries it twice only if a run had let go of it without committing a    *)
(* mark (rolled back, no channel reported success) or two runs had it in   *)
(* hand at once.                                                           *)
(***************************************************************************)
DuplicateHasCause ==
    \A m \in Matches, c \in Channels : fate[m][c] = "again" => m \in excused

(***************************************************************************)
(* Its inductive reason: as long as nobody has let go of a match, at most  *)
(* one run has it in hand, that run will not visit its subscriber again,   *)
(* and a channel that has carried it is behind that run or behind a        *)
(* committed mark.                                                         *)
(***************************************************************************)
OncePerRun(d) ==
    /\ pending[d] \cap marked[d] = {}
    /\ \A m \in InHand(d) : Owner[m] \notin todo[d]

HeldByOne(m) ==
    \A d \in Dispatchers : m \in InHand(d) =>
        /\ ~ match[m].notified
        /\ \A x \in Dispatchers \ {d} : m \notin InHand(x)

CarriedOnce(m, c) ==
    /\ fate[m][c] # "again"
    /\ fate[m][c] = "sent" => \/ match[m].notified
                              \/ \E d \in Dispatchers : m \in marked[d]
                              \/ \E d \in Dispatchers : m \in pending[d] /\ c \notin due[d]

SingleCarrier ==
    /\ \A d \in Dispatchers : OncePerRun(d)
    /\ \A m \in Matches \ excused :
          HeldByOne(m) /\ \A c \in Channels : CarriedOnce(m, c)

(***************************************************************************)
(* A run ends, even when two of them mark the rows of each other.          *)
(***************************************************************************)
RunEnds == \A d \in Dispatchers : pc[d] # "idle" ~> pc[d] = "idle"

(***************************************************************************)
(* ADR-0008, last consequence: a match whose digest could not be sent can  *)
(* be sent by a later dispatch.                                            *)
(***************************************************************************)
UndeliveredStaysPending ==
    \A m \in Matches :
        (\A c \in Channels : fate[m][c] = "failed") => match[m].created >= now - Window
=============================================================================
