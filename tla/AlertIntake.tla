---------------------------- MODULE AlertIntake ----------------------------
(***************************************************************************)
(* Alerts that arrive from outside and what people do with alerts.         *)
(*                                                                         *)
(* A batch of AWS anomalies (a GCP budget message is a batch of one) is    *)
(* taken in one transaction.  Each event is looked up among the events     *)
(* taken before, by its id, and among the alerts, by its text.  An alert   *)
(* is flushed when it is made, the note that its event was taken with the  *)
(* next flush only.  The first flush takes the write lock of the database; *)
(* other processes read what is committed.                                 *)
(***************************************************************************)
EXTENDS Integers, Sequences, FiniteSets

CONSTANTS
    Taker,       \* worker processes that take batches
    Identified,  \* events with an id of their own
    Anonymous,   \* events without one
    MaxBatch,    \* bound: events in a batch
    MaxAlerts,   \* bound: alerts
    MaxSecond    \* bound: seconds that pass

ASSUME IntakeBounds ==
    /\ Identified \cap Anonymous = {}
    /\ {MaxBatch, MaxAlerts, MaxSecond} \subseteq Nat

VARIABLES
    second,  \* the wall clock
    dedupe,  \* whether the policy has a dedupe window (none passes here)
    alerts,  \* alert_events that are committed
    noted,   \* ids in the committed notes
    intake,  \* the batch of each process
    locked,  \* the process that has the write lock
    taken    \* observed: events of committed batches that no policy suppressed

intakeVars == <<second, dedupe, alerts, noted, intake, locked, taken>>

Events == Identified \cup Anonymous

NoBatch == [pc |-> "idle"]

IntakeInit ==
    /\ second = 0
    /\ dedupe \in BOOLEAN
    /\ alerts = <<>>
    /\ noted = {}
    /\ intake = [w \in Taker |-> NoBatch]
    /\ locked = {}
    /\ taken = {}

-----------------------------------------------------------------------------
\* Faulty variant of IdOf: the event's own id is not used.
IdOfBatch(e, now) == [second |-> now]

\* An event without an id gets one from the second of its batch.
IdOf(e, now) == IF e \in Identified THEN [event |-> e] ELSE [second |-> now]

Batches == UNION {[1..n -> Events] : n \in 1..MaxBatch}

TakeBatch(w, batch) ==
    /\ intake[w] = NoBatch
    /\ Len(alerts) + Len(batch) <= MaxAlerts
    /\ intake' = [intake EXCEPT ![w] =
                    [pc |-> "look", left |-> batch, now |-> second, made |-> <<>>,
                     flushed |-> {}, pending |-> {}, seen |-> {},
                     began |-> Len(alerts)]]
    /\ UNCHANGED <<second, dedupe, alerts, noted, locked, taken>>

\* A budget message of GCP: its own id, or that of its alert, is noted with it, so
\* that only one with an id of its own can be a duplicate.
TakeMessage(w, e) == e \in Identified /\ TakeBatch(w, <<e>>)

\* What w can read: its own flushed rows and what is committed.
Notes(w) == noted \cup intake[w].flushed

Visible(w) == alerts \o intake[w].made

Duplicate(w, e) == IdOf(e, intake[w].now) \in Notes(w)

\* The text has the id and the amount, so it is that of one event.
Repeats(w, e) == dedupe /\ \E i \in DOMAIN Visible(w) : Visible(w)[i].event = e

\* The next event is a duplicate, is suppressed (by its severity or a mute
\* window, or as a repeat), or is to become an alert.
Look(w, suppressed) ==
    LET mine == intake[w]
        e == Head(mine.left)
    IN
    /\ mine.pc = "look" /\ mine.left # <<>>
    /\ suppressed => ~Duplicate(w, e)
    /\ intake' = [intake EXCEPT ![w] =
                    IF suppressed THEN [mine EXCEPT !.left = Tail(@)]
                    ELSE IF Duplicate(w, e) \/ Repeats(w, e)
                    THEN [mine EXCEPT !.left = Tail(@), !.seen = @ \cup {e}]
                    ELSE [mine EXCEPT !.pc = "flush", !.seen = @ \cup {e}]]
    /\ UNCHANGED <<second, dedupe, alerts, noted, locked, taken>>

\* The alert and the earlier notes are flushed, the note of this event waits.
Make(w) ==
    LET mine == intake[w]
        e == Head(mine.left)
    IN
    /\ mine.pc = "flush"
    /\ locked \subseteq {w}
    /\ locked' = {w}
    /\ intake' = [intake EXCEPT ![w] =
                    [mine EXCEPT !.pc = "look", !.left = Tail(@),
                                 !.made = Append(@, [event |-> e, id |-> IdOf(e, mine.now),
                                                     by |-> w, began |-> mine.began,
                                                     checked |-> dedupe, log |-> <<>>, acked |-> FALSE]),
                                 !.flushed = @ \cup mine.pending,
                                 !.pending = {IdOf(e, mine.now)}]]
    /\ UNCHANGED <<second, dedupe, alerts, noted, taken>>

CommitBatch(w) ==
    LET mine == intake[w] IN
    /\ mine.pc = "look" /\ mine.left = <<>>
    /\ locked \subseteq {w}
    /\ locked' = {}
    /\ Len(alerts \o mine.made) <= MaxAlerts
    /\ alerts' = alerts \o mine.made
    /\ noted' = noted \cup mine.flushed \cup mine.pending
    /\ taken' = taken \cup mine.seen
    /\ intake' = [intake EXCEPT ![w] = NoBatch]
    /\ UNCHANGED <<second, dedupe>>

\* The lock is not released in time, or the process dies.
BatchFails(w) ==
    /\ intake[w] # NoBatch
    /\ intake' = [intake EXCEPT ![w] = NoBatch]
    /\ locked' = locked \ {w}
    /\ UNCHANGED <<second, dedupe, alerts, noted, taken>>

-----------------------------------------------------------------------------
(* The lifecycle of an alert: a log of actions, and a time of              *)
(* acknowledgement that dismissal and reactivation leave alone.            *)

MaxLog == 2

Logged(i, action) ==
    /\ locked = {}
    /\ Len(alerts[i].log) < MaxLog
    /\ alerts' = [alerts EXCEPT ![i].log = Append(@, action),
                                ![i].acked = @ \/ action = "acknowledged"]
    /\ UNCHANGED <<second, dedupe, noted, intake, locked, taken>>

Acknowledge(i) == Logged(i, "acknowledged")
Dismiss(i) == Logged(i, "dismissed")
Reactivate(i) == Logged(i, "reactivated")

LifecycleOf(a) ==
    IF a.log # <<>> THEN a.log[Len(a.log)] ELSE IF a.acked THEN "acknowledged" ELSE "active"

\* The alerts that the summary counts as unacknowledged, those that the
\* portfolio counts as open, and those that can still breach their deadline.
Unacknowledged == {i \in DOMAIN alerts : LifecycleOf(alerts[i]) \notin {"acknowledged", "dismissed"}}
Open == {i \in DOMAIN alerts : ~alerts[i].acked}

SecondPasses ==
    /\ second < MaxSecond
    /\ second' = second + 1
    /\ UNCHANGED <<dedupe, alerts, noted, intake, locked, taken>>

TakeIn(takers) ==
    \/ \E w \in takers :
         \/ \E batch \in Batches : TakeBatch(w, batch)
         \/ \E e \in Events : TakeMessage(w, e)
         \/ \E suppressed \in BOOLEAN : Look(w, suppressed)
         \/ Make(w) \/ CommitBatch(w) \/ BatchFails(w)
    \/ SecondPasses

Handle(i) == Acknowledge(i) \/ Dismiss(i) \/ Reactivate(i)

IntakeNext == TakeIn(Taker) \/ \E i \in DOMAIN alerts : Handle(i)

IntakeSpec == IntakeInit /\ [][IntakeNext]_intakeVars

-----------------------------------------------------------------------------
\* One event becomes two alerts only if the batches overlap, or if a batch has
\* the event twice, no other alert was made between the two, and the policy
\* has no dedupe window.
TakenOnce ==
    \A i, j \in DOMAIN alerts :
        i < j /\ alerts[i].id = alerts[j].id =>
            IF alerts[i].by = alerts[j].by /\ alerts[i].began = alerts[j].began
            THEN j = i + 1 /\ (alerts[j].event = alerts[i].event => ~alerts[j].checked)
            ELSE alerts[j].began < i

\* An event with an id that was taken and not suppressed has an alert, whatever
\* the other events of its batch and its second.
NoneDropped ==
    \A e \in taken \cap Identified : \E i \in DOMAIN alerts : alerts[i].event = e

\* The summary and the portfolio count the same alerts, but for those that were
\* dismissed without acknowledgement or reactivated after one.
CountsAgree ==
    \A i \in DOMAIN alerts :
        LET last == LifecycleOf(alerts[i]) IN
        /\ i \in Unacknowledged \ Open => last = "reactivated"
        /\ i \in Open \ Unacknowledged => last = "dismissed"
        /\ last = "acknowledged" => i \notin Open
        /\ \A n \in DOMAIN alerts[i].log :
             alerts[i].log[n] = "reactivated" /\ n = Len(alerts[i].log) => i \in Unacknowledged

\* Every event of a provider becomes one alert and is counted as such, however the
\* batches of several processes meet.
EventsCounted == TakenOnce /\ NoneDropped /\ CountsAgree
=============================================================================
