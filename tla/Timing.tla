------------------------------ MODULE Timing ------------------------------
(***************************************************************************)
(* What is said about time to one customer: the scheduler's status page,   *)
(* the freshness of its data, and the condition under which the            *)
(* scheduler's pass raises an alert.  Each reads the same tables, in its   *)
(* own order and with its own limit.                                       *)
(***************************************************************************)
EXTENDS Integers, Sequences, FiniteSets, FiniteSetsExt

CONSTANTS
    Frequency,      \* scan frequencies: "hourly", "daily", "weekly"
    IntervalOf,     \* the length of each in ticks
    HourTicks,      \* ticks of an hour
    Grace,          \* values of scheduler_overdue_alert_hours
    Feed,           \* providers that costs are kept of
    StaleAfter,     \* age at which a provider's data are stale: 48 hours
    StatusRuns,     \* the status page reads the 50 newest runs,
    FreshRuns,      \* freshness the 20 newest,
    FreshRows,      \* and the 500 newest rows of each table
    MaxRuns, MaxRows, MaxNow    \* bounds: runs, rows, ticks

ASSUME TimingBounds ==
    /\ IntervalOf \in [Frequency -> Nat \ {0}]
    /\ Grace \subseteq Nat \ {0}
    /\ {HourTicks, StaleAfter, StatusRuns, FreshRuns, FreshRows, MaxRuns, MaxRows, MaxNow} \subseteq Nat

VARIABLES
    moment,     \* the clock
    runs,       \* scan_runs: [start, end, state], in the order of their starts
    policy,     \* scanning_permissions: [frequency, override, enabled, grace, approved]
    ingested    \* cost_snapshots and imported_cost_records: [table, feed, at], as inserted

timingVars == <<moment, runs, policy, ingested>>

TimingInit ==
    /\ moment = 0
    /\ runs = <<>>
    /\ policy \in [frequency : Frequency, override : {"none"}, enabled : {FALSE},
                   grace : Grace, approved : {0}]
    /\ ingested = <<>>

-----------------------------------------------------------------------------
(* What changes them: scans begin and end in any order, two of them may run *)
(* beside each other; the policy is set; rows arrive; time passes.          *)

Begin ==
    /\ Len(runs) < MaxRuns
    /\ runs' = Append(runs, [start |-> moment, end |-> 0, state |-> "running"])
    /\ UNCHANGED <<moment, policy, ingested>>

End(i, state) ==
    /\ i \in DOMAIN runs /\ runs[i].state = "running"
    /\ runs' = [runs EXCEPT ![i].end = moment, ![i].state = state]
    /\ UNCHANGED <<moment, policy, ingested>>

\* update_scheduler_policy
SetPolicy(enabled, override, grace) ==
    /\ policy' = [policy EXCEPT !.enabled = enabled, !.override = override, !.grace = grace]
    /\ UNCHANGED <<moment, runs, ingested>>

Ingest(table, feed) ==
    /\ Len(ingested) < MaxRows
    /\ ingested' = Append(ingested, [table |-> table, feed |-> feed, at |-> moment])
    /\ UNCHANGED <<moment, runs, policy>>

TimePasses(ticks) ==
    /\ moment + ticks <= MaxNow
    /\ moment' = moment + ticks
    /\ UNCHANGED <<runs, policy, ingested>>

RunsChange ==
    \/ Begin
    \/ \E i \in 1..MaxRuns, state \in {"completed", "failed"} : End(i, state)
    \/ \E enabled \in BOOLEAN, override \in Frequency \cup {"none"}, grace \in Grace :
          SetPolicy(enabled, override, grace)
    \/ TimePasses(1)

RowsChange ==
    \/ \E table \in {"snapshots", "imports"}, feed \in Feed : Ingest(table, feed)
    \/ TimePasses(StaleAfter)

TimingNext == RunsChange \/ RowsChange

TimingSpec == TimingInit /\ [][TimingNext]_timingVars

-----------------------------------------------------------------------------
(* scheduler_status.py                                                     *)

\* An override counts only if it names a frequency.
Interval ==
    IntervalOf[IF policy.enabled /\ policy.override \in Frequency THEN policy.override
               ELSE policy.frequency]

\* The newest n of the runs by start, of which the last success is taken; no
\* success is written as -1.
Successes(n) == {i \in DOMAIN runs : i > Len(runs) - n /\ runs[i].state = "completed"}

LastSuccess(n) ==
    IF Successes(n) = {} THEN -1 ELSE runs[Max(Successes(n))].end

\* compute_next_run: intervals are added until the time is not before now.
NextRun(now, anchor) ==
    anchor + Interval * (CHOOSE k \in 1..(now + 2) :
        /\ anchor + k * Interval >= now
        /\ k = 1 \/ anchor + (k - 1) * Interval < now)

Anchor == IF LastSuccess(StatusRuns) >= 0 THEN LastSuccess(StatusRuns) ELSE policy.approved

Limit == Interval + policy.grace * HourTicks

\* Faulty variant of StatusOverdue: an interval is forgotten.
StatusOverdueEarly == LastSuccess(StatusRuns) >= 0 /\ moment - LastSuccess(StatusRuns) > policy.grace * HourTicks

StatusOverdue == LastSuccess(StatusRuns) >= 0 /\ moment - LastSuccess(StatusRuns) > Limit

-----------------------------------------------------------------------------
(* run_due_scans: the success that ended last.                             *)

LastEnd ==
    LET ends == {runs[i].end : i \in Successes(MaxRuns)} IN IF ends = {} THEN -1 ELSE Max(ends)

PassOverdue == LastEnd >= 0 /\ moment - LastEnd > Limit

PassDue == LastEnd < 0 \/ moment - LastEnd >= Interval

-----------------------------------------------------------------------------
(* get_data_freshness                                                      *)

\* max(interval / 4, 15 minutes)
Slack == Max({Interval \div 4, HourTicks \div 4})

SchedulerHealth ==
    IF LastSuccess(FreshRuns) < 0 THEN "unknown"
    ELSE IF moment - LastSuccess(FreshRuns) - Interval > Slack THEN "lagging" ELSE "healthy"

RowsIn(table) == {i \in DOMAIN ingested : ingested[i].table = table}

\* The rows that are read: the newest ones of the table.
Read(table) == {i \in RowsIn(table) : Cardinality({j \in RowsIn(table) : j > i}) < FreshRows}

Seen(feed) == {ingested[i].at : i \in {i \in Read("snapshots") \cup Read("imports") : ingested[i].feed = feed}}

FeedState(feed) ==
    IF Seen(feed) = {} THEN "unknown"
    ELSE IF moment - Max(Seen(feed)) > StaleAfter THEN "stale" ELSE "fresh"

-----------------------------------------------------------------------------
\* While the success that started last is also the one that ended last and is
\* among the runs that the page reads, the page calls the scheduler overdue
\* exactly when its pass does.
StatusAgrees ==
    LastSuccess(StatusRuns) = LastEnd => (StatusOverdue <=> PassOverdue)

\* The next run that is shown is never past and at most an interval away; before
\* the interval has passed it is when the scheduler will first find a scan due.
NextRunRight ==
    LET next == NextRun(moment, Anchor) IN
    /\ moment <= next /\ next <= moment + Interval
    /\ Anchor = LastEnd /\ ~PassDue => next = LastEnd + Interval
    /\ PassDue /\ Anchor = LastEnd /\ (moment - LastEnd) % Interval = 0 => next = moment

\* Freshness reads fewer runs. If it finds the same success, an overdue scheduler
\* is not called healthy unless the alert comes earlier than the slack, and only
\* a scheduler whose scan is due is called lagging.
LagFits ==
    LastSuccess(FreshRuns) = LastEnd =>
        /\ PassOverdue /\ policy.grace * HourTicks >= Slack => SchedulerHealth = "lagging"
        /\ SchedulerHealth = "lagging" => PassDue

\* The end of a successful scan puts status and freshness right at once, if no
\* later scan has ended already.
SuccessSeen ==
    [][\A i \in DOMAIN runs :
         End(i, "completed") /\ (\A j \in DOMAIN runs : j > i => runs[j].state = "running") =>
            (Len(runs) - i < FreshRuns => ~StatusOverdue' /\ SchedulerHealth' = "healthy")]_timingVars

\* A provider is called fresh or stale after its newest row, if that is among
\* the rows read; a provider with newer rows than another is not called staler,
\* however the limits fall.
FreshnessOrdered ==
    \A f, g \in Feed :
        \A i, j \in DOMAIN ingested :
            /\ ingested[i].feed = f /\ ingested[j].feed = g /\ ingested[i].table = ingested[j].table
            /\ \A k \in DOMAIN ingested : ingested[k].feed = g => ingested[k].at <= ingested[i].at
            /\ FeedState(g) = "fresh"
            /\ Cardinality({k \in DOMAIN ingested : k > i}) < FreshRows
            => FeedState(f) = "fresh"

\* Status page, freshness and scheduler agree about what is late and what is next,
\* as long as the runs that matter are within their limits.
TimesAgree ==
    /\ [](StatusAgrees /\ NextRunRight /\ LagFits /\ FreshnessOrdered)
    /\ SuccessSeen
=============================================================================
