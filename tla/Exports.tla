------------------------------ MODULE Exports ------------------------------
(***************************************************************************)
(* The export jobs of one organization: created by users, run on demand by *)
(* users and when due by the scheduler's passes of several processes.  A   *)
(* run is written before its report is built and committed after it, and   *)
(* SQLite's write lock is held in between.                                 *)
(***************************************************************************)
EXTENDS Integers, Sequences, FiniteSets, FiniteSetsExt

CONSTANTS
    Process,        \* processes of the server
    Schedule,       \* "daily", "weekly", "monthly"
    Day, Week,      \* their lengths in ticks
    MaxJobs, MaxExports, MaxTick    \* bounds

ASSUME ExportBounds ==
    /\ Schedule \subseteq {"daily", "weekly", "monthly"}
    /\ {Day, Week, MaxJobs, MaxExports, MaxTick} \subseteq Nat
    /\ 0 < Day /\ Day <= Week

VARIABLES
    tick,       \* the clock
    jobs,       \* export_jobs: [schedule, active, made, last], last = Never or a tick
    exports,    \* export_job_runs in the order of their commits
    locker,     \* the process that holds the write lock, or Nobody
    task        \* what each process does: [pc, began, job, left, read, fresh, by, seen]

exportVars == <<tick, jobs, exports, locker, task>>

Never == -1
Nobody == "nobody"

IdleWork ==
    [pc |-> "idle", began |-> 0, job |-> 0, left |-> {}, read |-> <<>>, fresh |-> FALSE,
     by |-> "user", seen |-> 0]

ExportsInit ==
    /\ tick = 0
    /\ jobs = <<>>
    /\ exports = <<>>
    /\ locker = Nobody
    /\ task = [p \in Process |-> IdleWork]

Goes(p, changed) == task' = [task EXCEPT ![p] = changed]

Cadence(schedule) == IF schedule = "weekly" THEN Week ELSE Day

-----------------------------------------------------------------------------

\* create_export_job: one transaction.
CreateJob(p, schedule, active) ==
    /\ Len(jobs) < MaxJobs
    /\ task[p].pc = "idle" /\ locker = Nobody
    /\ jobs' = Append(jobs, [schedule |-> schedule, active |-> active, made |-> tick, last |-> Never])
    /\ UNCHANGED <<tick, exports, locker, task>>

\* run_export_job: any job of the organization, active or not, due or not.
RunOnDemand(p, j) ==
    /\ task[p].pc = "idle" /\ j \in DOMAIN jobs
    /\ Goes(p, [IdleWork EXCEPT !.pc = "insert", !.job = j])
    /\ UNCHANGED <<tick, jobs, exports, locker>>

\* run_scheduled_scans_once takes the time before its scans,
StartPass(p) ==
    /\ task[p].pc = "idle"
    /\ Goes(p, [IdleWork EXCEPT !.pc = "scans", !.began = tick, !.by = "pass"])
    /\ UNCHANGED <<tick, jobs, exports, locker>>

\* and reads the active jobs after them, in any order.
ReadJobs(p) ==
    /\ task[p].pc = "scans"
    /\ Goes(p, [task[p] EXCEPT !.pc = "jobs", !.read = jobs, !.seen = Len(exports),
                   !.left = {j \in DOMAIN jobs : jobs[j].active}])
    /\ UNCHANGED <<tick, jobs, exports, locker>>

\* A commit of the session expires its rows: they are read again.
JobSeen(p, j) == IF task[p].fresh THEN jobs[j] ELSE task[p].read[j]

Anchor(job) == IF job.last = Never THEN job.made ELSE job.last

\* The next job of a pass; negative waits, for jobs run meanwhile, are not due.
TakeJob(p) ==
    /\ task[p].pc = "jobs"
    /\ \/ task[p].left = {} /\ Goes(p, IdleWork)
       \/ \E j \in task[p].left :
             LET job == JobSeen(p, j)
                 due == task[p].began - Anchor(job) >= Cadence(job.schedule)
             IN  Goes(p, [task[p] EXCEPT !.left = @ \ {j}, !.job = j,
                             !.pc = IF due THEN "insert" ELSE "jobs",
                             !.seen = IF task[p].fresh THEN Len(exports) ELSE @])
    /\ UNCHANGED <<tick, jobs, exports, locker>>

\* _execute_export_job: the row of the run is flushed,
InsertRun(p) ==
    /\ task[p].pc = "insert" /\ locker = Nobody
    /\ Len(exports) < MaxExports
    /\ locker' = p
    /\ Goes(p, [task[p] EXCEPT !.pc = "report"])
    /\ UNCHANGED <<tick, jobs, exports>>

\* unless the lock is not free in time: a pass ends, jobs that are left wait.
LockTimeout(p) ==
    /\ task[p].pc = "insert" /\ locker # Nobody
    /\ Goes(p, IdleWork)
    /\ UNCHANGED <<tick, jobs, exports, locker>>

\* Faulty variant of LastRun: a failed run counts.
LastRunAnyway(job, status) == tick

\* A failed report leaves the job alone.
LastRun(job, status) == IF status = "completed" THEN tick ELSE job.last

\* the report is built or raises, and the whole is committed.
CommitRun(p, status) ==
    /\ task[p].pc = "report"
    /\ exports' = Append(exports,
          [job |-> task[p].job, status |-> status, at |-> tick, by |-> task[p].by,
           began |-> task[p].began, seen |-> task[p].seen])
    /\ jobs' = [jobs EXCEPT ![task[p].job].last = LastRun(jobs[task[p].job], status)]
    /\ locker' = Nobody
    /\ Goes(p, IF task[p].by = "user" THEN IdleWork
               ELSE [task[p] EXCEPT !.pc = "jobs", !.fresh = TRUE, !.job = 0])
    /\ UNCHANGED tick

\* A process that dies loses what it has not committed.
Dies(p) ==
    /\ task[p].pc # "idle"
    /\ locker' = IF locker = p THEN Nobody ELSE locker
    /\ Goes(p, IdleWork)
    /\ UNCHANGED <<tick, jobs, exports>>

ExportTick ==
    /\ tick < MaxTick
    /\ tick' = tick + 1
    /\ UNCHANGED <<jobs, exports, locker, task>>

Runs(p) ==
    \/ InsertRun(p) \/ LockTimeout(p) \/ Dies(p)
    \/ \E status \in {"completed", "failed"} : CommitRun(p, status)

PassOf(p) == StartPass(p) \/ ReadJobs(p) \/ TakeJob(p) \/ Runs(p)

Demands(p) == Runs(p) \/ \E j \in DOMAIN jobs : RunOnDemand(p, j)

Creates(p, schedules, states) ==
    \E schedule \in schedules, active \in states : CreateJob(p, schedule, active)

ExportsNext ==
    (\E p \in Process : PassOf(p) \/ Demands(p) \/ Creates(p, Schedule, BOOLEAN)) \/ ExportTick

ExportsSpec == ExportsInit /\ [][ExportsNext]_exportVars

-----------------------------------------------------------------------------
(* Properties.                                                              *)

\* The last run of a job is its latest completed run, whoever ran it and however
\* the runs of several processes interleave, fail or die.
LastRunTrue ==
    \A j \in DOMAIN jobs :
        LET done == {exports[i].at : i \in {k \in DOMAIN exports :
                         exports[k].job = j /\ exports[k].status = "completed"}}
        IN  jobs[j].last = IF done = {} THEN Never ELSE Max(done)

\* A run of the scheduler keeps the cadence of its job to every completed run that
\* was committed when its pass looked at the job. (PassOf of two processes that
\* look before either commits both run it; "monthly" jobs have the daily cadence.)
RunsSpaced ==
    \A i, k \in DOMAIN exports :
        /\ i <= exports[k].seen /\ exports[i].job = exports[k].job
        /\ exports[i].status = "completed" /\ exports[k].by = "pass"
        => exports[k].began - exports[i].at >= Cadence(jobs[exports[k].job].schedule)

\* The last run of a job is true, and its cadence kept, for passes and users together.
ExportsKept == LastRunTrue /\ RunsSpaced
=============================================================================
