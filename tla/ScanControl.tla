---------------------------- MODULE ScanControl ----------------------------
(***************************************************************************)
(* Scanning permission, scan runs and the scan scheduler of OptiOra.       *)
(*                                                                         *)
(* The deployed service is `uvicorn --workers N`: N processes, each with   *)
(* its own asyncio event loop, its own scheduler loop and its own          *)
(* `_scheduler_running` flag, over one database.  No provider call, cost   *)
(* query or export in the code gives the event loop back (the SDK calls    *)
(* are synchronous); the only suspension inside a pass is the backoff      *)
(* sleep between attempts.  So a process interleaves its own tasks only    *)
(* there and between tasks, while different processes interleave at every  *)
(* database statement.  An action is what runs between two such points.    *)
(*                                                                         *)
(* The database is SQLite, the default: one transaction writes at a time,  *)
(* and a statement that finds the write lock taken waits five seconds and  *)
(* then fails with "database is locked".                                   *)
(***************************************************************************)
EXTENDS Integers, FiniteSets

CONSTANTS
    Worker,       \* the server processes
    Customer,     \* the organizations' customer ids
    Provider,     \* the cloud providers a scan asks
    Exporter,     \* the customers that own an active export job
    Uuid,         \* suffixes of the scans that adding credentials starts
    None,         \* no process
    MaxClock,     \* bound: seconds of the run
    MaxAttempts,  \* scheduler_retry_max_attempts
    Cadence,      \* scan_interval_seconds of the effective frequency
    Grace,        \* scheduler_overdue_alert_hours
    MaxCrashes,   \* bound: processes that die and are restarted
    RequireLive   \* REQUIRE_LIVE_PROVIDER_DATA

ASSUME BoundsAssumption ==
    /\ MaxClock \in Nat
    /\ MaxAttempts \in Nat \ {0}
    /\ Cadence \in Nat \ {0}
    /\ Grace \in Nat \ {0}
    /\ MaxCrashes \in Nat
    /\ RequireLive \in BOOLEAN

ASSUME NamesAssumption ==
    /\ None \notin Worker
    /\ Exporter \subseteq Customer
    /\ Uuid \cap (1..MaxAttempts) = {}

-----------------------------------------------------------------------------

Time == 0..MaxClock

\* scan_<customer>_<second>, with _retry<n> from the second attempt on, and
\* with a random suffix when credentials are added.
ScanId == [cust: Customer, at: Time, tag: (1..MaxAttempts) \cup Uuid]

\* Who may run a scheduler pass in a process: its loop, or a run-now request.
Entry == {"loop", "now"}

PermissionState ==
    {"none", "initialized", "pending_approval", "approved", "running", "paused"}
Scannable == {"approved", "running"}

RunState == {"absent", "running", "completed", "failed"}
Terminal == {"completed", "failed"}

PassPc == {"idle", "pick", "overdue", "create", "scanning", "triggered",
           "retry", "asleep", "giveup", "exports", "exporting"}
ScanPc == {"off", "insert", "fetch", "flush", "commit", "finish", "raise"}

VARIABLES
    clock,       \* seconds
    perm,        \* scanning_permissions.state per customer
    runs,        \* scan_runs: state, and completed_at of a success, per scan id
    accounts,    \* provider_accounts: <<customer, provider>> committed
    snaps,       \* cost_snapshots: <<scan id, provider>> committed
    overdue,     \* scheduler.overdue alerts: <<customer, second>>
    failures,    \* scheduler.scan_failure alerts: the scan id they name
    exported,    \* export_jobs.last_run_at (or created_at) per customer
    writer,      \* the process whose open transaction holds the write lock
    busy,        \* _scheduler_running of each process
    loop,        \* the task that has each process's event loop
    pass,        \* the scheduler pass of each process and entry
    queue,       \* scans whose background task has yet to start
    scan,        \* the scan each process executes
    crashes      \* how many processes have died

db == <<perm, runs, accounts, snaps, overdue, failures, exported, writer>>
process == <<busy, loop, pass, queue, scan>>
vars == <<clock, perm, runs, accounts, snaps, overdue, failures, exported, writer,
          busy, loop, pass, queue, scan, crashes>>

NoRun == [state |-> "absent", at |-> 0]

IdlePass == [pc |-> "idle", now |-> 0, todo |-> {}, scope |-> {},
             cust |-> None, attempt |-> 1]

NoScan == [pc |-> "off", id |-> None, todo |-> {}, ok |-> {}, err |-> {},
           fresh |-> {}, via |-> "bg"]

NewScan(id, via, pc) == [NoScan EXCEPT !.pc = pc, !.id = id, !.via = via,
                                       !.todo = Provider]

Init ==
    /\ clock = 0
    /\ perm = [c \in Customer |-> "none"]
    /\ runs = [id \in ScanId |-> NoRun]
    /\ accounts = {}
    /\ snaps = {}
    /\ overdue = {}
    /\ failures = {}
    /\ exported = [c \in Customer |-> 0]
    /\ writer = None
    /\ busy = [w \in Worker |-> FALSE]
    /\ loop = [w \in Worker |-> "free"]
    /\ pass = [w \in Worker |-> [e \in Entry |-> IdlePass]]
    /\ queue = [w \in Worker |-> {}]
    /\ scan = [w \in Worker |-> NoScan]
    /\ crashes = 0

-----------------------------------------------------------------------------
(* The write lock of the database, and commits.                            *)

CanWrite(w) == writer \in {None, w}
Locked(w) == ~CanWrite(w)

\* Faulty variant of Released: the transaction is left open.
NeverReleased(w) == writer

Released(w) == IF writer = w THEN None ELSE writer

\* Faulty variant of Insertable: scan_id without its UNIQUE constraint.
DuplicatesAllowed(id) == runs[id].state \in RunState

\* scan_runs.scan_id is UNIQUE.
Insertable(id) == runs[id].state = "absent"

Insert(id) == runs' = [runs EXCEPT ![id].state = "running"]

SetScan(w, r) == scan' = [scan EXCEPT ![w] = r]

SetPass(w, e, r) == pass' = [pass EXCEPT ![w][e] = r]

CompletedRuns(c) == {id \in ScanId : id.cust = c /\ runs[id].state = "completed"}

-----------------------------------------------------------------------------
(* Permission handlers: one commit each, in a process whose loop is free.  *)
(* One that times out on the write lock changes nothing.                   *)

Handler(w) == loop[w] = "free" /\ CanWrite(w)

SetPermission(c, state) ==
    /\ perm' = [perm EXCEPT ![c] = state]
    /\ UNCHANGED <<clock, runs, accounts, snaps, overdue, failures, exported, writer,
                   process, crashes>>

RequestApproval(c) == SetPermission(c, "pending_approval")

Approve(c) == SetPermission(c, "approved")

Pause(c) == perm[c] # "none" /\ SetPermission(c, "paused")

Resume(c) == perm[c] # "none" /\ SetPermission(c, "running")

\* The policy handler creates the row when there is none.
UpdatePolicy(c) == perm[c] = "none" /\ SetPermission(c, "initialized")

PermissionHandler ==
    \E w \in Worker, c \in Customer :
        /\ Handler(w)
        /\ \/ RequestApproval(c)
           \/ Approve(c)
           \/ Pause(c)
           \/ Resume(c)
           \/ UpdatePolicy(c)

-----------------------------------------------------------------------------
(* Manual scans: the run row is inserted by the request, the scan runs as  *)
(* its background task after the response.                                 *)

MayStart(c) == perm[c] \in Scannable

\* POST /scanning/start up to the insert.
StartScan(w, c) ==
    /\ loop[w] = "free"
    /\ MayStart(c)
    /\ loop' = [loop EXCEPT ![w] = "request"]
    /\ SetScan(w, NewScan([cust |-> c, at |-> clock, tag |-> 1], "bg", "insert"))
    /\ UNCHANGED <<clock, db, busy, pass, queue, crashes>>

\* uuid4 does not repeat itself.
UnusedUuid(u) ==
    /\ \A id \in ScanId : id.tag = u => Insertable(id)
    /\ \A w \in Worker : scan[w].pc = "insert" => scan[w].id.tag # u

\* POST /credentials/add up to the insert: it approves, then starts a scan.
AddCredentials(w, c) ==
    /\ Handler(w)
    /\ perm' = [perm EXCEPT ![c] = "approved"]
    /\ loop' = [loop EXCEPT ![w] = "request"]
    /\ \E u \in Uuid :
         /\ UnusedUuid(u)
         /\ SetScan(w, NewScan([cust |-> c, at |-> clock, tag |-> u], "bg", "insert"))
    /\ UNCHANGED <<clock, runs, accounts, snaps, overdue, failures, exported, writer,
                   busy, pass, queue, crashes>>

InsertRun(w) ==
    /\ scan[w].pc = "insert"
    /\ CanWrite(w)
    /\ Insertable(scan[w].id)
    /\ Insert(scan[w].id)
    /\ queue' = [queue EXCEPT ![w] = @ \cup {scan[w].id}]
    /\ SetScan(w, NoScan)
    /\ loop' = [loop EXCEPT ![w] = "free"]
    /\ UNCHANGED <<clock, perm, accounts, snaps, overdue, failures, exported, writer,
                   busy, pass, crashes>>

\* A second scan of the same second, or a locked database: 400, no run.
RejectInsert(w) ==
    /\ scan[w].pc = "insert"
    /\ Locked(w) \/ ~Insertable(scan[w].id)
    /\ SetScan(w, NoScan)
    /\ loop' = [loop EXCEPT ![w] = "free"]
    /\ UNCHANGED <<clock, db, busy, pass, queue, crashes>>

BeginQueued(w, id) ==
    /\ loop[w] = "free"
    /\ id \in queue[w]
    /\ queue' = [queue EXCEPT ![w] = @ \ {id}]
    /\ SetScan(w, NewScan(id, "bg", "fetch"))
    /\ loop' = [loop EXCEPT ![w] = "scan"]
    /\ UNCHANGED <<clock, db, busy, pass, crashes>>

-----------------------------------------------------------------------------
(* _run_cost_analysis.                                                     *)

\* The scan is over.  A background scan frees the event loop; a scheduled one
\* returns to its pass, or raises into it.
Return(w, ok) ==
    /\ SetScan(w, NoScan)
    /\ IF scan[w].via = "bg"
       THEN /\ loop' = [loop EXCEPT ![w] = "free"]
            /\ UNCHANGED pass
       ELSE /\ SetPass(w, scan[w].via, [pass[w][scan[w].via] EXCEPT
                                           !.pc = IF ok THEN "triggered" ELSE "retry"])
            /\ UNCHANGED loop

\* A commit of the scan's session: the snapshots and the accounts it added.
Publish(w) ==
    /\ snaps' = snaps \cup {<<scan[w].id, p>> : p \in scan[w].ok}
    /\ accounts' = accounts \cup {<<scan[w].id.cust, p>> : p \in scan[w].fresh}
    /\ writer' = Released(w)

\* The provider answers with an error, or an account row is already there, or
\* the account has to be inserted.
Fetch(w, p) ==
    /\ scan[w].pc = "fetch"
    /\ p \in scan[w].todo
    /\ \/ SetScan(w, [scan[w] EXCEPT !.todo = @ \ {p}, !.err = @ \cup {p}])
       \/ /\ <<scan[w].id.cust, p>> \in accounts
          /\ SetScan(w, [scan[w] EXCEPT !.todo = @ \ {p}, !.ok = @ \cup {p}])
       \/ /\ <<scan[w].id.cust, p>> \notin accounts
          /\ SetScan(w, [scan[w] EXCEPT !.todo = @ \ {p}, !.ok = @ \cup {p},
                                        !.fresh = @ \cup {p}, !.pc = "flush"])
    /\ UNCHANGED <<clock, db, busy, loop, pass, queue, crashes>>

\* Handling an answer raises, or evaluating the budget does.
ScanRaises(w) ==
    /\ scan[w].pc \in {"fetch", "commit"}
    /\ SetScan(w, [scan[w] EXCEPT !.pc = "raise"])
    /\ UNCHANGED <<clock, db, busy, loop, pass, queue, crashes>>

AccountConflict(w) ==
    \E p \in scan[w].fresh : <<scan[w].id.cust, p>> \in accounts

\* The insert is flushed: the open transaction has the write lock from here
\* to the next commit, over the calls to the remaining providers.
Flush(w) ==
    /\ scan[w].pc = "flush"
    /\ CanWrite(w)
    /\ ~AccountConflict(w)
    /\ writer' = w
    /\ SetScan(w, [scan[w] EXCEPT !.pc = "fetch"])
    /\ UNCHANGED <<clock, perm, runs, accounts, snaps, overdue, failures, exported,
                   busy, loop, pass, queue, crashes>>

\* Faulty variant of LiveEnough: the policy is not enforced.
AlwaysEnough(w) == scan[w].ok \subseteq Provider

\* The policy that a scan has to reach at least one provider.
LiveEnough(w) == RequireLive => scan[w].ok # {}

AllFetched(w) ==
    /\ scan[w].pc = "fetch"
    /\ scan[w].todo = {}
    /\ IF scan[w].err = {}
       THEN UNCHANGED <<snaps, accounts, writer>>
       ELSE CanWrite(w) /\ Publish(w)
    /\ SetScan(w, [scan[w] EXCEPT !.pc = IF LiveEnough(w) THEN "commit" ELSE "raise"])
    /\ UNCHANGED <<clock, perm, runs, overdue, failures, exported, busy, loop, pass,
                   queue, crashes>>

\* Faulty variant of CommitScan: the run is completed on what was not committed.
SkipCommit(w) ==
    /\ scan[w].pc = "commit"
    /\ CanWrite(w)
    /\ SetScan(w, [scan[w] EXCEPT !.pc = "finish"])
    /\ UNCHANGED <<clock, db, busy, loop, pass, queue, crashes>>

CommitScan(w) ==
    /\ scan[w].pc = "commit"
    /\ CanWrite(w)
    /\ Publish(w)
    /\ SetScan(w, [scan[w] EXCEPT !.pc = "finish"])
    /\ UNCHANGED <<clock, perm, runs, overdue, failures, exported, busy, loop, pass,
                   queue, crashes>>

\* complete_scan_run.
CompleteScan(w) ==
    /\ scan[w].pc = "finish"
    /\ CanWrite(w)
    /\ runs' = [runs EXCEPT ![scan[w].id] = [state |-> "completed", at |-> clock]]
    /\ Return(w, TRUE)
    /\ UNCHANGED <<clock, perm, accounts, snaps, overdue, failures, exported, writer,
                   busy, queue, crashes>>

\* Faulty variant of FailScan: the failure is not recorded on the run.
FailSilently(w) ==
    /\ scan[w].pc = "raise"
    /\ CanWrite(w)
    /\ Publish(w)
    /\ Return(w, FALSE)
    /\ UNCHANGED <<clock, perm, runs, overdue, failures, exported, busy, queue, crashes>>

\* fail_scan_run: its commit also commits what the scan had pending.
FailScan(w) ==
    /\ scan[w].pc = "raise"
    /\ CanWrite(w)
    /\ Publish(w)
    /\ runs' = [runs EXCEPT ![scan[w].id].state = "failed"]
    /\ Return(w, FALSE)
    /\ UNCHANGED <<clock, perm, overdue, failures, exported, busy, queue, crashes>>

\* A flush or a commit fails, on the lock or on the UNIQUE account row.  The
\* session must be rolled back before it is used again and fail_scan_run does
\* not do that, so its own query raises: the run keeps the state RUNNING.
WriteFails(w) ==
    /\ \/ scan[w].pc \in {"flush", "commit", "finish", "raise"} /\ Locked(w)
       \/ scan[w].pc = "fetch" /\ scan[w].todo = {} /\ scan[w].err # {} /\ Locked(w)
       \/ scan[w].pc = "flush" /\ CanWrite(w) /\ AccountConflict(w)
    /\ writer' = Released(w)
    /\ Return(w, FALSE)
    /\ UNCHANGED <<clock, perm, runs, accounts, snaps, overdue, failures, exported, busy,
                   queue, crashes>>

ScanStep(w) ==
    \/ \E p \in Provider : Fetch(w, p)
    \/ ScanRaises(w)
    \/ Flush(w)
    \/ AllFetched(w)
    \/ CommitScan(w)
    \/ CompleteScan(w)
    \/ FailScan(w)
    \/ WriteFails(w)

-----------------------------------------------------------------------------
(* run_scheduled_scans_once.                                               *)

\* Faulty variant of NotBusy: only the caller's own pass is looked at.
NoGuard(w) == busy[w] \in BOOLEAN

NotBusy(w) == ~busy[w]

\* The pass reads the permissions once.  The loop's sleep between two passes is
\* any time; run-now is limited to the caller's organization.
BeginPass(w, e, scope) ==
    /\ loop[w] = "free"
    /\ pass[w][e].pc = "idle"
    /\ NotBusy(w)
    /\ busy' = [busy EXCEPT ![w] = TRUE]
    /\ loop' = [loop EXCEPT ![w] = e]
    /\ SetPass(w, e, [IdlePass EXCEPT !.pc = "pick", !.now = clock, !.scope = scope,
                                      !.todo = {c \in scope : perm[c] \in Scannable}])
    /\ UNCHANGED <<clock, db, queue, scan, crashes>>

\* Faulty variant of Due: one second early.
DueEarly(c, now) ==
    \A id \in CompletedRuns(c) : now - runs[id].at >= Cadence - 1

Due(c, now) ==
    \A id \in CompletedRuns(c) : now - runs[id].at >= Cadence

Overdue(c, now) ==
    /\ CompletedRuns(c) # {}
    /\ \A id \in CompletedRuns(c) : now - runs[id].at > Cadence + Grace

\* Faulty variant of OverdueAlertedSince: the boundary is left out.
OverdueAlertedAfter(c, since) ==
    \E a \in overdue : a[1] = c /\ a[2] > since

OverdueAlertedSince(c, since) ==
    \E a \in overdue : a[1] = c /\ a[2] >= since

\* The next permission of the list: skipped, or to be scanned, after an alert
\* when its last success is too old and no such alert is recent.
Pick(w, e, c) ==
    LET now == pass[w][e].now
        late == Overdue(c, now) /\ ~OverdueAlertedSince(c, now - Grace)
    IN  /\ loop[w] = e
        /\ pass[w][e].pc = "pick"
        /\ c \in pass[w][e].todo
        /\ SetPass(w, e,
               IF Due(c, now)
               THEN [pass[w][e] EXCEPT !.pc = IF late THEN "overdue" ELSE "create",
                                       !.cust = c, !.attempt = 1]
               ELSE [pass[w][e] EXCEPT !.todo = @ \ {c}])
        /\ UNCHANGED <<clock, db, busy, loop, queue, scan, crashes>>

RaiseOverdue(w, e) ==
    /\ loop[w] = e
    /\ pass[w][e].pc = "overdue"
    /\ CanWrite(w)
    /\ overdue' = overdue \cup {<<pass[w][e].cust, pass[w][e].now>>}
    /\ SetPass(w, e, [pass[w][e] EXCEPT !.pc = "create"])
    /\ UNCHANGED <<clock, perm, runs, accounts, snaps, failures, exported, writer, busy,
                   loop, queue, scan, crashes>>

NextCustomer(w, e) == [pass[w][e] EXCEPT !.pc = "pick", !.todo = @ \ {pass[w][e].cust}]

NextAttempt(w, e) == [pass[w][e] EXCEPT !.pc = "create", !.attempt = @ + 1]

AttemptId(w, e) == [cust |-> pass[w][e].cust, at |-> pass[w][e].now,
                    tag |-> pass[w][e].attempt]

CreateRun(w, e) ==
    /\ loop[w] = e
    /\ pass[w][e].pc = "create"
    /\ CanWrite(w)
    /\ Insertable(AttemptId(w, e))
    /\ Insert(AttemptId(w, e))
    /\ SetScan(w, NewScan(AttemptId(w, e), e, "fetch"))
    /\ SetPass(w, e, [pass[w][e] EXCEPT !.pc = "scanning"])
    /\ UNCHANGED <<clock, perm, accounts, snaps, overdue, failures, exported, writer, busy,
                   loop, queue, crashes>>

\* Faulty variant of AuditTriggered: the loop over attempts is not left.
TriggeredAgain(w, e) ==
    /\ loop[w] = e
    /\ pass[w][e].pc = "triggered"
    /\ CanWrite(w)
    /\ SetPass(w, e, IF pass[w][e].attempt < MaxAttempts THEN NextAttempt(w, e)
                                                        ELSE NextCustomer(w, e))
    /\ UNCHANGED <<clock, db, busy, loop, queue, scan, crashes>>

\* The audit row of a success; the pass goes on with the next permission.
AuditTriggered(w, e) ==
    /\ loop[w] = e
    /\ pass[w][e].pc = "triggered"
    /\ CanWrite(w)
    /\ SetPass(w, e, NextCustomer(w, e))
    /\ UNCHANGED <<clock, db, busy, loop, queue, scan, crashes>>

\* Faulty variant of AttemptsLeft: one attempt too many.
OneMoreAttempt(w, e) == pass[w][e].attempt <= MaxAttempts

AttemptsLeft(w, e) == pass[w][e].attempt < MaxAttempts

\* The audit row of a failed attempt.  The loop's pass sleeps before the next
\* attempt, which frees the event loop; a run-now pass retries at once.
AuditRetry(w, e) ==
    /\ loop[w] = e
    /\ pass[w][e].pc = "retry"
    /\ CanWrite(w)
    /\ IF ~AttemptsLeft(w, e)
       THEN /\ SetPass(w, e, [pass[w][e] EXCEPT !.pc = "giveup"])
            /\ UNCHANGED loop
       ELSE IF e = "loop"
       THEN /\ SetPass(w, e, [pass[w][e] EXCEPT !.pc = "asleep"])
            /\ loop' = [loop EXCEPT ![w] = "free"]
       ELSE /\ SetPass(w, e, NextAttempt(w, e))
            /\ UNCHANGED loop
    /\ UNCHANGED <<clock, db, busy, queue, scan, crashes>>

Wake(w, e) ==
    /\ loop[w] = "free"
    /\ pass[w][e].pc = "asleep"
    /\ loop' = [loop EXCEPT ![w] = e]
    /\ SetPass(w, e, NextAttempt(w, e))
    /\ UNCHANGED <<clock, db, busy, queue, scan, crashes>>

\* Faulty variant of GiveUp: the alert names the first attempt.
GiveUpOnFirst(w, e) ==
    /\ loop[w] = e
    /\ pass[w][e].pc = "giveup"
    /\ CanWrite(w)
    /\ failures' = failures \cup {[AttemptId(w, e) EXCEPT !.tag = 1]}
    /\ SetPass(w, e, NextCustomer(w, e))
    /\ UNCHANGED <<clock, perm, runs, accounts, snaps, overdue, exported, writer, busy,
                   loop, queue, scan, crashes>>

\* The alert that a scheduled scan failed after its retries.
GiveUp(w, e) ==
    /\ loop[w] = e
    /\ pass[w][e].pc = "giveup"
    /\ CanWrite(w)
    /\ failures' = failures \cup {AttemptId(w, e)}
    /\ SetPass(w, e, NextCustomer(w, e))
    /\ UNCHANGED <<clock, perm, runs, accounts, snaps, overdue, exported, writer, busy,
                   loop, queue, scan, crashes>>

\* After the scans, the active export jobs.
TurnToExports(w, e) ==
    /\ loop[w] = e
    /\ pass[w][e].pc = "pick"
    /\ pass[w][e].todo = {}
    /\ SetPass(w, e, [pass[w][e] EXCEPT !.pc = "exports",
                                        !.todo = pass[w][e].scope \cap Exporter])
    /\ UNCHANGED <<clock, db, busy, loop, queue, scan, crashes>>

ExportDue(c, now) == now - exported[c] >= Cadence

SkipExport(w, e, c) ==
    /\ loop[w] = e
    /\ pass[w][e].pc = "exports"
    /\ c \in pass[w][e].todo
    /\ ~ExportDue(c, pass[w][e].now)
    /\ SetPass(w, e, [pass[w][e] EXCEPT !.todo = @ \ {c}])
    /\ UNCHANGED <<clock, db, busy, loop, queue, scan, crashes>>

\* The flushed run row holds the write lock while the report rows are built.
BeginExport(w, e, c) ==
    /\ loop[w] = e
    /\ pass[w][e].pc = "exports"
    /\ c \in pass[w][e].todo
    /\ ExportDue(c, pass[w][e].now)
    /\ CanWrite(w)
    /\ writer' = w
    /\ SetPass(w, e, [pass[w][e] EXCEPT !.pc = "exporting", !.cust = c])
    /\ UNCHANGED <<clock, perm, runs, accounts, snaps, overdue, failures, exported, busy,
                   loop, queue, scan, crashes>>

\* A failed report leaves last_run_at alone.
FinishExport(w, e) ==
    /\ loop[w] = e
    /\ pass[w][e].pc = "exporting"
    /\ writer' = Released(w)
    /\ exported' \in {exported, [exported EXCEPT ![pass[w][e].cust] = clock]}
    /\ SetPass(w, e, [pass[w][e] EXCEPT !.pc = "exports", !.todo = @ \ {pass[w][e].cust}])
    /\ UNCHANGED <<clock, perm, runs, accounts, snaps, overdue, failures, busy, loop,
                   queue, scan, crashes>>

\* The finally clause.
LeavePass(w, e) ==
    /\ busy' = [busy EXCEPT ![w] = FALSE]
    /\ loop' = [loop EXCEPT ![w] = "free"]
    /\ SetPass(w, e, IdlePass)
    /\ UNCHANGED <<clock, db, queue, scan, crashes>>

EndPass(w, e) ==
    /\ loop[w] = e
    /\ pass[w][e].pc = "exports"
    /\ pass[w][e].todo = {}
    /\ LeavePass(w, e)

\* A commit of the pass fails, on the lock or because another process took the
\* scan id: the exception leaves the pass, whatever it had still to do.
AbortPass(w, e) ==
    /\ loop[w] = e
    /\ \/ /\ pass[w][e].pc \in {"overdue", "create", "triggered", "retry", "giveup"}
          /\ Locked(w)
       \/ /\ pass[w][e].pc = "create"
          /\ ~Insertable(AttemptId(w, e))
       \/ /\ pass[w][e].pc = "exports"
          /\ \E c \in pass[w][e].todo : ExportDue(c, pass[w][e].now)
          /\ Locked(w)
    /\ LeavePass(w, e)

PassStep(w, e) ==
    \/ \E c \in Customer :
         Pick(w, e, c) \/ SkipExport(w, e, c) \/ BeginExport(w, e, c)
    \/ RaiseOverdue(w, e)
    \/ CreateRun(w, e)
    \/ AuditTriggered(w, e)
    \/ AuditRetry(w, e)
    \/ GiveUp(w, e)
    \/ TurnToExports(w, e)
    \/ FinishExport(w, e)
    \/ EndPass(w, e)
    \/ AbortPass(w, e)

-----------------------------------------------------------------------------
(* Time, and the death of a process, which its restart follows.            *)

Tick ==
    /\ clock < MaxClock
    /\ clock' = clock + 1
    /\ UNCHANGED <<db, process, crashes>>

Crash(w) ==
    /\ crashes < MaxCrashes
    /\ crashes' = crashes + 1
    /\ writer' = Released(w)
    /\ busy' = [busy EXCEPT ![w] = FALSE]
    /\ loop' = [loop EXCEPT ![w] = "free"]
    /\ pass' = [pass EXCEPT ![w] = [e \in Entry |-> IdlePass]]
    /\ queue' = [queue EXCEPT ![w] = {}]
    /\ SetScan(w, NoScan)
    /\ UNCHANGED <<clock, perm, runs, accounts, snaps, overdue, failures, exported>>

BeginLoopPass(w) == BeginPass(w, "loop", Customer)

RunNow(w) == \E c \in Customer : BeginPass(w, "now", {c})

WorkerStep(w) ==
    \/ \E c \in Customer : StartScan(w, c) \/ AddCredentials(w, c)
    \/ InsertRun(w)
    \/ RejectInsert(w)
    \/ \E id \in queue[w] : BeginQueued(w, id)
    \/ ScanStep(w)
    \/ BeginLoopPass(w)
    \/ RunNow(w)
    \/ \E e \in Entry : PassStep(w, e) \/ Wake(w, e)

Next ==
    \/ PermissionHandler
    \/ \E w \in Worker : WorkerStep(w) \/ Crash(w)
    \/ Tick

Spec == Init /\ [][Next]_vars

-----------------------------------------------------------------------------
PassRecord ==
    [pc : PassPc, now : Time, todo : SUBSET Customer, scope : SUBSET Customer,
     cust : Customer \cup {None}, attempt : 1..MaxAttempts]

ScanRecord ==
    [pc : ScanPc, id : ScanId \cup {None}, todo : SUBSET Provider,
     ok : SUBSET Provider, err : SUBSET Provider, fresh : SUBSET Provider,
     via : {"bg"} \cup Entry]

TypeOK ==
    /\ clock \in Time
    /\ perm \in [Customer -> PermissionState]
    /\ runs \in [ScanId -> [state : RunState, at : Time]]
    /\ accounts \subseteq Customer \X Provider
    /\ snaps \subseteq ScanId \X Provider
    /\ overdue \subseteq Customer \X Time
    /\ failures \subseteq ScanId
    /\ exported \in [Customer -> Time]
    /\ writer \in Worker \cup {None}
    /\ busy \in [Worker -> BOOLEAN]
    /\ loop \in [Worker -> {"free", "request", "scan"} \cup Entry]
    /\ pass \in [Worker -> [Entry -> PassRecord]]
    /\ queue \in [Worker -> SUBSET ScanId]
    /\ scan \in [Worker -> ScanRecord]
    /\ crashes \in 0..MaxCrashes

-----------------------------------------------------------------------------
(* Fairness: asyncio runs its ready callbacks in turn, so a task that is   *)
(* ready whenever the loop is free is run in the end, whatever requests    *)
(* arrive; a statement waits for the write lock at most five seconds.      *)

Progress(w) ==
    /\ WF_vars(ScanStep(w))
    /\ WF_vars(InsertRun(w) \/ RejectInsert(w))
    /\ SF_vars(\E id \in queue[w] : BeginQueued(w, id))
    /\ \A e \in Entry : WF_vars(PassStep(w, e)) /\ SF_vars(Wake(w, e))

FairSpec == Spec /\ \A w \in Worker : Progress(w)

-----------------------------------------------------------------------------
(* Safety.                                                                 *)

Active(w) == scan[w].pc \notin {"off", "insert"}

Scanning(w, id) == Active(w) /\ scan[w].id = id

Executing(w, id) == id \in queue[w] \/ Scanning(w, id)

\* A scan id is queued or executed at most once, in one process, and only
\* while its run is RUNNING: two processes never write results under one id,
\* although manual and scheduled scans build their ids from the same second.
OneExecutor ==
    \A w \in Worker, id \in ScanId : Executing(w, id) =>
        /\ runs[id].state = "running"
        /\ ~(id \in queue[w] /\ Scanning(w, id))
        /\ \A v \in Worker : Executing(v, id) => v = w

\* A completed or failed run, with its completion time, never changes again,
\* and a run that is there is never removed: the history can be relied on.
ResultsAreFinal ==
    [][\A id \in ScanId :
         /\ runs[id].state \in Terminal => runs'[id] = runs[id]
         /\ runs[id].state = "running" => runs'[id].state # "absent"]_vars

\* Under the live-data policy a completed run has a committed snapshot of at
\* least one provider: _run_cost_analysis commits them before it completes.
CompletedHasEvidence ==
    \A id \in ScanId : runs[id].state = "completed" /\ RequireLive =>
        \E p \in Provider : <<id, p>> \in snaps

\* The write lock is only ever held by a scan with uncommitted accounts or by
\* an export in progress; no failure path leaves it behind.
LockHasHolder ==
    \A w \in Worker : writer = w =>
        \/ Active(w) /\ scan[w].fresh # {}
        \/ \E e \in Entry : pass[w][e].pc = "exporting"

\* A process has one scheduler pass at a time, the busy flag is up exactly
\* while it has one, and the event loop is free during its backoff only.
OnePassPerProcess ==
    \A w \in Worker :
        /\ busy[w] <=> \E e \in Entry : pass[w][e].pc # "idle"
        /\ \A e, f \in Entry :
             pass[w][e].pc # "idle" /\ pass[w][f].pc # "idle" => e = f
        /\ \A e \in Entry : pass[w][e].pc \notin {"idle", "asleep"} => loop[w] = e

\* An attempt after the first is only made when the one before it was made
\* and did not complete.
RetryFollowsFailure ==
    [][\A id \in ScanId : \A n \in 1..(MaxAttempts - 1) :
         id.tag = n + 1 /\ runs[id].state = "absent" /\ runs'[id].state # "absent"
         => runs[[id EXCEPT !.tag = n]].state \in {"running", "failed"}]_vars

\* Whatever runs the scans, the history they leave is the one ScanLedger
\* promises.
Ledger == INSTANCE ScanLedger WITH
    state <- [id \in ScanId |-> runs[id].state]

ImplementsLedger == Ledger!Spec

\* A run that is RUNNING is queued or executed by some process.
NoOrphanRun ==
    \A id \in ScanId : runs[id].state = "running" =>
        \E w \in Worker : Executing(w, id)

PassCreates(w, e) == pass[w][e].pc = "create" /\ pass'[w][e].pc = "scanning"

\* The scheduler starts a scan only when the last success of the customer, as
\* it stands at that moment, is a cadence old.
CadenceKept ==
    [][\A w \in Worker, e \in Entry :
         PassCreates(w, e) /\ pass[w][e].attempt = 1
         => \A id \in CompletedRuns(pass[w][e].cust) :
                pass[w][e].now - runs[id].at >= Cadence]_vars

\* The scheduler starts a scan only for a customer that is approved then.
PauseHonoured ==
    [][\A w \in Worker, e \in Entry :
         PassCreates(w, e) => perm[pass[w][e].cust] \in Scannable]_vars

\* Overdue alerts of a customer are further apart than overdue_alert_hours.
OverdueOnce ==
    \A a, b \in overdue :
        a[1] = b[1] /\ a # b => a[2] - b[2] > Grace \/ b[2] - a[2] > Grace

-----------------------------------------------------------------------------
(* Liveness.                                                               *)

\* _scheduler_running is always reset: no exception leaves it up for good,
\* which would silence the scheduler of the process.
BusyIsReleased == \A w \in Worker : busy[w] ~> ~busy[w]

\* Every run that is started is completed or failed in the end.
StartedRunsEnd ==
    \A id \in ScanId : runs[id].state = "running" ~> runs[id].state \in Terminal

\* When the last attempt of a scheduled scan has failed, the alert that names
\* that attempt is raised.
FailureIsAlerted ==
    \A id \in ScanId : id.tag = MaxAttempts /\ runs[id].state = "failed"
        ~> id \in failures

\* What was started ends: every run by a result, every pass by giving its flag back.
WorkEnds ==
    /\ StartedRunsEnd
    /\ BusyIsReleased
=============================================================================
