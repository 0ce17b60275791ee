----------------------------- MODULE Retention -----------------------------
(***************************************************************************)
(* Archiving cold rows to object storage and deleting them from the        *)
(* database.                                                               *)
(*                                                                         *)
(* Every server process runs a retention loop of its own, in a thread      *)
(* beside the request handlers.  A run goes through the tables; for each   *)
(* it reads a batch of cold rows, puts it into an object, deletes the rows *)
(* of the same ids and commits, until no cold row is left.  Nothing spans  *)
(* a read, its upload and its delete: the application inserts and upserts  *)
(* rows meanwhile, another process archives the same table, and a run may  *)
(* stop after any step.                                                    *)
(***************************************************************************)
EXTENDS Integers, FiniteSets

CONSTANTS
    Worker,      \* the server processes
    Tables,      \* number of archivable tables, archived in this order
    Replaced,    \* the tables of which rows are deleted and inserted anew
    Refreshed,   \* the tables of which rows are updated in place
    ReuseIds,    \* SQLite: the id of a row is one above the largest in use
    HotPeriod,   \* hot_months
    BatchSize,   \* batch_size
    MaxClock,    \* bound: seconds of the run
    MaxRows      \* bound: rows that are ever inserted, and updates

ASSUME RetentionBounds ==
    /\ Tables \in Nat \ {0}
    /\ Replaced \subseteq 1..Tables
    /\ Refreshed \subseteq 1..Tables
    /\ ReuseIds \in BOOLEAN
    /\ HotPeriod \in Nat
    /\ BatchSize \in Nat \ {0}
    /\ MaxClock \in Nat
    /\ MaxRows \in Nat

Table == 1..Tables
Time == 0..MaxClock

\* A row as it was written by one transaction; serial is the order of writing.
Row == [id : 1..MaxRows, at : Time, serial : 1..MaxRows]

Name == [table : Table, stamp : Time, total : Nat]

VARIABLES
    clock,    \* _utcnow(), in seconds
    rows,     \* the rows of each table
    count,    \* rows written so far
    archive,  \* the objects of the bucket
    run,      \* the retention run of each process
    purged    \* observed: the rows that retention deleted, when, and whether
              \* they were written after the deleting run had read its batch

vars == <<clock, rows, count, archive, run, purged>>

\* `next` is the earliest time of the next run; `seen` observes count.
Asleep(next) == [pc |-> "asleep", table |-> 1, cutoff |-> 0, stamp |-> 0, total |-> 0,
                 batch |-> {}, seen |-> 0, next |-> next]

Init ==
    /\ clock = 0
    /\ rows = [t \in Table |-> {}]
    /\ count = 0
    /\ archive = {}
    /\ run = [w \in Worker |-> Asleep(0)]
    /\ purged = {}

-----------------------------------------------------------------------------
(* The application.                                                        *)

Ids(S) == {r.id : r \in S}

\* SQLite counts on from the largest id in use, other databases never go back.
FirstIds(S) ==
    IF ReuseIds
    THEN {i \in 1..(count + 1) : i - 1 \in Ids(S) \cup {0} /\ \A j \in Ids(S) : j < i}
    ELSE {count + 1}

NewRows(first, n) ==
    {[id |-> first + i, at |-> clock, serial |-> count + 1 + i] : i \in 0..(n - 1)}

\* A transaction that deletes rows and inserts n others.
Write(t, gone, n) ==
    /\ count + n <= MaxRows
    /\ count' = count + n
    /\ \E first \in FirstIds(rows[t] \ gone) :
         rows' = [rows EXCEPT ![t] = (@ \ gone) \cup NewRows(first, n)]
    /\ UNCHANGED <<clock, archive, run, purged>>

\* A scan stores snapshots.
Insert(t) == Write(t, {}, 1)

\* A CSV upload replaces the records of an organization, a computation its
\* summaries.
Replace(t) ==
    \E gone \in (SUBSET rows[t]) \ {{}}, n \in 1..MaxRows : Write(t, gone, n)

Anew(r) == [id |-> r.id, at |-> clock, serial |-> count + 1]

\* Mapping rules are applied to the dimension rows that exist.
Refresh(t) ==
    /\ count < MaxRows
    /\ count' = count + 1
    /\ \E S \in (SUBSET rows[t]) \ {{}} :
         rows' = [rows EXCEPT ![t] = (@ \ S) \cup {Anew(r) : r \in S}]
    /\ UNCHANGED <<clock, archive, run, purged>>

-----------------------------------------------------------------------------
(* run_retention, archive_and_purge_table.                                 *)

\* The loops of a process are at least an hour apart, and a process that is
\* restarted starts its loop in a later second.
Begin(w) ==
    /\ run[w].pc = "asleep"
    /\ run[w].next <= clock
    /\ run' = [run EXCEPT ![w] = [@ EXCEPT !.pc = "query", !.cutoff = clock - HotPeriod,
                                           !.stamp = clock]]
    /\ UNCHANGED <<clock, rows, count, archive, purged>>

\* Faulty variant of Cold: rows at the cutoff are taken too.
ColdEarly(w) == {r \in rows[run[w].table] : r.at <= run[w].cutoff}

Cold(w) == {r \in rows[run[w].table] : r.at < run[w].cutoff}

\* The query has a limit and no order.
Query(w) ==
    /\ run[w].pc = "query"
    /\ \E batch \in (SUBSET Cold(w)) \ {{}} :
         /\ \/ batch = Cold(w) /\ Cardinality(batch) <= BatchSize
            \/ Cardinality(batch) = BatchSize
         /\ run' = [run EXCEPT ![w].batch = batch, ![w].seen = count,
                                    ![w].pc = "upload"]
    /\ UNCHANGED <<clock, rows, count, archive, purged>>

\* No cold row is left: on to the next table, which gets a new run_ts.
TurnToTable(w) ==
    /\ run[w].pc = "query"
    /\ Cold(w) = {}
    /\ run' = [run EXCEPT ![w] =
                 IF run[w].table < Tables
                 THEN [@ EXCEPT !.table = run[w].table + 1, !.stamp = clock, !.total = 0]
                 ELSE Asleep(clock + 1)]
    /\ UNCHANGED <<clock, rows, count, archive, purged>>

\* Faulty variant of ObjectName: one name for all batches of a table.
RunName(w) == [table |-> run[w].table, stamp |-> run[w].stamp, total |-> 0]

ObjectName(w) == [table |-> run[w].table, stamp |-> run[w].stamp, total |-> run[w].total]

\* put_object replaces an object of the same name.
Upload(w) ==
    /\ run[w].pc = "upload"
    /\ archive' = {o \in archive : o.name # ObjectName(w)}
                   \cup {[name |-> ObjectName(w), rows |-> run[w].batch]}
    /\ run' = [run EXCEPT ![w] = [@ EXCEPT !.pc = "purge"]]
    /\ UNCHANGED <<clock, rows, count, purged>>

Matching(w) == {r \in rows[run[w].table] : r.id \in Ids(run[w].batch)}

\* total += len(rows)
Archived(w) == run[w].total + Cardinality(run[w].batch)

\* The rows are deleted by id, whatever they are now.
Purge(w) ==
    /\ run[w].pc = "purge"
    /\ rows' = [rows EXCEPT ![run[w].table] = @ \ Matching(w)]
    /\ purged' = purged \cup 
                 {[row |-> r, when |-> clock, raced |-> r.serial > run[w].seen] : r \in Matching(w)}
    /\ run' = [run EXCEPT ![w] = [@ EXCEPT !.pc = "query", !.total = Archived(w),
                                           !.batch = {}]]
    /\ UNCHANGED <<clock, count, archive>>

\* The upload or the delete raises, or the process dies.
Stop(w) ==
    /\ run[w].pc # "asleep"
    /\ run' = [run EXCEPT ![w] = Asleep(clock + 1)]
    /\ UNCHANGED <<clock, rows, count, archive, purged>>

Tick ==
    /\ clock < MaxClock
    /\ clock' = clock + 1
    /\ UNCHANGED <<rows, count, archive, run, purged>>

Next ==
    \/ \E w \in Worker :
         Begin(w) \/ Query(w) \/ TurnToTable(w) \/ Upload(w) \/ Purge(w) \/ Stop(w)
    \/ \E t \in Table : Insert(t)
    \/ \E t \in Replaced : Replace(t)
    \/ \E t \in Refreshed : Refresh(t)
    \/ Tick

Spec == Init /\ [][Next]_vars

-----------------------------------------------------------------------------
Run == [pc : {"asleep", "query", "upload", "purge"}, table : Table,
        cutoff : (0 - HotPeriod)..MaxClock, stamp : Time, total : Nat,
        batch : SUBSET Row, seen : 0..MaxRows, next : 0..(MaxClock + 1)]

TypeOK ==
    /\ clock \in Time
    /\ rows \in [Table -> SUBSET Row]
    /\ count \in 0..MaxRows
    /\ archive \in SUBSET [name : Name, rows : SUBSET Row]
    /\ run \in [Worker -> Run]
    /\ purged \in SUBSET [row : Row, when : Time, raced : BOOLEAN]

InArchive == UNION {o.rows : o \in archive}

\* Whatever retention deleted is in the bucket.
NothingLost == \A p \in purged : p.row \in InArchive

\* The same of a row that the deleting run has read: it is in the bucket
\* wherever a run stopped, and no later object replaced it.
ReadRowsKept == \A p \in purged : ~p.raced => p.row \in InArchive

\* Retention deletes no row that is younger than hot_months, unless it was
\* written by a transaction that the run has not seen.
SeenHotKept == \A p \in purged : ~p.raced => p.row.at < p.when - HotPeriod
=============================================================================
