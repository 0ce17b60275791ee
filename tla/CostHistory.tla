---------------------------- MODULE CostHistory ----------------------------
(***************************************************************************)
(* Period summaries over imported cost records while retention archives    *)
(* both, and the cost trend that reads hot and archived summaries.         *)
(*                                                                         *)
(* One bucket (organization, period, provider, team, environment) is       *)
(* modelled; the records are those of the bucket.  A record is the serial  *)
(* of its row, and a summary sums up the records it was computed from.     *)
(***************************************************************************)
EXTENDS Retention

VARIABLES
    content,  \* the records that a summary row sums up, by its serial
    compute,  \* the compute request in flight of each process
    trend,    \* the trend request in flight of each process
    upload,   \* observed: the records of the latest CSV upload
    clean     \* observed: no records were deleted beside a computation, which
              \* met no run that held a batch of summaries, and no run stopped
              \* between the upload and the delete of summaries

historyVars == <<clock, rows, count, archive, run, purged, content, compute, trend, upload, clean>>

Serial == 1..MaxRows

\* The order of _ARCHIVABLE_TABLES.
Records == 1

Summaries == 3 - Records

HistoryTables == {Records, Summaries} \subseteq Table

NoCompute == [pc |-> "idle", records |-> {}]
NoTrend == [pc |-> "idle", hot |-> {}, asked |-> {}]

HistoryInit ==
    /\ Init
    /\ content = [s \in Serial |-> {}]
    /\ compute = [w \in Worker |-> NoCompute]
    /\ trend = [w \in Worker |-> NoTrend]
    /\ upload = {}
    /\ clean = TRUE

Serials(S) == {r.serial : r \in S}

\* The records that summaries S sum up.
Covered(S) == UNION {content[s] : s \in Serials(S)}

-----------------------------------------------------------------------------
NoComputation == \A w \in Worker : compute[w].pc = "idle"

(* upload_cost_csv replaces the records.                                   *)
Import ==
    /\ \E n \in 1..MaxRows : Write(Records, rows[Records], n)
    /\ upload' = (count + 1)..count'
    /\ clean' = (clean /\ NoComputation)
    /\ UNCHANGED <<content, compute, trend>>

(* compute_period_summaries.                                               *)

\* Faulty variant of Summed: what is due for archiving is left out.
SummedYoung == Serials({r \in rows[Records] : r.at >= clock - HotPeriod})

Summed == Serials(rows[Records])

ComputeRead(w) ==
    /\ compute[w].pc = "idle"
    /\ rows[Records] # {}
    /\ compute' = [compute EXCEPT ![w] = [pc |-> "write", records |-> Summed]]
    /\ UNCHANGED <<clock, rows, count, archive, run, purged, content, trend, upload, clean>>

\* The rows of the bucket that the upsert deletes.
Overwritten == rows[Summaries]

ComputeWrite(w) ==
    /\ compute[w].pc = "write"
    /\ Write(Summaries, Overwritten, 1)
    /\ content' = [content EXCEPT ![count'] = compute[w].records]
    /\ compute' = [compute EXCEPT ![w] = NoCompute]
    /\ clean' = (clean /\ \A v \in Worker : run[v].table = Summaries => run[v].batch = {})
    /\ UNCHANGED <<trend, upload>>

\* A statement fails on the write lock, or the process dies.
ComputeFails(w) ==
    /\ compute[w].pc = "write"
    /\ compute' = [compute EXCEPT ![w] = NoCompute]
    /\ UNCHANGED <<clock, rows, count, archive, run, purged, content, trend, upload, clean>>

-----------------------------------------------------------------------------
(* get_cost_trend: the summaries of the database first, then, after an     *)
(* await, the objects of the archive.                                      *)

\* Faulty variant of HotRows: what is due for archiving is taken for archived.
HotRowsYoung == {r \in rows[Summaries] : r.at >= clock - HotPeriod}

HotRows == rows[Summaries]

TrendRead(w) ==
    /\ trend[w].pc = "idle"
    /\ trend' = [trend EXCEPT ![w] =
                   [pc |-> "archive", hot |-> HotRows,
                    asked |-> Covered(rows[Summaries] \cup InArchive)]]
    /\ UNCHANGED <<clock, rows, count, archive, run, purged, content, compute, upload, clean>>

\* The records in the totals that the request answers with.
Shown(w) == Covered(trend[w].hot \cup InArchive)

\* The archive can be read. (If not, the answer is the database's alone.)
TrendAnswer(w) ==
    /\ trend[w].pc = "archive"
    /\ trend' = [trend EXCEPT ![w] = NoTrend]
    /\ UNCHANGED <<clock, rows, count, archive, run, purged, content, compute, upload, clean>>

-----------------------------------------------------------------------------
(* Retention beside them.                                                  *)

Archiving(w) ==
    /\ Begin(w) \/ Query(w) \/ TurnToTable(w) \/ Upload(w)
    /\ UNCHANGED <<content, compute, trend, upload, clean>>

Purging(w) ==
    /\ Purge(w)
    /\ clean' = (clean /\ (run[w].table = Records => NoComputation))
    /\ UNCHANGED <<content, compute, trend, upload>>

\* The summaries of a batch are in the archive and still in the database.
Between(w) == run[w].pc = "purge" /\ run[w].table = Summaries

Stopping(w) ==
    /\ Stop(w)
    /\ clean' = (clean /\ ~Between(w))
    /\ UNCHANGED <<content, compute, trend, upload>>

Ticking == Tick /\ UNCHANGED <<content, compute, trend, upload, clean>>

HistoryNext ==
    \/ Import
    \/ \E w \in Worker :
         \/ ComputeRead(w) \/ ComputeWrite(w) \/ ComputeFails(w)
         \/ TrendRead(w) \/ TrendAnswer(w)
         \/ Archiving(w) \/ Purging(w) \/ Stopping(w)
    \/ Ticking

HistorySpec == HistoryInit /\ [][HistoryNext]_historyVars

-----------------------------------------------------------------------------
HistoryTypeOK ==
    /\ TypeOK
    /\ content \in [Serial -> SUBSET Serial]
    /\ compute \in [Worker -> [pc : {"idle", "write"}, records : SUBSET Serial]]
    /\ trend \in [Worker -> [pc : {"idle", "archive"}, hot : SUBSET Row, asked : SUBSET Serial]]
    /\ upload \in SUBSET Serial
    /\ clean \in BOOLEAN

\* The summaries that the trend adds up for a record, an archived one once for
\* each object that has it.
Counting(r) ==
    {s \in rows[Summaries] : r \in content[s.serial]}

ArchivedCounting(r) ==
    {p \in archive \X InArchive : p[2] \in p[1].rows /\ r \in content[p[2].serial]}

\* The trend counts no record twice, neither in two hot summaries nor in a hot
\* and an archived one, unless a run is between the upload and the delete of
\* summaries or has stopped there, or a computation met a run.
CountedOnce ==
    clean /\ (\A w \in Worker : ~Between(w)) =>
        \A r \in Serial : Cardinality(Counting(r)) + Cardinality(ArchivedCounting(r)) <= 1

\* Whatever retention moves while a trend request waits for the archive, the
\* answer has every record that was summed up when it was asked for.
TrendComplete ==
    [][\A w \in Worker : TrendAnswer(w) => trend[w].asked \subseteq Shown(w)]_historyVars

\* Computing the summaries again takes a record of the latest upload out of the
\* trend only if retention has deleted that record.
RecomputeKeeps ==
    [][\A w \in Worker : ComputeWrite(w) =>
         upload \cap Covered(rows[Summaries] \cup InArchive) \cap Serials(rows[Records])
           \subseteq Covered(rows[Summaries] \cup InArchive)']_historyVars

\* Rows and requests keep their shapes, and an answer of the trend has every record
\* that was summed up when it was asked for, and none twice, but for the moments that
\* CountedOnce names.
TrendTrue ==
    /\ [](HistoryTypeOK /\ CountedOnce)
    /\ TrendComplete
=============================================================================
