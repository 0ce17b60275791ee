----------------------------- MODULE OciReports -----------------------------
(***************************************************************************)
(* Ingestion of OCI cost reports: every run lists the newest report files, *)
(* reads them all, adds them up by month and team, and replaces the        *)
(* monthly summaries of the months it has met.  A timer and an operator    *)
(* may run it at the same time.                                            *)
(***************************************************************************)
EXTENDS Integers, Sequences, FiniteSets, FiniteSetsExt

CONSTANTS
    Ingester,   \* processes
    Report,     \* report files that are tried: sets of rows [month, team, cost]
    MaxFiles,   \* bound: files ever published
    MaxObjects, \* oci_cost_reports_max_objects
    Lookback,   \* oci_cost_reports_lookback_months
    MaxMonth,   \* bound: months
    MaxIngests  \* bound: runs

ASSUME ReportBounds ==
    /\ \A r \in Report :
         IsFiniteSet(r) /\ \A row \in r : row.month \in 1..MaxMonth /\ row.cost \in Nat
    /\ {MaxFiles, MaxObjects, Lookback, MaxMonth, MaxIngests} \subseteq Nat

VARIABLES
    files,      \* the report files in the bucket, in the order of their creation
    month,      \* the current month
    ledger,     \* oci_cost_report_ingestions: the status of each file, if any
    monthly,    \* cost_period_summaries of OCI, by month: rows [team, total, mapped, unmapped]
    basis,      \* observed: the files each month's summaries were made from
    ingester,   \* the run in flight of each process
    ingests,    \* bound: runs so far
    overlapped  \* observed: runs have overlapped

reportVars == <<files, month, ledger, monthly, basis, ingester, ingests, overlapped>>

Month == 1..MaxMonth
NoTeam == "none"
NotRunning == [pc |-> "idle"]

ReportsInit ==
    /\ files = <<>>
    /\ month = 1
    /\ ledger = [f \in 1..MaxFiles |-> "none"]
    /\ monthly = [m \in Month |-> {}]
    /\ basis = [m \in Month |-> {}]
    /\ ingester = [w \in Ingester |-> NotRunning]
    /\ ingests = 0
    /\ overlapped = FALSE

\* A new file has no row of a month to come.
Publish(r) ==
    /\ Len(files) < MaxFiles
    /\ \A row \in r : row.month <= month
    /\ files' = Append(files, r)
    /\ UNCHANGED <<month, ledger, monthly, basis, ingester, ingests, overlapped>>

NextMonth ==
    /\ month < MaxMonth
    /\ month' = month + 1
    /\ UNCHANGED <<files, ledger, monthly, basis, ingester, ingests, overlapped>>

-----------------------------------------------------------------------------

\* _list_cost_report_objects: the newest files.
Listed == {f \in DOMAIN files : f > Len(files) - MaxObjects}

\* _month_bounds of the rows of a file.
MonthsOf(f) == {row.month : row \in files[f]}

TeamsOf(parsed, m) == {row.team : row \in {row \in UNION {files[f] : f \in parsed} : row.month = m}}

\* What the files parsed carry, of one month and, for bucket teams, of one team.
CostIn(parsed, m, teams) ==
    MapThenSumSet(LAMBDA f :
        MapThenSumSet(LAMBDA row : row.cost, {row \in files[f] : row.month = m /\ row.team \in teams}),
        parsed)

\* _parse_report_object and the merge of its buckets: one for each month and
\* team; a row without a team is not mapped.
Merged(parsed, m) ==
    {[team |-> t, total |-> CostIn(parsed, m, {t}),
      mapped |-> CostIn(parsed, m, {t} \ {NoTeam}),
      unmapped |-> CostIn(parsed, m, {t} \cap {NoTeam})] : t \in TeamsOf(parsed, m)}

\* The first month that is written, _lookback_start.
Cutoff == month - Lookback + 1

\* The files are read; those in failing cannot be fetched or parsed.
ReadReports(w, failing) ==
    /\ ingester[w] = NotRunning
    /\ ingests < MaxIngests
    /\ failing \subseteq Listed
    /\ ingests' = ingests + 1
    /\ ingester' = [ingester EXCEPT ![w] =
                      [pc |-> "read", listed |-> Listed, parsed |-> Listed \ failing,
                       known |-> {f \in Listed : ledger[f] # "none"}]]
    /\ overlapped' = (overlapped \/ \E v \in Ingester : ingester[v] # NotRunning)
    /\ UNCHANGED <<files, month, ledger, monthly, basis>>

\* Faulty variant of Rewritten: only months that are complete so far are kept.
RewrittenOver(w) ==
    [m \in Month |->
        IF m \in UNION {MonthsOf(f) : f \in ingester[w].parsed} /\ m >= Cutoff
        THEN monthly[m] \cup Merged(ingester[w].parsed, m) ELSE monthly[m]]

\* _rewrite_monthly_summaries: the summaries of the months that were met are
\* deleted, whatever they were made from.
Rewritten(w) ==
    [m \in Month |->
        IF m \in UNION {MonthsOf(f) : f \in ingester[w].parsed} /\ m >= Cutoff
        THEN Merged(ingester[w].parsed, m) ELSE monthly[m]]

\* Two runs that insert the row of the same file: the second one fails as a whole.
Collides(w) == \E f \in ingester[w].listed \ ingester[w].known : ledger[f] # "none"

\* _record_ingestion
LedgerAfter(w) ==
    [f \in 1..MaxFiles |->
        IF f \in ingester[w].parsed THEN "processed"
        ELSE IF f \in ingester[w].listed THEN "failed" ELSE ledger[f]]

CommitReports(w) ==
    /\ ingester[w].pc = "read"
    /\ ~Collides(w)
    /\ ledger' = LedgerAfter(w)
    /\ monthly' = Rewritten(w)
    /\ basis' = [m \in Month |->
                   IF m \in UNION {MonthsOf(f) : f \in ingester[w].parsed} /\ m >= Cutoff
                   THEN {f \in ingester[w].parsed : m \in MonthsOf(f)} ELSE basis[m]]
    /\ ingester' = [ingester EXCEPT ![w] = NotRunning]
    /\ UNCHANGED <<files, month, ingests, overlapped>>

\* dry_run, a collision, the write lock, or the end of the process.
RollBack(w) ==
    /\ ingester[w].pc = "read"
    /\ ingester' = [ingester EXCEPT ![w] = NotRunning]
    /\ UNCHANGED <<files, month, ledger, monthly, basis, ingests, overlapped>>

ReportsNext ==
    \/ \E r \in Report : Publish(r)
    \/ NextMonth
    \/ \E w \in Ingester :
          \/ \E failing \in SUBSET Listed : ReadReports(w, failing)
          \/ CommitReports(w)
          \/ RollBack(w)

ReportsSpec == ReportsInit /\ [][ReportsNext]_reportVars

-----------------------------------------------------------------------------
MonthTotal(m) == MapThenSumSet(LAMBDA s : s.total, monthly[m])

\* The summaries of a month add up the rows of the files they were made from,
\* each once, however often the files have been ingested; what is mapped and
\* what is not add up to the total.
MonthAddsUp ==
    \A m \in Month :
        /\ MonthTotal(m) = CostIn(basis[m], m, TeamsOf(basis[m], m))
        /\ \A s \in monthly[m] : s.mapped + s.unmapped = s.total
        /\ \A s, t \in monthly[m] : s.team = t.team => s = t

\* As long as runs do not overlap and the bucket holds no more files than a run
\* lists, a file that the ledger calls processed is in the summaries of all its
\* months that were within the lookback all along.
LedgerTrue ==
    ~overlapped /\ Len(files) <= MaxObjects =>
        \A f \in DOMAIN files, m \in Month :
            ledger[f] = "processed" /\ m \in MonthsOf(f) /\ m >= Cutoff => f \in basis[m]

\* A month loses a file only if it could not be read this time, if the listing
\* no longer reaches it, or if runs have overlapped.
MonthsGrow ==
    [][\A m \in Month : \A f \in basis[m] \ basis'[m] :
         overlapped \/ ledger'[f] = "failed" \/ Len(files) - f >= MaxObjects]_reportVars

\* Monthly summaries are the sum of their files, the ledger tells which files those
\* are, and no run loses one, but for overlaps, failures and the limits of a listing.
MonthsTrue ==
    /\ [](MonthAddsUp /\ LedgerTrue)
    /\ MonthsGrow
=============================================================================
