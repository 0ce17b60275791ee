---------------------------- MODULE CostContext ----------------------------
(***************************************************************************)
(* Where an answer about costs comes from: the providers asked now, the    *)
(* snapshots of earlier scans, or imported records; which of them failed;  *)
(* and the monthly history and the trend that snapshots fill in.           *)
(***************************************************************************)
EXTENDS Integers, Sequences, FiniteSets, FiniteSetsExt

CONSTANTS
    Provider,   \* aws, azure, gcp, oci
    Amount,     \* costs
    MaxSnapshots \* bound: scans

ASSUME ContextBounds ==
    IsFiniteSet(Provider) /\ Amount \subseteq Nat /\ 0 \in Amount /\ MaxSnapshots \in Nat

VARIABLES
    snapshots,  \* cost_snapshots, scan by scan: [month, cost], no cost where it failed
    imported,   \* imported_cost_records: the cost by provider, each with its region
    query,      \* the latest request, if nothing has changed since
    answer      \* and its answer

contextVars == <<snapshots, imported, query, answer>>

NoCost == -1
Cost == Amount \cup {NoCost}

NoAnswer == [source |-> "none", cost |-> [p \in Provider |-> NoCost], regions |-> 0, errors |-> {}]
NoQuery == [asked |-> {}, failed |-> {}, require |-> FALSE, live |-> 0]

ContextInit ==
    /\ snapshots = <<>>
    /\ imported = [p \in Provider |-> NoCost]
    /\ query = NoQuery
    /\ answer = NoAnswer

Given(cost) == {p \in Provider : cost[p] # NoCost}

Total(cost) == MapThenSumSet(LAMBDA p : cost[p], Given(cost))

Only(cost, asked) == [p \in Provider |-> IF p \in asked THEN cost[p] ELSE NoCost]

-----------------------------------------------------------------------------
\* A scan, of some months; months do not go back.
ScanCosts(month, cost) ==
    /\ Len(snapshots) < MaxSnapshots
    /\ Given(cost) # {}
    /\ \A i \in DOMAIN snapshots : snapshots[i].month <= month
    /\ snapshots' = Append(snapshots, [month |-> month, cost |-> cost])
    /\ query' = NoQuery /\ answer' = NoAnswer
    /\ UNCHANGED imported

UploadCosts(cost) ==
    /\ imported' = cost
    /\ query' = NoQuery /\ answer' = NoAnswer
    /\ UNCHANGED snapshots

-----------------------------------------------------------------------------
(* _cost_snapshot_context: for each provider the latest scan that has it.  *)

LatestScan(p) ==
    LET with == {i \in DOMAIN snapshots : p \in Given(snapshots[i].cost)} IN
    IF with = {} THEN 0 ELSE CHOOSE i \in with : \A j \in with : j <= i

Scanned(asked) == {p \in asked : LatestScan(p) > 0}

RegionScans(asked) == {LatestScan(p) : p \in Scanned(asked)}

\* The regions are those of all the scans that some provider was found in, for
\* every provider that was asked for.
SnapshotAnswer(asked, errors) ==
    [source |-> "snapshots",
     cost |-> [p \in Provider |-> IF p \in Scanned(asked) THEN snapshots[LatestScan(p)].cost[p] ELSE NoCost],
     regions |-> MapThenSumSet(LAMBDA i : Total(Only(snapshots[i].cost, asked)), RegionScans(asked)),
     errors |-> errors]

ImportedIn(asked) == Given(Only(imported, asked)) # {}

ImportedAnswer(asked, errors) ==
    [source |-> "imported", cost |-> Only(imported, asked),
     regions |-> Total(Only(imported, asked)), errors |-> errors]

-----------------------------------------------------------------------------
(* build_live_cost_context and _cost_context.                              *)

\* The providers that are asked, of those that are configured; result is what
\* each of them returns.
Succeeded(called, result) == {p \in called : result[p] # NoCost}

LiveAnswer(called, result) ==
    LET failed == called \ Succeeded(called, result) IN
    [source |-> IF failed = {} THEN "live" ELSE "partial",
     cost |-> Only(result, called), regions |-> Total(Only(result, called)), errors |-> failed]

\* LiveDataPolicyError
MustBeLive(require, called, result) == require /\ Succeeded(called, result) = {}

\* No live data at all: snapshots, or else the import.
Fallback(asked, errors) ==
    IF Scanned(asked) # {} THEN SnapshotAnswer(asked, errors)
    ELSE IF ImportedIn(asked) THEN ImportedAnswer(asked, errors)
    ELSE [NoAnswer EXCEPT !.errors = errors]

AnswerTo(asked, called, result, require) ==
    LET failed == called \ Succeeded(called, result)
        live == LiveAnswer(called, result)
    IN
    IF MustBeLive(require, called, result)
    THEN IF Scanned(asked) # {} THEN SnapshotAnswer(asked, {"policy"})
         ELSE [NoAnswer EXCEPT !.source = "refused"]
    ELSE IF Succeeded(called, result) = {} THEN Fallback(asked, failed)
    ELSE IF Total(live.cost) = 0 /\ ImportedIn(asked) THEN ImportedAnswer(asked, failed)
    ELSE live

\* One provider is asked for, or all; of these, the configured ones are called.
Ask(asked, configured, result, require) ==
    LET called == asked \cap configured IN
    /\ query' = [asked |-> asked, failed |-> called \ Succeeded(called, result), require |-> require,
                 live |-> Total(Only(result, called))]
    /\ answer' = AnswerTo(asked, called, result, require)
    /\ UNCHANGED <<snapshots, imported>>

ContextChanges ==
    \E cost \in [Provider -> Cost] :
        \/ \E month \in 1..2 : ScanCosts(month, cost)
        \/ UploadCosts(cost)

Requests ==
    \E asked \in {Provider} \cup {{p} : p \in Provider}, configured \in SUBSET Provider, require \in BOOLEAN :
        \E result \in [asked \cap configured -> Cost] : Ask(asked, configured, result, require)

ContextNext == ContextChanges \/ Requests

ContextSpec == ContextInit /\ [][ContextNext]_contextVars

-----------------------------------------------------------------------------
(* _historical_monthly_spend_from_snapshots, and the overlay of the trend. *)

Costed(p, month) == {i \in DOMAIN snapshots : snapshots[i].month = month /\ p \in Given(snapshots[i].cost)}

\* Faulty variant of InMonth: every snapshot of the month.
InMonthAll(p, month) == Costed(p, month)

\* The last one of the provider in the month.
InMonth(p, month) == {i \in Costed(p, month) : \A j \in Costed(p, month) : j <= i}

MonthlySpend(month) ==
    MapThenSumSet(LAMBDA p : MapThenSumSet(LAMBDA i : snapshots[i].cost[p], InMonth(p, month)), Provider)

\* From the newest snapshot on, until the bucket has a cost.
Overlaid(p, month) ==
    LET positive == {i \in Costed(p, month) : snapshots[i].cost[p] > 0} IN
    IF positive = {} THEN 0
    ELSE snapshots[CHOOSE i \in positive : \A j \in positive : j <= i].cost[p]

\* A trend bucket whose computed cost is zero or missing is filled.
Bucketed(p, month, computed) == IF computed > 0 THEN computed ELSE Overlaid(p, month)

-----------------------------------------------------------------------------
\* Whatever an answer is made from, it names every provider that was called and
\* failed, or that live data were required; only a complete one is called live.
FailuresShown ==
    /\ answer.source \notin {"none", "refused"} =>
          query.failed \subseteq answer.errors \/ "policy" \in answer.errors
    /\ answer.source = "live" => query.failed = {}

\* Where live data are required, imported records are served only in place of
\* live data that add up to nothing.
RequiredLive ==
    query.require /\ answer.source = "imported" => query.live = 0 /\ query.failed # query.asked

\* The regions of an answer add up to its total, unless it puts together the
\* snapshots of several scans. (Every cost here has a region.)
RegionsAddUp ==
    (\A p, q \in Scanned(query.asked) : LatestScan(p) = LatestScan(q)) =>
        answer.regions = Total(answer.cost)

\* A month's spend counts each provider once, whatever the number of scans.
MonthCountsOnce ==
    \A month \in 1..2 :
        \E pick \in [Provider -> 0..Len(snapshots)] :
            /\ \A p \in Provider :
                 IF pick[p] = 0 THEN Costed(p, month) = {} ELSE pick[p] \in Costed(p, month)
            /\ MonthlySpend(month) =
                  MapThenSumSet(LAMBDA p : snapshots[pick[p]].cost[p], {p \in Provider : pick[p] > 0})

\* Without computed costs, the trend and the monthly history that forecasts are
\* made from show the same cost of a provider; they differ only where the last
\* scan of the month found nothing to pay and an earlier one did.
TrendIsHistory ==
    \A p \in Provider, month \in 1..2 :
        \A i \in InMonth(p, month) :
            \/ Bucketed(p, month, 0) = snapshots[i].cost[p]
            \/ snapshots[i].cost[p] = 0 /\ \E j \in Costed(p, month) : snapshots[j].cost[p] > 0

\* An answer about costs says where it comes from and who failed, and its regions,
\* its months and the trend add up to what was measured, once.
SourcesTrue == FailuresShown /\ RequiredLive /\ RegionsAddUp /\ MonthCountsOnce /\ TrendIsHistory
=============================================================================
