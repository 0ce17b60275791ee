---------------------------- MODULE Rightsizing ----------------------------
(***************************************************************************)
(* The rightsizing endpoint: live answers of the providers, then the       *)
(* provider recommendations not met yet, the trend of account costs over   *)
(* the scans, service costs of the snapshots and imported costs, merged,   *)
(* labelled and cut.  Scans and uploads of other processes come between    *)
(* its reads.                                                              *)
(*                                                                         *)
(* One account whose spend its regions share evenly; a saving is counted   *)
(* in percent of a cost.  A recommendation has the source it comes from, a *)
(* key (provider, type and name), its action and its saving.               *)
(***************************************************************************)
EXTENDS Integers, Sequences, FiniteSets, FiniteSetsExt, SequencesExt, Functions

CONSTANTS
    ScanForm,   \* account snapshots: cost, anomalies, saves, and the services' costs
    Area,       \* regions of the account
    Service,    \* services in cost snapshots
    ProviderAnswer,  \* what the providers answer a request
    Least,      \* min_savings
    MostRows,   \* limit
    TrendRows,  \* how many account snapshots the trend reads
    MaxScans    \* bound: scans

ASSUME RightsizingBounds ==
    /\ Least \in Nat /\ MostRows \in Nat \ {0}
    /\ TrendRows \in Nat \ {0} /\ MaxScans \in Nat

VARIABLES
    spends,    \* account and service-cost snapshots, oldest first
    csv,      \* the cost of the imported records
    advice    \* the request in flight, and its answer

rightsizingVars == <<spends, csv, advice>>

NoAdvice == [pc |-> "none"]

RightsizingInit ==
    /\ spends = <<>>
    /\ csv = 0
    /\ advice = NoAdvice

Idle == advice.pc \in {"none", "done"}

NewScan(form) ==
    /\ Len(spends) < MaxScans
    /\ spends' = Append(spends, form)
    /\ UNCHANGED <<csv, advice>>

Upload(cost) ==
    /\ csv # cost
    /\ csv' = cost
    /\ UNCHANGED <<spends, advice>>

\* Every source drops what saves too little.
Worth(recs) == {r \in recs : r.saving >= Least /\ r.action # "none"}

Rec(source, key, action, saving) ==
    [from |-> source, key |-> key, action |-> action, saving |-> saving]

Keys(recs) == {r.key : r \in recs}

\* The label of an answer that a source named own adds to.
Labelled(label, own) ==
    IF label = "no_data_available" THEN own
    ELSE IF label = own THEN own ELSE "multi_provider_api"

-----------------------------------------------------------------------------
(* Live answers: of the tier of each provider, then of the bridge to the   *)
(* provider recommendations.                                               *)

Tier(recs, source, own) ==
    [recs |-> recs.recs \cup own,
     label |-> IF own = {} THEN recs.label ELSE Labelled(recs.label, source)]

\* The same recommendation: of a resource, for the same action.
Alike(r, s) == r.key = s.key /\ r.action = s.action

\* Of rows that are alike one is taken, the first.
FirstFor(rows, key, action) == CHOOSE r \in rows : r.key = key /\ r.action = action

Leading(rows) == {r \in rows : r = FirstFor(rows, r.key, r.action)}

\* Even rows that are all known mix the label.
Bridged(recs, rows) ==
    [recs |-> recs.recs \cup {r \in Leading(rows) : \A s \in recs.recs : ~Alike(r, s)},
     label |-> IF rows = {} THEN recs.label
               ELSE Labelled(recs.label, "live_provider_recommendations")]

Nothing == [recs |-> {}, label |-> "no_data_available"]

\* Keys tell the resources of an answer apart, also those of different providers.
KeysApart(answer) ==
    /\ \A recs \in {answer.ce, answer.oci} : \A r, s \in recs : Alike(r, s) => r = s
    /\ \A fleet \in {answer.aws, answer.gcp} : \A m, n \in fleet : m.key = n.key => m = n
    /\ Keys(answer.gcp) \cap Keys(answer.ce \cup answer.aws) = {}
    /\ Keys(answer.oci) \cap Keys(answer.ce \cup answer.aws \cup answer.gcp) = {}

ASSUME AnswersApart ==
    /\ "account" \notin Area
    /\ \A answer \in ProviderAnswer :
         /\ KeysApart(answer)
         /\ \A r \in answer.ce : r.from = "ce"
         /\ \A r \in answer.oci : r.from = "oci"
         /\ \A r \in answer.bridge : r.from = "bridge"

\* A metric without a datapoint, or one that could not be read.
Unknown == -1

\* How little a machine must use to be made smaller: its CPU, its memory, and the
\* CPU below which the rate is the higher one.
LowUsage(provider) ==
    IF provider = "aws" THEN [cpu |-> 10, memory |-> 55, least |-> 7]
    ELSE [cpu |-> 12, memory |-> 60, least |-> 8]

\* The action for a machine and its rate; one unknown metric counts as low.
Suggested(provider, m) ==
    IF m.cpu = Unknown /\ m.memory = Unknown THEN <<"none", 0>>
    ELSE IF m.state = "stopped" THEN <<"terminate", 100>>
    ELSE IF m.cpu <= LowUsage(provider).cpu /\ m.memory <= LowUsage(provider).memory
         THEN <<"downsize", IF m.cpu <= LowUsage(provider).least THEN 45 ELSE 30>>
    ELSE <<"none", 0>>

MachineRecs(provider, fleet) ==
    Worth({Rec(provider, m.key, Suggested(provider, m)[1], Suggested(provider, m)[2] * m.cost) :
             m \in fleet})

\* Machines are asked for where AWS itself recommends nothing.
AwsTier(ce, fleet) ==
    IF Worth(ce) # {} THEN Tier(Nothing, "aws_cost_explorer", Worth(ce))
    ELSE Tier(Nothing, "aws_cloudwatch_inventory", MachineRecs("aws", fleet))

LiveRecs(answer, aws, gcp) ==
    Bridged(Tier(Tier(AwsTier(answer.ce, aws), "gcp_cloud_monitoring", MachineRecs("gcp", gcp)),
                 "oci_compute_inventory", Worth(answer.oci)),
            Worth(answer.bridge))

\* A list of machines that fails amid its pages keeps the pages it has read.
Inquire(answer, refresh, require) ==
    /\ Idle
    /\ \E aws \in SUBSET answer.aws, gcp \in SUBSET answer.gcp :
         LET live == IF refresh THEN LiveRecs(answer, aws, gcp) ELSE Nothing
         IN  advice' = [pc |-> "trend", require |-> require, newest |-> 0,
                        fleet |-> answer.aws \cup answer.gcp,
                        recs |-> live.recs, label |-> live.label, offered |-> {}]
    /\ UNCHANGED <<spends, csv>>

-----------------------------------------------------------------------------
(* The trend, over the oldest snapshots.  Conditions on the slope of the   *)
(* regression line are multiplied out.                                     *)

TrendSnapshots == SubSeq(spends, 1, Min({Len(spends), TrendRows}))

SumOf(figures) == FoldLeft(LAMBDA sum, x : sum + x, 0, figures)

Spend(rows) == SumOf([i \in DOMAIN rows |-> rows[i].cost])

\* The slope is 6 * Lean / (n * (n^2 - 1)).
Lean(rows) == SumOf([i \in DOMAIN rows |-> (2 * i - Len(rows) - 1) * rows[i].cost])

Spread(rows) == Len(rows) * Len(rows) - 1

Grows(rows) == 120 * Lean(rows) > Spend(rows) * Spread(rows)
Falls(rows) == 200 * Lean(rows) < -Spend(rows) * Spread(rows)
Flat(rows) == Len(rows) = 1 \/ 300 * Max({Lean(rows), -Lean(rows)}) < Spend(rows) * Spread(rows)

LatestCost(rows) == Last(rows).cost

Calm(rows) == \A i \in DOMAIN rows : rows[i].anomalies = 0
Saves(rows) == SumOf([i \in DOMAIN rows |-> rows[i].saves])

\* The action that the trend suggests and its rate in percent.
Verdict(rows) ==
    IF LatestCost(rows) < 5 THEN <<"terminate", 100>>
    ELSE IF Grows(rows) /\ Calm(rows) THEN <<"reserve", 37>>
    ELSE IF Falls(rows) /\ LatestCost(rows) > 100 THEN <<"modernize", 30>>
    ELSE IF Saves(rows) > 0
         THEN <<"downsize", Min({50, (100 * Saves(rows)) \div Spend(rows)})>>
    ELSE IF Spend(rows) > 200 * Len(rows) /\ Flat(rows) /\ Calm(rows)
         THEN <<"downsize", 45>>
    ELSE <<"none", 0>>

\* The regions follow the account, at their share of its latest cost.
AreaRecs(verdict) ==
    IF verdict[1] \notin {"downsize", "modernize", "reserve"} THEN {}
    ELSE {Rec("trend", r, verdict[1],
              verdict[2] * (Last(spends).cost \div Cardinality(Area))) : r \in Area}

TrendRecs(rows) ==
    LET verdict == Verdict(rows)
        own == Worth({Rec("trend", "account", verdict[1],
                          (Spend(rows) * verdict[2]) \div Len(rows))})
    IN  IF own = {} THEN {} ELSE own \cup Worth(AreaRecs(verdict))

\* An account below 20 on average is passed over.
Trend ==
    IF spends = <<>> THEN {}
    ELSE IF Spend(TrendSnapshots) < 20 * Len(TrendSnapshots) THEN {}
    ELSE TrendRecs(TrendSnapshots)

ReadTrend ==
    /\ advice.pc = "trend"
    /\ advice' =
         IF advice.recs # {} \/ Trend = {} THEN [advice EXCEPT !.pc = "services"]
         ELSE [advice EXCEPT !.pc = "services", !.recs = Trend, !.label = "cost_trend_analysis",
                             !.newest = Last(spends).cost]
    /\ UNCHANGED <<spends, csv>>

-----------------------------------------------------------------------------
(* Service costs, then imports, then the answer.                           *)

Listing(s) == SelectSeq(spends, LAMBDA scan : scan.services[s] > 0)

Average(s) == SumOf([i \in DOMAIN Listing(s) |-> Listing(s)[i].services[s]]) \div Len(Listing(s))

\* A service that later snapshots do not list keeps its last cost.
ServiceRecs ==
    Worth({Rec("service", s, "modernize", 20 * Last(Listing(s)).services[s]) :
             s \in {v \in Service : Listing(v) # <<>> /\ Average(v) >= 15}})

NewServices == {r \in ServiceRecs : r.key \notin Keys(advice.recs)}

ReadServices ==
    /\ advice.pc = "services"
    /\ advice' =
         [advice EXCEPT
            !.pc = "imports",
            !.recs = @ \cup NewServices,
            !.label = IF NewServices = {} THEN @
                      ELSE IF @ = "no_data_available" THEN "service_cost_snapshot"
                      ELSE "multi_source_cost_analysis"]
    /\ UNCHANGED <<spends, csv>>

\* Faulty variant of ImportsServe: imports serve whatever is required.
ImportsServeAlways == advice.recs = {}

ImportsServe == advice.recs = {} /\ ~advice.require

ImportRecs ==
    IF csv >= 15 THEN Worth({Rec("import", "account", "downsize", 45 * csv)}) ELSE {}

\* The recommendations and the label before the cut.
Offered == IF ImportsServe THEN ImportRecs ELSE advice.recs

Label ==
    IF Offered = {}
    THEN IF advice.require THEN "live_provider_api" ELSE "no_data_available"
    ELSE IF ImportsServe THEN "imported_costs" ELSE advice.label

\* The ways to keep the largest savings of recs.
Cuts(recs) ==
    {K \in SUBSET recs :
        /\ Cardinality(K) = Min({MostRows, Cardinality(recs)})
        /\ \A k \in K, r \in recs \ K : k.saving >= r.saving}

\* The ledger is renewed with what is kept (module SavingsLedger).
Answer ==
    /\ advice.pc = "imports"
    /\ \E K \in Cuts({r \in Offered : r.saving >= Least}) :
         advice' = [advice EXCEPT !.pc = "done", !.label = Label, !.recs = K,
                                  !.offered = Offered]
    /\ UNCHANGED <<spends, csv>>

-----------------------------------------------------------------------------
Recommending ==
    \/ \E answer \in ProviderAnswer, refresh, require \in BOOLEAN : Inquire(answer, refresh, require)
    \/ ReadTrend
    \/ ReadServices
    \/ Answer

CostsArrive ==
    (\E form \in ScanForm : NewScan(form)) \/ (\E cost \in {0, 10, 100} : Upload(cost))

RightsizingNext == Recommending \/ CostsArrive

RightsizingSpec == RightsizingInit /\ [][RightsizingNext]_rightsizingVars

-----------------------------------------------------------------------------
(* Safety, of an answer                                                    *)

Sources == {r.from : r \in advice.recs}

\* The source of a label; other labels name several.
OwnSource ==
    [aws_cost_explorer |-> {"ce"}, aws_cloudwatch_inventory |-> {"aws"},
     gcp_cloud_monitoring |-> {"gcp"}, oci_compute_inventory |-> {"oci"},
     live_provider_recommendations |-> {"bridge"}, cost_trend_analysis |-> {"trend"},
     service_cost_snapshot |-> {"service"}, imported_costs |-> {"import"},
     no_data_available |-> {}, live_provider_api |-> {}]

\* A label that names one source is the source of every recommendation that the
\* answer holds, and an answer that says there is no data has none.
LabelTrue ==
    advice.pc = "done" /\ advice.label \in DOMAIN OwnSource =>
        Sources \subseteq OwnSource[advice.label]

\* Where live data is required no recommendation comes from an imported file,
\* and imports and the trend never stand beside a live recommendation.
FallbackLast ==
    advice.pc = "done" =>
        /\ advice.require => "import" \notin Sources
        /\ "import" \in Sources => Sources = {"import"}
        /\ "trend" \in Sources => Sources \subseteq {"trend", "service"}

\* No resource is recommended, and its saving counted, twice for the same action,
\* and no service beside what else recommends it.
CountedInOneRow ==
    advice.pc = "done" =>
        \A r, s \in advice.recs :
            \/ Alike(r, s)
            \/ r.key = s.key /\ "service" \in {r.from, s.from}
            => r = s

\* No machine that runs is recommended for termination, and none at all whose use
\* is unknown, though metrics and pages of the list fail unnoticed.
RunningKept ==
    advice.pc = "done" =>
        \A r \in advice.recs, m \in advice.fleet :
            r.from \in {"aws", "gcp"} /\ r.key = m.key =>
                /\ m.cpu # Unknown \/ m.memory # Unknown
                /\ r.action = "terminate" => m.state # "running"

\* Nothing that was cut saves more than something that was kept.
LargestKept ==
    advice.pc = "done" =>
        \A r \in advice.offered \ advice.recs :
            r.saving >= Least => \A k \in advice.recs : k.saving >= r.saving

\* As long as the trend reads every snapshot, it does not end an account that
\* the newest snapshot shows spending.
SpenderKept ==
    advice.pc = "done" /\ Len(spends) <= TrendRows =>
        \A r \in advice.recs :
            r.from = "trend" /\ r.action = "terminate" => advice.newest < 5

\* An answer names its source, counts every saving once, keeps the largest, and ends
\* no account or machine that is in use.
AdviceTrue ==
    LabelTrue /\ FallbackLast /\ CountedInOneRow /\ LargestKept /\ SpenderKept /\ RunningKept
=============================================================================
