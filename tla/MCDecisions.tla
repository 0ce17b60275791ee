----------------------------- MODULE MCDecisions -----------------------------
\* Components that share no state, checked in one run: each behaviour is one of
\* the component named by part, beside the initial states of the others.
EXTENDS Allocation, VirtualTags, Rollups, CostContext, Timing, OciReports,
    Sweeps, Rightsizing, Containers, Inventory

CONSTANTS a, b

Forms == {
    [key |-> "k", value |-> "*", dimension |-> "team", mapped |-> "x", priority |-> 2],
    [key |-> "k", value |-> "v", dimension |-> "team", mapped |-> "y", priority |-> 1],
    [key |-> "k", value |-> "v", dimension |-> "environment", mapped |-> "y", priority |-> 2]}

Uploads == {
    <<[tags |-> {<<"k", "v">>}, cost |-> 1], [tags |-> {}, cost |-> 2]>>,
    <<[tags |-> {<<"k", "w">>}, cost |-> 4]>>}

TagForms == {
    [key |-> "k", value |-> "x", wants |-> {}, priority |-> 1],
    [key |-> "k", value |-> "y", wants |-> {"n"}, priority |-> 2],
    [key |-> "k", value |-> "z", wants |-> {"n", "p"}, priority |-> 2],
    [key |-> "l", value |-> "y", wants |-> {"team"}, priority |-> 2]}

ItemsScanned == {{"n"}, {"n", "p"}}
ItemsImported == {{"n"}, {"p"}}

Weights == ("p" :> 1) @@ ("q" :> 16) @@ ("r" :> 32)

\* The cost of a row is a power of two: a sum tells what it is made of. One is a credit.
LineCosts == <<2, 4, -8>>

Intervals == ("hourly" :> 1) @@ ("daily" :> 4)

Row(m, t, c) == [month |-> m, team |-> t, cost |-> c]

ReportFiles == {
    {Row(1, "none", 1), Row(1, "t", 2)},
    {Row(1, "t", 4), Row(2, "none", 4)}}

KindsSwept ==
    ("i" :> "instance") @@ ("v" :> "block") @@ ("x" :> "block") @@ ("w" :> "boot")
    @@ ("k" :> "cluster") @@ ("g" :> "container")

RegionsSwept == [v \in DOMAIN KindsSwept |-> IF v = "w" THEN "r2" ELSE "r1"]

Scan(cost, anomalies, saves, service) ==
    [cost |-> cost, anomalies |-> anomalies, saves |-> saves,
     services |-> [s \in Service |-> service]]

ScanForms == {
    Scan(0, 0, 0, 0), Scan(60, 0, 0, 100), Scan(240, 0, 0, 0), Scan(240, 1, 0, 0),
    Scan(240, 0, 60, 10)}

Machine(key, state, cpu, memory) ==
    [key |-> key, state |-> state, cpu |-> cpu, memory |-> memory, cost |-> 40]

AwsFleet == {Machine("f", "running", 9, -1), Machine("g", "stopped", -1, -1)}
GcpFleet == {Machine("h", "stopped", -1, 20), Machine("l", "running", 50, 10)}

\* Rows of the bridge are known, known for another action, twice, save more or too little.
ProviderAnswers ==
    {[ce |-> ce, aws |-> AwsFleet, gcp |-> gcp, oci |-> oci, bridge |-> bridge] :
       ce \in {{}, {Rec("ce", "m", "downsize", 2000), Rec("ce", "n", "terminate", 900)}},
       gcp \in {{}, GcpFleet},
       oci \in {{}, {Rec("oci", "o", "downsize", 2000)}},
       bridge \in {{}, {Rec("bridge", "m", "downsize", 2000), Rec("bridge", "m", "reserve", 1500),
                   Rec("bridge", "m", "reserve", 1600)},
                   {Rec("bridge", "svc", "modernize", 5000), Rec("bridge", "p", "reserve", 100)}}}

Bills == {("eks" :> 3) @@ ("vm" :> 7), ("eks" :> 0) @@ ("vm" :> 5)}

Estates == {
    {}, {[id |-> "c1", name |-> "c", cost |-> 0]},
    {[id |-> "i1", name |-> "i", cost |-> 2], [id |-> "i2", name |-> "i", cost |-> 4]}}

Workload(name, namespace, team, pool, size, replicas) ==
    [name |-> name, namespace |-> namespace, team |-> team, pool |-> pool, size |-> size,
     replicas |-> replicas]

\* Eight namespaces that share get 94 thousandths each, in all more than 750.
Clusters ==
    [total : {2400},
     names : {{"app"}, {"app", "web", "kube-system"}, {"app", "kube-system", "monitoring"},
              {"app", "monitoring", "prometheus"},
              {"app", "web", "a", "b", "c", "d", "e", "f", "kube-system", "monitoring"}},
     measured : {<<>>, ("app" :> 1201) @@ ("web" :> 12)},
     workloads : SUBSET {Workload("w", "app", "x", "general", 1, 1),
                         Workload("v", "app", "y", "general", 1, 2),
                         Workload("u", "web", "x", "spot", 2, 2),
                         Workload("s", "kube-system", "z", "general", 1, 3)},
     pools : {{[name |-> "general", cost |-> 600]}}]

Finds(source, id, area, about, saving, cost) ==
    [source |-> source, id |-> id, area |-> area, about |-> about, saving |-> saving, cost |-> cost]

\* Two findings of one resource, two reports of one finding, one of the tenancy.
FindingsTried == {
    <<>>,
    <<<<Finds("optimizer", "", "east", "idle", 9, 0), Finds("optimizer", "m", "east", "size", 1, 6)>>,
      <<Finds("compute", "m", "east", "size", 2, 5), Finds("compute", "m", "east", "size", 2, 5)>>,
      <<Finds("storage", "v", "west", "delete", 3, 3)>>>>}

Shown(id, area, cost, flagged) == [id |-> id, area |-> area, cost |-> cost, flagged |-> flagged]

HoldersTried == {
    <<>>,
    <<Shown("p", "east", 2, FALSE), Shown("q", "west", 5, TRUE), Shown("p", "east", 9, TRUE),
      Shown("r", "east", 2, TRUE)>>}

ChargesTried == {
    <<>>, <<Shown("p", "east", 1, FALSE), Shown("p", "east", 4, FALSE), Shown("n", "west", 4, FALSE)>>}

VARIABLE part

Init ==
    /\ part \in {"allocation", "tags", "hierarchy", "imports", "federation", "diff",
                 "context", "scheduler", "freshness", "reports", "cleanup", "inventory", "advice",
                 "bills", "cluster", "pages"}
    /\ AllocationInit /\ TagsInit /\ RollupInit /\ ContextInit /\ TimingInit /\ ReportsInit
    /\ SweepsInit /\ RightsizingInit /\ ContainersInit /\ InventoryInit
    /\ holder["x"] = NoHolder
    /\ part # "cleanup" => holder = [v \in Resource |-> NoHolder]
    /\ part # "pages" => findings = <<>> /\ holders = <<>> /\ charges = <<>>
    /\ part # "tags" => ~tagged
    /\ part = "federation" => grouping \in {{}, {"p"}}
    /\ part \notin {"hierarchy", "federation"} => grouping = {}
    /\ policy.frequency = "daily" /\ policy.grace = 1

Rest(p) ==
    /\ p # "allocation" => UNCHANGED allocationVars
    /\ p # "tags" => UNCHANGED tagVars
    /\ p # "rollups" => UNCHANGED rollupVars
    /\ p # "context" => UNCHANGED contextVars
    /\ p # "timing" => UNCHANGED timingVars
    /\ p # "reports" => UNCHANGED reportVars
    /\ p # "sweeps" => UNCHANGED sweepVars
    /\ p # "rightsizing" => UNCHANGED rightsizingVars
    /\ p # "containers" => UNCHANGED containerVars
    /\ p # "pages" => UNCHANGED inventoryVars

\* "federation" is one scan beside an imported file of up to two lines. "context"
\* and "advice" make one request of every state of the data.  "cleanup" sweeps for volumes,
\* "inventory" for the rest.
Next ==
    /\ UNCHANGED part
    /\ \/ part = "allocation" /\ AllocationNext /\ Rest("allocation")
       \/ part = "tags" /\ TagsNext /\ Rest("tags")
       \/ part = "hierarchy" /\ Scanning /\ Rest("rollups")
       \/ part = "federation" /\ seen = {} /\ Scanning /\ Rest("rollups")
       \/ part = "federation" /\ Len(lines) < 2 /\ Importing /\ Rest("rollups")
       \/ part = "imports" /\ Importing /\ Rest("rollups")
       \/ part = "diff" /\ Ending /\ Rest("rollups")
       \/ part = "context" /\ query = NoQuery /\ ContextNext /\ Rest("context")
       \/ part = "scheduler" /\ RunsChange /\ Rest("timing")
       \/ part = "freshness" /\ RowsChange /\ Rest("timing")
       \/ part = "reports" /\ ReportsNext /\ Rest("reports")
       \/ part = "cleanup" /\ SweepsNext({"storage"}) /\ Rest("sweeps")
       \/ part = "inventory" /\ SweepsNext({"compute", "kubernetes"}) /\ Rest("sweeps")
       \/ part = "advice" /\ advice.pc # "done" /\ RightsizingNext /\ Rest("rightsizing")
       \/ part \in {"bills", "cluster"} /\ ContainersNext /\ Rest("containers")
          /\ (part = "bills" <=> cluster' = cluster)
       \/ part = "pages" /\ page = NoPage /\ InventoryNext /\ Rest("pages")

Spec == Init /\ [][Next]_<<allocationVars, tagVars, rollupVars, contextVars, timingVars,
                       reportVars, sweepVars, rightsizingVars, containerVars,
                       inventoryVars, part>>
=============================================================================
