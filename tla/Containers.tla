------------------------------ MODULE Containers ------------------------------
(***************************************************************************)
(* What an organization spends on Kubernetes and containers: the bills of  *)
(* its vendors, the live OCI resources that have not been billed yet, and  *)
(* how a cluster's cost is divided among namespaces, teams and node pools. *)
(***************************************************************************)
EXTENDS Integers, Sequences, FiniteSets, FiniteSetsExt

CONSTANTS
    Vendor,           \* providers; the live inventory is that of "oci"
    BillService,      \* services that a bill may name
    ContainerService, \* those that are about containers
    BillForm,         \* bills that are tried: cost of each service, 0 if not named
    EstateForm,       \* live resources that are tried: sets of [id, name, cost]
    ClusterForm       \* clusters that are tried

\* A live resource, with the estimate of its cost, and a workload, whose size is
\* what it requests or uses of processors and memory, at least a little.
LiveResource == [id : STRING, name : STRING, cost : Nat]
WorkloadForm == [name : STRING, namespace : STRING, team : STRING, pool : STRING,
                 size : Nat \ {0}, replicas : Nat \ {0}]

\* names are the namespaces of the request, measured what OpenCost answers for each
\* namespace, <<>> if it does not.
ClusterTyped(c) ==
    /\ c.total \in Nat
    /\ IsFiniteSet(c.names)
    /\ IsFiniteSet(DOMAIN c.measured) /\ \A n \in DOMAIN c.measured : c.measured[n] \in Nat
    /\ IsFiniteSet(c.workloads) /\ c.workloads \subseteq WorkloadForm

ASSUME ContainerConstants ==
    /\ IsFiniteSet(ContainerService)
    /\ ContainerService \subseteq BillService
    /\ BillForm \subseteq [BillService -> Nat]
    /\ \A e \in EstateForm : IsFiniteSet(e) /\ e \subseteq LiveResource
    /\ \A c \in ClusterForm : ClusterTyped(c)

VARIABLES
    bills,     \* of every vendor: what its API answers, its last scan, the import
    estate,    \* live OKE clusters, container instances and repositories
    cluster    \* the cluster of the last request

containerVars == <<bills, estate, cluster>>

BillFeed == {"live", "scan", "import"}
NoBill == [s \in BillService |-> 0]
NoCluster == [total |-> 0, names |-> {}, measured |-> <<>>, workloads |-> {}, pools |-> {}]

\* A vendor that is not configured, fails or answers too late has no live bill.
ContainersInit ==
    /\ bills = [v \in Vendor |-> [f \in BillFeed |-> NoBill]]
    /\ estate = {}
    /\ cluster = NoCluster

BillChanges(v, f, bill) ==
    /\ bills' = [bills EXCEPT ![v][f] = bill]
    /\ UNCHANGED <<estate, cluster>>

EstateChanges(e) ==
    /\ estate' = e
    /\ UNCHANGED <<bills, cluster>>

-----------------------------------------------------------------------------
(* The rows of container services.                                         *)

\* Other services and those without cost are left out.
Contained(v, f) == {s \in ContainerService : bills[v][f][s] > 0}

\* A feed is read if those before it name no container service.
FeedsRead(v) ==
    {f \in BillFeed :
       /\ Contained(v, f) # {}
       /\ f # "live" => Contained(v, "live") = {}
       /\ f = "import" => Contained(v, "scan") = {}}

\* What add_row is called with.
OfferedRows ==
    UNION {{[vendor |-> v, service |-> s, cost |-> bills[v][f][s], source |-> f, id |-> f] :
              s \in Contained(v, f)} : v \in Vendor, f \in BillFeed}

ServiceCosts ==
    {r \in OfferedRows : r.source \in FeedsRead(r.vendor)}
    \cup {[vendor |-> "oci", service |-> e.name, cost |-> e.cost, source |-> "inventory", id |-> e.id] :
            e \in estate}

SourceRank(f) == CASE f = "live" -> 0 [] f = "inventory" -> 1 [] f = "scan" -> 2 [] OTHER -> 3

Best(sources) == CHOOSE f \in sources : \A g \in sources : SourceRank(f) <= SourceRank(g)

CostSum(rows) == MapThenSumSet(LAMBDA r : r.cost, rows)

Keyed(v, s) == {r \in ServiceCosts : r.vendor = v /\ r.service = s}

\* The cost of a row: resources of one name share it.
Merge(rows) == CostSum(rows)

ServiceRows ==
    {[vendor |-> k[1], service |-> k[2], cost |-> Merge(Keyed(k[1], k[2])),
      source |-> Best({r.source : r \in Keyed(k[1], k[2])})] :
       k \in {<<r.vendor, r.service>> : r \in ServiceCosts}}

VendorRollup(v) ==
    [source |-> IF FeedsRead(v) # {} THEN Best(FeedsRead(v))
                ELSE IF v = "oci" /\ estate # {} THEN "inventory" ELSE "none",
     total |-> CostSum({r \in ServiceRows : r.vendor = v}),
     services |-> Cardinality({r \in ServiceRows : r.vendor = v})]

Summary ==
    [total |-> CostSum(ServiceRows),
     source |-> IF ServiceRows = {} THEN "none" ELSE Best({r.source : r \in ServiceRows}),
     vendors |-> {v \in Vendor : VendorRollup(v).services > 0}]

-----------------------------------------------------------------------------
(* The cost of a cluster. A share is in thousandths, costs are in cents.   *)

\* round: the nearest number, of two the even one.
Rounded(a, b) ==
    LET q == a \div b  twice == 2 * (a % b) IN
    IF twice > b \/ (twice = b /\ q % 2 = 1) THEN q + 1 ELSE q

Reserved == {"kube-system", "monitoring", "prometheus", "observability"}

ShareOf(name, names) ==
    IF name = "kube-system" THEN 100
    ELSE IF name \in Reserved THEN 150
    ELSE Rounded(750, Cardinality(names \ Reserved))

\* OpenCost's allocation, if it answers with a cost, or shares of the cluster.
NamespaceCost(c) ==
    IF c.measured # <<>> THEN c.measured
    ELSE [n \in c.names |-> Rounded(c.total * ShareOf(n, c.names), 1000)]

ClusterTotal(c) ==
    IF c.measured # <<>> THEN MapThenSumSet(LAMBDA n : c.measured[n], DOMAIN c.measured)
    ELSE c.total

\* Faulty variant of Beside: workloads of other namespaces are weighed as well.
BesideAll(w, c) == c.workloads

Beside(w, c) == {x \in c.workloads : x.namespace = w.namespace}

WorkloadWeight(w) == w.size * w.replicas

\* A workload's part of its namespace; nothing, if the cluster has no such one.
WorkloadCost(w, c) ==
    IF w.namespace \notin DOMAIN NamespaceCost(c) THEN 0
    ELSE Rounded(NamespaceCost(c)[w.namespace] * WorkloadWeight(w),
                 MapThenSumSet(WorkloadWeight, Beside(w, c)))

TeamCost(t, c) ==
    MapThenSumSet(LAMBDA w : WorkloadCost(w, c), {w \in c.workloads : w.team = t})

PoolUse(p, c) ==
    MapThenSumSet(LAMBDA w : WorkloadCost(w, c), {w \in c.workloads : w.pool = p.name})

IdleCost(p, c) == IF p.cost > PoolUse(p, c) THEN p.cost - PoolUse(p, c) ELSE 0

ClusterCost(c) ==
    /\ cluster' = c
    /\ UNCHANGED <<bills, estate>>

ContainersNext ==
    \/ \E v \in Vendor, f \in BillFeed, bill \in BillForm \cup {NoBill} : BillChanges(v, f, bill)
    \/ \E e \in EstateForm : EstateChanges(e)
    \/ \E c \in ClusterForm : ClusterCost(c)

ContainersSpec == ContainersInit /\ [][ContainersNext]_containerVars

-----------------------------------------------------------------------------
FeedTotal(v, f) == MapThenSumSet(LAMBDA s : bills[v][f][s], ContainerService)

\* The total of a vendor is what one of its feeds bills, never two that may both
\* contain it, an older one only if no newer one names a container service; and
\* with OCI every live estimate, also of resources that share a name.
OneFeedEach ==
    \A v \in Vendor :
        LET billed == IF FeedTotal(v, "live") > 0 THEN FeedTotal(v, "live")
                      ELSE IF FeedTotal(v, "scan") > 0 THEN FeedTotal(v, "scan")
                      ELSE FeedTotal(v, "import")
        IN  VendorRollup(v).total = billed + IF v = "oci" THEN CostSum(estate) ELSE 0

\* The teams of a cluster are charged what its namespaces with workloads cost, but
\* for half a cent of each workload; workloads of unknown namespaces are charged
\* nothing.
TeamsAddUp ==
    LET teams == MapThenSumSet(LAMBDA t : TeamCost(t, cluster), {w.team : w \in cluster.workloads})
        spaces == MapThenSumSet(LAMBDA n : NamespaceCost(cluster)[n],
                    {w.namespace : w \in cluster.workloads} \cap DOMAIN NamespaceCost(cluster))
        cents == Cardinality(cluster.workloads)
    IN  2 * teams <= 2 * spaces + cents /\ 2 * spaces <= 2 * teams + cents

\* Namespaces do not cost more than the cluster, unless two of them are reserved
\* for monitoring, and but for rounding: half a cent of each, and half a thousandth
\* of the cluster for each of those that share what is left.
NamespacesWithin ==
    Cardinality(cluster.names \cap (Reserved \ {"kube-system"})) <= 1 =>
        2000 * MapThenSumSet(LAMBDA n : NamespaceCost(cluster)[n], DOMAIN NamespaceCost(cluster))
        <= (2000 + Cardinality(cluster.names \ Reserved)) * ClusterTotal(cluster)
           + 1000 * Cardinality(DOMAIN NamespaceCost(cluster))

\* Container costs come from one feed each, with every live estimate, and a cluster's
\* cost is divided among namespaces and teams without a rest or a surplus but that of
\* rounding.
ContainersAddUp == OneFeedEach /\ TeamsAddUp /\ NamespacesWithin
=============================================================================
