------------------------------ MODULE Rollups ------------------------------
(***************************************************************************)
(* The roll-up of costs along the hierarchy of provider accounts: from the *)
(* links that scans leave behind, or from the parents named in an imported *)
(* file; and the comparison of scans.  One provider, which is not Azure    *)
(* (there, subscriptions without a parent hang on a management group).     *)
(***************************************************************************)
EXTENDS Integers, Sequences, FiniteSets, FiniteSetsExt

CONSTANTS
    Account,    \* account identifiers
    Weight,     \* the cost of each account in a scan
    Kind,       \* account types in a file: "account", "compartment", "tenancy"
    MaxLines,   \* bound: rows of a file
    LineCost,   \* the cost of each row
    Budget,     \* monthly budget
    MaxDiffs    \* bound: scans that are compared

Nobody == "none"
Root == "provider"

ASSUME RollupBounds ==
    /\ IsFiniteSet(Account) /\ {Nobody, Root} \cap Account = {}
    /\ Weight \in [Account -> Nat \ {0}]
    /\ {MaxLines, Budget, MaxDiffs} \subseteq Nat
    /\ LineCost \in [1..MaxLines -> Int]

VARIABLES
    link,       \* provider_account_links: the parent of each account, if any
    latest,     \* the accounts of the latest scan and the parents it reported
    seen,       \* provider_accounts: all accounts of any scan
    measured,   \* those with a snapshot
    grouping,   \* accounts of the types that stand for structure
    lines,      \* imported_cost_records
    scans       \* scan runs with the costs by provider of their snapshots

rollupVars == <<link, latest, seen, measured, grouping, lines, scans>>

RollupInit ==
    /\ link = [c \in Account |-> Nobody]
    /\ latest = <<>>
    /\ seen = {} /\ measured = {}
    /\ grouping \in SUBSET Account
    /\ lines = <<>>
    /\ scans = <<>>

-----------------------------------------------------------------------------
(* Parents as functions from nodes; the root has no parent.                *)

\* The node reached after k steps up.
Above(up, n, k) ==
    LET f[i \in 0..k] == IF i = 0 \/ f[i - 1] = Root THEN (IF i = 0 THEN n ELSE Root)
                         ELSE up[f[i - 1]]
    IN f[k]

Reaches(up, n) == Above(up, n, Cardinality(DOMAIN up) + 1) = Root

MembersOf(up, n) == {c \in DOMAIN up : up[c] = n}

-----------------------------------------------------------------------------
(* Scans: the accounts of a report are linked to the parents it names.     *)

\* A report: a set of accounts, each with a parent or none, without a cycle.
Reports ==
    UNION {{p \in [S -> Account \cup {Nobody}] :
              LET up == [n \in Account |-> IF n \in S /\ p[n] # Nobody THEN p[n] ELSE Root] IN
              \A n \in S : p[n] # n /\ Reaches(up, n)} : S \in (SUBSET Account) \ {{}}}

\* An account that is reported without a parent keeps its link.
Linked(report, n) ==
    IF n \in DOMAIN report /\ report[n] # Nobody THEN report[n] ELSE link[n]

ScanHierarchy(report) ==
    /\ link' = [n \in Account |-> Linked(report, n)]
    /\ latest' = report
    /\ measured' = measured \cup DOMAIN report
    /\ seen' = seen \cup DOMAIN report \cup {report[n] : n \in {n \in DOMAIN report : report[n] # Nobody}}
    /\ UNCHANGED <<grouping, lines, scans>>

\* get_provider_account_rollups: a parent without a snapshot in the scan does
\* not show, its members hang on the provider.
Parent == [n \in DOMAIN latest |-> IF link[n] \in DOMAIN latest THEN link[n] ELSE Root]

-----------------------------------------------------------------------------
(* _materialize_rollup_items.                                              *)

CostsOf(cost, S) == MapThenSumSet(LAMBDA n : cost[n], S)

\* What a grouping account with members costs itself is taken to be theirs.
Direct(up, cost, groups, n) ==
    IF n = Root \/ (n \in groups /\ MembersOf(up, n) # {}) THEN 0 ELSE cost[n]

\* The walk down from node n: it goes k levels deep.
Rolled(up, cost, groups, n) ==
    LET f[k \in 0..Cardinality(DOMAIN up)] ==
            [x \in DOMAIN up \cup {Root} |->
                Direct(up, cost, groups, x)
                  + IF k = 0 THEN 0 ELSE CostsOf(f[k - 1], MembersOf(up, x))]
    IN f[Cardinality(DOMAIN up)][n]

RolledUp == Rolled(Parent, Weight, grouping, Root)

\* The nodes of depth 0.
Baseline == RolledUp

\* _apply_rollup_budget_metrics: the part of the budget that a node is given.
Share(n) == IF Baseline = 0 THEN 0
            ELSE (2 * Budget * Rolled(Parent, Weight, grouping, n) + Baseline) \div (2 * Baseline)

-----------------------------------------------------------------------------
(* _build_rollups_from_imported_rows.                                      *)

Line == [account : Account, parent : Account \cup {Nobody}, kind : Kind]

ImportLine(l) ==
    /\ Len(lines) < MaxLines
    /\ lines' = Append(lines, l)
    /\ UNCHANGED <<link, latest, seen, measured, grouping, scans>>

NoLines ==
    /\ lines # <<>>
    /\ lines' = <<>>
    /\ UNCHANGED <<link, latest, seen, measured, grouping, scans>>

Vague == {"account", "group"}

InferredKind(kind) == IF kind = "compartment" THEN "tenancy" ELSE "group"

\* A known node becomes more specific, and moves once from the provider to a parent.
Ensured(nodes, n, kind, parent) ==
    IF n \notin DOMAIN nodes
    THEN [x \in DOMAIN nodes \cup {n} |-> IF x = n THEN [kind |-> kind, parent |-> parent] ELSE nodes[x]]
    ELSE [nodes EXCEPT
            ![n].kind = IF @ \in Vague /\ kind \notin Vague THEN kind ELSE @,
            ![n].parent = IF @ = Root /\ parent # n THEN parent ELSE @]

WithLine(nodes, l) ==
    LET known == IF l.parent = Nobody THEN nodes
                 ELSE Ensured(nodes, l.parent, InferredKind(l.kind), Root)
    IN Ensured(known, l.account, l.kind, IF l.parent = Nobody THEN Root ELSE l.parent)

ImportNodes ==
    LET f[i \in 0..Len(lines)] == IF i = 0 THEN <<>> ELSE WithLine(f[i - 1], lines[i])
    IN f[Len(lines)]

ImportUp == [n \in DOMAIN ImportNodes |-> ImportNodes[n].parent]

ImportCost ==
    [n \in DOMAIN ImportNodes |-> CostsOf(LineCost, {i \in DOMAIN lines : lines[i].account = n})]

ImportGroups == {n \in DOMAIN ImportNodes : ImportNodes[n].kind = "tenancy"}

ImportTotal == Rolled(ImportUp, ImportCost, ImportGroups, Root)

-----------------------------------------------------------------------------
(* get_federated_costs: all accounts of any scan, with their last cost, and *)
(* the imported lines of accounts that no scan has found.                   *)

\* Faulty variant of FedLines: the lines of scanned accounts are taken too.
FedLinesAll == DOMAIN lines

FedLines == {i \in DOMAIN lines : lines[i].account \notin seen}

\* A node stays where it was first put; a vague kind becomes a specific one.
Joined(nodes, n, kind, parent) ==
    IF n \in seen THEN nodes
    ELSE IF n \notin DOMAIN nodes
    THEN [x \in DOMAIN nodes \cup {n} |-> IF x = n THEN [kind |-> kind, parent |-> parent] ELSE nodes[x]]
    ELSE [nodes EXCEPT ![n].kind = IF @ = "group" THEN kind ELSE @]

\* The lines of an account are taken together; the first parent named is used.
WithAccount(nodes, i) ==
    LET own == {j \in FedLines : lines[j].account = lines[i].account}
        named == {j \in own : lines[j].parent # Nobody}
        p == lines[Min(named)].parent
    IN
    IF i # Min(own) THEN nodes
    ELSE IF named = {} THEN Joined(nodes, lines[i].account, lines[i].kind, Root)
    ELSE Joined(Joined(nodes, p, InferredKind(lines[Min(named)].kind), Root), lines[i].account, lines[i].kind, p)

FedNodes ==
    LET f[i \in 0..Len(lines)] ==
            IF i = 0 THEN <<>> ELSE IF i \in FedLines THEN WithAccount(f[i - 1], i) ELSE f[i - 1]
    IN f[Len(lines)]

FedParent(n) ==
    IF n \notin seen THEN FedNodes[n].parent
    ELSE IF link[n] \in seen \ {n} THEN link[n] ELSE Root

FedUp == [n \in seen \cup DOMAIN FedNodes |-> FedParent(n)]

\* Accounts that no scan has measured cost nothing.
FedCost ==
    [n \in DOMAIN FedUp |->
        (IF n \in measured THEN Weight[n] ELSE 0)
          + CostsOf(LineCost, {i \in FedLines : lines[i].account = n})]

FedGroups == (grouping \cap seen) \cup {n \in DOMAIN FedNodes : FedNodes[n].kind = "tenancy"}

FederatedTotal == Rolled(FedUp, FedCost, FedGroups, Root)

-----------------------------------------------------------------------------
(* get_scan_diff.                                                          *)

EndScan(state, started, cost) ==
    /\ Len(scans) < MaxDiffs
    /\ scans' = Append(scans, [state |-> state, started |-> started, cost |-> cost])
    /\ UNCHANGED <<link, latest, seen, measured, grouping, lines>>

Earlier(i) == {j \in DOMAIN scans : scans[j].state = "completed" /\ scans[j].started < scans[i].started}

Previous(i) == {j \in Earlier(i) : \A k \in Earlier(i) : scans[k].started <= scans[j].started}

\* The sum over the providers that either scan has.
Delta(i) ==
    scans[i].cost - (IF Previous(i) = {} THEN 0 ELSE scans[CHOOSE j \in Previous(i) : TRUE].cost)

Scanning == \E report \in Reports : ScanHierarchy(report)

Importing == (\E l \in Line : ImportLine(l)) \/ NoLines

Ending ==
    \E state \in {"completed", "failed"}, started \in 1..MaxDiffs, cost \in 1..3 :
        EndScan(state, started, cost)

RollupNext == Scanning \/ Importing \/ Ending

RollupSpec == RollupInit /\ [][RollupNext]_rollupVars

-----------------------------------------------------------------------------
\* Links that the latest scan did not confirm.
Unconfirmed == {n \in DOMAIN latest : latest[n] = Nobody /\ link[n] # Nobody}

\* Every account of the latest scan is in the roll-up, unless links of earlier
\* scans that it did not report anew close a cycle; what it costs is in the
\* total, unless it stands for its members.
NothingHidden ==
    /\ Unconfirmed = {} => \A n \in DOMAIN latest : Reaches(Parent, n)
    /\ RolledUp = CostsOf(Weight, {n \in DOMAIN latest :
                                 Reaches(Parent, n) /\ ~(n \in grouping /\ MembersOf(Parent, n) # {})})

\* The parents that the lines of a file name; an account that names itself does
\* not count.
Named == {<<l.account, l.parent>> : l \in {lines[i] : i \in DOMAIN lines}}

Circular ==
    \E S \in (SUBSET Account) \ {{}} :
        \A n \in S : \E p \in S \ {n} : <<n, p>> \in Named

\* The total of an imported file is that of its lines, less those of tenancies
\* with members, as long as the parents it names make no circle.
ImportAddsUp ==
    ~Circular =>
        ImportTotal =
            CostsOf(LineCost, {i \in DOMAIN lines :
                ~(lines[i].account \in ImportGroups /\ MembersOf(ImportUp, lines[i].account) # {})})

\* The budget is given out once: the parts of accounts none of which is above
\* another exceed it by at most half a unit each.
BudgetGivenOnce ==
    /\ Baseline > 0 => Share(Root) = Budget
    /\ \A S \in SUBSET {n \in DOMAIN latest : Reaches(Parent, n)} :
         (\A n, p \in S : n # p => \A k \in 1..Cardinality(Account) : Above(Parent, n, k) # p) =>
            2 * CostsOf([n \in S |-> Share(n)], S) <= 2 * Budget + Cardinality(S)

\* The differences of the completed scans to their predecessors add up to the
\* cost of the last one, if no two of them started in the same instant.
DiffsTelescope ==
    LET done == {i \in DOMAIN scans : scans[i].state = "completed"} IN
    (\A i, j \in done : i # j => scans[i].started # scans[j].started) =>
        \A last \in done :
            (\A i \in done : scans[i].started <= scans[last].started) =>
                CostsOf([i \in done |-> Delta(i)], done) = scans[last].cost

\* Accounts of scans that stand for their members, of the federated nodes.
FedReplaced == {n \in FedGroups \cap DOMAIN FedUp : MembersOf(FedUp, n) # {}}

\* The federated total counts every account once, from its last snapshot or from
\* its imported lines, never from both, less the accounts that stand for their
\* members; only links that close a circle take anything away. Imported parents
\* cannot.
FederationAddsUp ==
    (\A n \in seen : Reaches(FedUp, n)) =>
        FederatedTotal =
            CostsOf(Weight, measured \ FedReplaced)
              + CostsOf(LineCost, {i \in DOMAIN lines : lines[i].account \notin seen \cup FedReplaced})

\* Without imported lines, and as long as the latest scan measured every account
\* that is known, federation and roll-up show the same total.
FederationAgrees ==
    lines = <<>> /\ seen = DOMAIN latest => FederatedTotal = RolledUp

\* Along the hierarchy no cost and no budget is counted twice or lost, but for links
\* that close a circle, and roll-up, federation and scan comparison agree.
HierarchyAddsUp ==
    /\ NothingHidden /\ ImportAddsUp /\ BudgetGivenOnce
    /\ FederationAddsUp /\ FederationAgrees /\ DiffsTelescope
=============================================================================
