--------------------------- MODULE ProviderCosts ---------------------------
(***************************************************************************)
(* get_cost_summary of the four provider connectors: one request asks each *)
(* scope of a provider twice, for the costs of its services and for those  *)
(* of its regions, and adds the answers up.  Each provider has its own     *)
(* list of scopes, and its own rule for a query that fails.  A scan keeps   *)
(* the rows of the answer as snapshots of accounts.                         *)
(***************************************************************************)
EXTENDS Integers, Sequences, FiniteSets, FiniteSetsExt, SequencesExt

CONSTANTS
    Holding,        \* accounts, subscriptions, projects, tenancies
    Charge,         \* lines of usage: [holding, service, zone, cost]
    ChargeForm,     \* sets of lines a provider may have billed
    CostRequest,    \* requests, see RequestTyped
    TopServices, TopZones,      \* rows of an answer: 5 services, 10 regions
    QueryServices   \* services of a GCP query: LIMIT 200

\* main is the account of the credential, listed the further ones, with AWS one for
\* each role, top and mid are its organization, group or folder.  Some scope is set.
RequestTyped(r) ==
    /\ r.cloud \in {"aws", "azure", "gcp", "oci"}
    /\ r.main \in Holding \cup {"none"} /\ r.listed \in Seq(Holding)
    /\ r.cloud = "oci" => r.main # "none"
    /\ r.cloud \in {"azure", "gcp"} /\ r.listed = <<>> =>
          r.main # "none" \/ (r.cloud = "azure" /\ r.top # "none")
    /\ {r.top, r.mid} \cap Holding = {} /\ (r.mid # "none" => r.mid # r.top)

ASSUME ProviderBounds ==
    /\ Charge \subseteq [holding : Holding, service : STRING, zone : STRING, cost : Int]
    /\ \A lines \in ChargeForm : IsFiniteSet(lines) /\ lines \subseteq Charge
    /\ {"none", "default", "aws-organization"} \cap Holding = {}
    /\ \A r \in CostRequest : RequestTyped(r)
    /\ {TopServices, TopZones, QueryServices} \subseteq Nat

VARIABLES
    ask,        \* the request
    billed,     \* what the provider has billed
    place,      \* where the request is: [pc, scope, from]
    sums,       \* total, services and regions so far
    fates       \* scopes asked so far: "answered", "silent", "half" (regions failed)

providerVars == <<ask, billed, place, sums, fates>>

Nothing == [total |-> 0, services |-> <<>>, zones |-> <<>>]

ProviderInit ==
    /\ ask \in CostRequest
    /\ billed \in ChargeForm
    /\ place = [pc |-> "services", scope |-> 1, from |-> "set"]
    /\ sums = Nothing
    /\ fates = <<>>

-----------------------------------------------------------------------------
(* The scopes of a request.                                                 *)

\* _csv_or_list_values: a name is kept where it is written first.
Distinct(list) ==
    LET kept[i \in 0..Len(list)] ==
            IF i = 0 THEN <<>>
            ELSE IF list[i] \in Range(kept[i - 1]) THEN kept[i - 1] ELSE Append(kept[i - 1], list[i])
    IN kept[Len(list)]

Own(name) == IF name = "none" THEN <<>> ELSE <<name>>

MainIncluded(main, listed) ==
    IF main = "none" \/ main \in Range(listed) THEN listed ELSE <<main>> \o listed

ScopeKind == [aws |-> "account", azure |-> "subscription", gcp |-> "project", oci |-> "tenancy"]

\* AWS lists roles, of which two may be of one account.
ScopesOf(r) ==
    LET listed == Distinct(r.listed)
    IN  CASE r.cloud = "aws"   -> <<"default">> \o r.listed
          [] r.cloud = "azure" -> Own(r.top) \o MainIncluded(r.main, listed)
          [] r.cloud = "gcp"   -> IF listed # <<>> THEN listed ELSE Own(r.main)
          [] r.cloud = "oci"   -> <<r.main>>

\* The parent that a scope's row names.
ParentOf(r, name) ==
    CASE r.cloud = "aws"   -> IF r.listed # <<>> THEN "aws-organization" ELSE "none"
      [] r.cloud = "azure" -> IF name = r.top THEN "none" ELSE r.top
      [] r.cloud = "gcp"   -> IF r.mid # "none" THEN r.mid ELSE r.top
      [] r.cloud = "oci"   -> "none"

\* What the provider counts to a scope: a management group and the account
\* that pays for an organization see the charges of every member.
Reach(r, name) ==
    CASE r.cloud = "azure" /\ name = r.top -> Holding
      [] name = "default" -> IF r.payer THEN Holding ELSE {r.main}
      [] OTHER -> {name}

LinesOf(name) == {l \in billed : l.holding \in Reach(ask, name)}

CostsTotal(costs) == MapThenSumSet(LAMBDA n : costs[n], DOMAIN costs)

CostOf(lines) == CostsTotal([l \in lines |-> l.cost])

Scope == ScopesOf(ask)[place.scope]

\* No more than the limit; others are left out only for larger ones.
Largest(costs, limit) ==
    CHOOSE kept \in SUBSET DOMAIN costs :
        /\ Cardinality(kept) <= limit
        /\ \A n \in DOMAIN costs \ kept :
              Cardinality(kept) = limit /\ \A m \in kept : costs[m] >= costs[n]

By(field, lines) ==
    [n \in {l[field] : l \in lines} |-> CostOf({l \in lines : l[field] = n})]

\* The rows of the query for services; GCP's returns the largest alone.
Returned(costs) ==
    [s \in IF ask.cloud = "gcp" THEN Largest(costs, QueryServices) ELSE DOMAIN costs |-> costs[s]]

ServiceRows(name) == Returned(By("service", LinesOf(name)))

ZoneRows(name) == By("zone", LinesOf(name))

Figure(costs, name) == IF name \in DOMAIN costs THEN costs[name] ELSE 0

AddCosts(old, new) ==
    [n \in DOMAIN old \cup DOMAIN new |-> Figure(old, n) + Figure(new, n)]

-----------------------------------------------------------------------------
(* The request, query by query.  OCI's sums wait for both answers.          *)

WithServices(s) ==
    LET Added(costs) == [s EXCEPT !.total = @ + CostsTotal(costs), !.services = AddCosts(@, costs)]
    IN  Added(ServiceRows(Scope))

WithZones(s) == [s EXCEPT !.zones = AddCosts(@, ZoneRows(Scope))]

Asking(pc) == place.pc = pc /\ ~(ask.cloud = "gcp" /\ Scope \in ask.misnamed)

NextScope(fate) ==
    /\ fates' = Append(fates, fate)
    /\ place' = [place EXCEPT !.scope = @ + 1,
                    !.pc = IF place.scope = Len(ScopesOf(ask)) THEN "done" ELSE "services"]

Refuse ==
    /\ place' = [place EXCEPT !.pc = "error"]
    /\ UNCHANGED <<ask, billed, sums, fates>>

ServicesAnswer ==
    /\ Asking("services")
    /\ sums' = IF ask.cloud = "oci" THEN sums ELSE WithServices(sums)
    /\ place' = [place EXCEPT !.pc = "regions"]
    /\ UNCHANGED <<ask, billed, fates>>

RegionsAnswer ==
    /\ Asking("regions")
    /\ sums' = WithZones(IF ask.cloud = "oci" THEN WithServices(sums) ELSE sums)
    /\ NextScope("answered")
    /\ UNCHANGED <<ask, billed>>

\* A scope whose failure fails the request.
MustAnswer == ask.cloud = "oci" \/ (ask.cloud = "aws" /\ place.scope = 1)

\* The role cannot be assumed, or one of the two queries fails.
QueryFails ==
    /\ Asking("services") \/ Asking("regions")
    /\ IF MustAnswer THEN Refuse
       ELSE /\ NextScope(IF place.pc = "services" THEN "silent" ELSE "half")
            /\ UNCHANGED <<ask, billed, sums>>

\* OCI answers that it must be asked in the home region: both are asked again.
AskedAtHome ==
    /\ ask.cloud = "oci" /\ place.from = "set"
    /\ Asking("services") \/ Asking("regions")
    /\ place' = [place EXCEPT !.pc = "services", !.from = "home"]
    /\ UNCHANGED <<ask, billed, sums, fates>>

\* The name of a billing table is built outside the try of its project.
MisnamedTable ==
    /\ place.pc = "services" /\ ask.cloud = "gcp" /\ Scope \in ask.misnamed
    /\ Refuse

ProviderNext ==
    ServicesAnswer \/ RegionsAnswer \/ QueryFails \/ AskedAtHome \/ MisnamedTable

ProviderSpec == ProviderInit /\ [][ProviderNext]_providerVars

-----------------------------------------------------------------------------
(* The answer of a request that is done.                                    *)

CostRow(id, kind, parent, cost, error) ==
    [id |-> id, kind |-> kind, parent |-> parent, cost |-> cost, error |-> error]

ScopeRow(i) ==
    LET name == ScopesOf(ask)[i]
        kind == IF ask.cloud = "azure" /\ name = ask.top THEN "management_group"
                ELSE ScopeKind[ask.cloud]
    IN  IF fates[i] = "answered"
        THEN CostRow(name, kind, ParentOf(ask, name), CostsTotal(ServiceRows(name)), FALSE)
        ELSE CostRow(name, kind, ParentOf(ask, name), 0, TRUE)

\* Faulty variant of FolderRow: the folder does not name its organization.
FolderAlone(r, total) == CostRow(r.mid, "folder", "none", total, FALSE)

FolderRow(r, total) == CostRow(r.mid, "folder", r.top, total, FALSE)

Headers(r, total) ==
    CASE r.cloud = "aws" /\ r.listed # <<>> ->
            <<CostRow("aws-organization", "organization", "none", total, FALSE)>>
      [] r.cloud = "gcp" ->
            (IF r.top = "none" THEN <<>>
             ELSE <<CostRow(r.top, "organization", "none", total, FALSE)>>)
            \o (IF r.mid = "none" THEN <<>> ELSE <<FolderRow(r, total)>>)
      [] OTHER -> <<>>

Rows == Headers(ask, sums.total) \o [i \in DOMAIN fates |-> ScopeRow(i)]

Top(costs, limit) == [n \in Largest(costs, limit) |-> costs[n]]

Answer ==
    [total |-> sums.total,
     services |-> Top(sums.services, TopServices),
     zones |-> Top(sums.zones, TopZones),
     rows |-> Rows]

-----------------------------------------------------------------------------
(* What a scan stores of the answer: one snapshot of each account, the      *)
(* first of its rows.  A row without cost that is the only one gets the     *)
(* total.                                                                   *)

RowsKept(r, rows) ==
    IF r.targets = {} THEN rows
    ELSE SelectSeq(rows, LAMBDA x : x.error \/ x.id \in r.targets)

Snapshots(rows) ==
    LET First(id) == rows[CHOOSE i \in DOMAIN rows :
                            rows[i].id = id /\ \A j \in 1..(i - 1) : rows[j].id # id]
    IN  [id \in {x.id : x \in Range(rows)} |->
           [parent |-> First(id).parent,
            cost |-> IF First(id).cost = 0 /\ Len(rows) = 1 THEN sums.total ELSE First(id).cost]]

Stored == Snapshots(RowsKept(ask, Rows))

-----------------------------------------------------------------------------
(* Properties.                                                              *)

\* What was counted of a scope whose regions failed: its row has no cost.
Unexplained ==
    CostsTotal([i \in {i \in DOMAIN fates : fates[i] = "half"} |->
                  CostsTotal(ServiceRows(ScopesOf(ask)[i]))])

AddUp(kept) ==
    LET leaves == {id \in DOMAIN kept : \A c \in DOMAIN kept : kept[c].parent # id}
        roots == {id \in DOMAIN kept : kept[id].parent \notin DOMAIN kept}
        total == CostsTotal([id \in leaves |-> kept[id].cost])
    IN  IF Cardinality(DOMAIN kept) = 1 THEN total = sums.total
        ELSE /\ total + Unexplained = sums.total
             /\ \A id \in DOMAIN kept \ leaves :
                   kept[id].cost = sums.total /\ Cardinality(roots) = 1

\* Two roles of one account.
RolesShared ==
    ask.cloud = "aws" /\ \E i, j \in DOMAIN ask.listed : i # j /\ ask.listed[i] = ask.listed[j]

\* A scan that keeps every row: the accounts below which there is no other add up
\* to the total of the provider, apart from scopes that failed between their two
\* queries, and a header has the total and is below one root; one row alone has it.
\* (A management group beside its subscriptions is counted twice in the total; of two
\* roles of one account, whose costs are both in the total, one row is kept.)
RowsExplainTotal ==
    /\ place.pc = "done" /\ ask.targets = {}
    /\ ~RolesShared /\ (ask.cloud = "azure" => ask.top = "none")
    => AddUp(Stored)

\* The figure of a region is what the scopes that answered both queries were
\* charged there, and with every scope and region shown they add up to the total.
ZonesFit ==
    place.pc = "done" =>
        LET answered == {i \in DOMAIN fates : fates[i] = "answered"}
            charged(z) == CostsTotal(
                [i \in answered |-> CostOf({l \in LinesOf(ScopesOf(ask)[i]) : l.zone = z})])
            fits(zones) ==
                /\ \A z \in DOMAIN zones : zones[z] = charged(z)
                /\ (answered = DOMAIN fates /\ zones = sums.zones /\ ask.cloud # "gcp"
                      => CostsTotal(zones) = sums.total)
        IN  fits(Answer.zones)

\* Scopes that see charges of other scopes: a paying account beside its members,
\* a management group beside its subscriptions, a role in the credential's account,
\* two roles of one account.
Overlapping ==
    \/ ask.cloud = "aws" /\ (ask.payer \/ ask.main \in Range(ask.listed) \/ RolesShared)
    \/ ask.cloud = "azure" /\ ask.top # "none"

\* No charge is counted twice, however often a subscription or project is named in
\* the settings, and none of an account that answered is missed, but for those of
\* services that GCP's query leaves out. (Overlapping scopes are counted each.)
AccountsOnce ==
    place.pc = "done" /\ ~Overlapping =>
        LET heard == {i \in DOMAIN fates : fates[i] # "silent"}
            charged == CostOf(UNION {LinesOf(ScopesOf(ask)[i]) : i \in heard})
        IN  IF ask.cloud # "gcp" THEN Answer.total = charged
            ELSE (\A l \in billed : l.cost >= 0) => Answer.total <= charged

\* The request fails as a whole only for the account of the credential, for OCI's
\* one tenancy and for a table name that is refused; otherwise every scope has a
\* row, and the row says when it failed.
ErrorsContained ==
    /\ place.pc = "error" =>
          \/ ask.cloud = "oci" \/ (ask.cloud = "aws" /\ place.scope = 1)
          \/ (ask.cloud = "gcp" /\ Scope \in ask.misnamed)
    /\ place.pc = "done" =>
          \A i \in DOMAIN ScopesOf(ask) :
             \E x \in Range(Rows) :
                x.id = ScopesOf(ask)[i] /\ (x.error <=> fates[i] # "answered")

\* Total, regions and account rows of an answer explain each other, whichever scopes
\* failed and however the settings name them.
ChargesExplained == AccountsOnce /\ RowsExplainTotal /\ ZonesFit /\ ErrorsContained
=============================================================================
