------------------------------ MODULE Inventory ------------------------------
(***************************************************************************)
(* GET /inventory/resources: the resources that live OCI findings name, or *)
(* else the accounts of the last scans, or else the rows of an import, in  *)
(* pages of descending cost.                                               *)
(***************************************************************************)
EXTENDS Integers, Sequences, SequencesExt, FiniteSets

CONSTANTS
    FindingForm, \* what the live sources answer: a sequence of sequences of findings
    HolderForm,  \* account snapshots, newest first: sequences of items
    ChargeForm,  \* imported cost rows: sequences of items
    PageSize,    \* limits that a client asks for
    MaxOffset    \* bound: offsets that a client asks for

\* A finding names a resource, "" for a recommendation about a whole tenancy.
Item == [id : STRING, area : STRING, cost : Nat, flagged : BOOLEAN]
Finding == [source : STRING, id : STRING, area : STRING, about : STRING,
            saving : Nat, cost : Nat]

ASSUME InventoryForms ==
    /\ FindingForm \subseteq Seq(Seq(Finding))
    /\ HolderForm \subseteq Seq(Item) /\ ChargeForm \subseteq Seq(Item)
    /\ PageSize \subseteq Nat \ {0} /\ MaxOffset \in Nat

VARIABLES
    findings,   \* the sources in the order in which they are asked
    holders,    \* provider_account_snapshots
    charges,    \* imported_cost_records
    page        \* the last answer, NoPage before

inventoryVars == <<findings, holders, charges, page>>

Everywhere == "all"
NoPage == [items |-> <<>>, from |-> "none"]

InventoryInit ==
    /\ findings \in FindingForm
    /\ holders \in HolderForm
    /\ charges \in ChargeForm
    /\ page = NoPage

-----------------------------------------------------------------------------
(* The live findings.                                                      *)

FirstOf(s, n) == SubSeq(s, 1, IF n < Len(s) THEN n ELSE Len(s))

At(s, order) == [n \in DOMAIN order |-> s[order[n]]]

\* Positions by their rank, given which are before each: n - 1 others before the n-th.
Ranked(before) ==
    [n \in 1..Cardinality(DOMAIN before) |->
        CHOOSE i \in DOMAIN before : Cardinality(before[i]) = n - 1]

\* What s has at some positions.
Retained(s, positions) == At(s, Ranked([i \in positions |-> {j \in positions : j < i}]))

\* The first of the elements that agree in their keys.
FirstEach(s, keys) ==
    Retained(s, {i \in DOMAIN s : \A j \in 1..(i - 1) : keys[j] # keys[i]})

\* The largest weight first; the sort is stable.
InOrder(s, weights) ==
    LET Sooner(j, i) == weights[j] > weights[i] \/ (weights[j] = weights[i] /\ j < i)
    IN  At(s, Ranked([i \in DOMAIN s |-> {j \in DOMAIN s : Sooner(j, i)}]))

\* Each source is given what the ones before it have left of the limit.
FindingRows(n) ==
    LET rows[i \in 0..Len(findings)] ==
            IF i = 0 THEN <<>> ELSE rows[i - 1] \o FirstOf(findings[i], n - Len(rows[i - 1]))
    IN  rows[Len(findings)]

Met(rows) == FirstEach(rows, [i \in DOMAIN rows |-> <<rows[i].source, rows[i].id, rows[i].about>>])

BySaving(rows) == InOrder(rows, [i \in DOMAIN rows |-> rows[i].saving])

\* Without a known spend the saving is the cost.
AsItem(r) ==
    [id |-> r.id, area |-> r.area, cost |-> IF r.cost > 0 THEN r.cost ELSE r.saving,
     flagged |-> TRUE]

Within(items, area) == Retained(items, {i \in DOMAIN items : area \in {Everywhere, items[i].area}})

ResourceOf(x) == x.id

MaxFindings == Len(FlattenSeq(findings))

Identified(rows) == Retained(rows, {i \in DOMAIN rows : rows[i].id # ""})

ItemsOf(rows) == [i \in DOMAIN rows |-> AsItem(rows[i])]

OfResources(items) == FirstEach(items, [i \in DOMAIN items |-> ResourceOf(items[i])])

LiveItems(area, n) ==
    OfResources(Within(ItemsOf(Identified(BySaving(Met(FindingRows(n))))), area))

-----------------------------------------------------------------------------
(* The answer.                                                             *)

\* The newest snapshot of each account.
HolderItems(area) == Within(FirstEach(holders, [i \in DOMAIN holders |-> holders[i].id]), area)

ChargeItems(area) == Within(charges, area)

\* Faulty variant of BestSource: accounts are shown beside the resources.
BestSourceBeside(live, area) ==
    IF HolderItems(area) # <<>> \/ live # <<>>
    THEN [items |-> live \o HolderItems(area), from |-> IF live # <<>> THEN "live" ELSE "accounts"]
    ELSE [items |-> ChargeItems(area), from |-> IF ChargeItems(area) = <<>> THEN "accounts" ELSE "import"]

BestSource(live, area) ==
    IF live # <<>> THEN [items |-> live, from |-> "live"]
    ELSE IF HolderItems(area) # <<>> THEN [items |-> HolderItems(area), from |-> "accounts"]
    ELSE [items |-> ChargeItems(area), from |-> IF ChargeItems(area) = <<>> THEN "accounts" ELSE "import"]

ByCost(items) == InOrder(items, [i \in DOMAIN items |-> items[i].cost])

Page(items, offset, n) == SubSeq(items, offset + 1, IF offset + n < Len(items) THEN offset + n ELSE Len(items))

Asked(items, wasteOnly) == IF wasteOnly THEN Retained(items, {i \in DOMAIN items : items[i].flagged}) ELSE items

\* The accounts and the import are not cut before they are sorted, the live
\* findings are: a page of theirs is taken from the first offset + n findings.
Inventory(area, wasteOnly, offset, n) ==
    LET PageOf(best, all) ==
            [items |-> Page(all, offset, n), from |-> best.from, all |-> all,
             area |-> area, waste |-> wasteOnly, size |-> n]
        Shown(best) == PageOf(best, ByCost(Asked(best.items, wasteOnly)))
    IN  Shown(BestSource(LiveItems(area, offset + n), area))

GetInventory(area, wasteOnly, offset, n) ==
    /\ page' = Inventory(area, wasteOnly, offset, n)
    /\ UNCHANGED <<findings, holders, charges>>

InventoryNext ==
    \E area \in {Everywhere} \cup {x.area : x \in UNION {Range(s) : s \in HolderForm}} :
       \E wasteOnly \in BOOLEAN, offset \in 0 .. MaxOffset, n \in PageSize :
          GetInventory(area, wasteOnly, offset, n)

InventorySpec == InventoryInit /\ [][InventoryNext]_inventoryVars

-----------------------------------------------------------------------------
\* However many findings name a resource, live rows have it once, so that the
\* total does not count its cost again.
EachResourceOnce ==
    page.from = "live" =>
        \A i, j \in DOMAIN page.all : page.all[i].id = page.all[j].id => i = j

\* Rows are of the region that was asked for and of the one source that the
\* answer names: resources, accounts and imported rows are never mixed.
OneSourceShown ==
    LET known == CASE page.from = "live" -> UNION {Range(s) : s \in Range(findings)}
                   [] page.from = "accounts" -> Range(holders)
                   [] page.from = "import" -> Range(charges)
                   [] OTHER -> {}
    IN  \A i \in DOMAIN page.items :
            /\ page.area \in {Everywhere, page.items[i].area}
            /\ \E k \in known : k.id = page.items[i].id

\* Without live findings of the region, the pages that follow each other hold
\* every row once, in the order of descending cost. (With them a page is cut from
\* another list than the page before, and small pages may show accounts where
\* the first findings name no resource.)
PagesPartition ==
    page # NoPage /\ LiveItems(page.area, MaxFindings) = <<>> =>
        LET all == page.all
            NthPage(k) == Inventory(page.area, page.waste, (k - 1) * page.size, page.size)
        IN  /\ FlattenSeq([k \in DOMAIN all |-> NthPage(k).items]) = all
            /\ \A i, j \in DOMAIN all : i < j => all[i].cost >= all[j].cost

\* The pages of a list show one source, and each of its resources once.
PagesTrue == EachResourceOnce /\ OneSourceShown /\ PagesPartition
=============================================================================
