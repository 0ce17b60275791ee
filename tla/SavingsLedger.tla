--------------------------- MODULE SavingsLedger ---------------------------
(***************************************************************************)
(* The ledger of recommendations: scans of several processes insert and    *)
(* renew its rows in batches, finance updates realized savings and status. *)
(* A handler loads rows, changes them in memory and commits; the commit    *)
(* writes the fields that differ from what was loaded, and no others.      *)
(* The planned saving of a recommendation is part of its key.              *)
(***************************************************************************)
EXTENDS Integers, Sequences, FiniteSets, FiniteSetsExt, SequencesExt, Functions

CONSTANTS
    Desk,      \* worker processes
    Item,      \* recommendations, by resource, source and fingerprint
    Planned,   \* the planned monthly saving of each
    Realized,  \* monthly savings that finance reports
    MaxSeen    \* bound: how often a recommendation is seen

ASSUME LedgerBounds ==
    /\ Planned \in [Item -> Nat]
    /\ Realized \subseteq Nat
    /\ MaxSeen \in Nat

VARIABLES
    ledger,  \* recommendation_ledger
    desk     \* the handler of each process between load and commit

ledgerVars == <<ledger, desk>>

NoRow == [status |-> "none"]
NoDesk == [op |-> "idle"]

\* Fields that a request leaves out.
Absent == -1

Variance(i, monthly) == monthly - Planned[i]

LedgerInit ==
    /\ ledger = [i \in Item |-> NoRow]
    /\ desk = [d \in Desk |-> NoDesk]

-----------------------------------------------------------------------------
\* The row after a commit of what was loaded and changed to new.
Merged(row, loaded, new) ==
    [f \in DOMAIN new |-> IF new[f] # loaded[f] THEN new[f] ELSE row[f]]

(* _upsert_recommendation_ledger.                                          *)

ScanRead(d, batch) ==
    /\ desk[d] = NoDesk
    /\ desk' = [desk EXCEPT ![d] = [op |-> "scan", batch |-> batch,
                                    loaded |-> Restrict(ledger, ToSet(batch))]]
    /\ UNCHANGED ledger

Inserted(i) ==
    [planned |-> Planned[i], monthly |-> 0, annual |-> 0,
     variance |-> Variance(i, 0), status |-> "open", seen |-> 1]

\* Faulty variant of Renewed: a recommendation seen again is open again.
RenewedOpen(i, row, times) ==
    [row EXCEPT !.annual = IF @ # 0 THEN @ ELSE 12 * row.monthly,
                !.variance = Variance(i, row.monthly),
                !.status = "open",
                !.seen = @ + times]

\* An annual saving of zero is taken for one that is not known.
Renewed(i, row, times) ==
    [row EXCEPT !.annual = IF @ # 0 THEN @ ELSE 12 * row.monthly,
                !.variance = Variance(i, row.monthly),
                !.seen = @ + times]

\* A batch is rejected as a whole if it inserts a row twice, or one that is
\* there by now.
ScanWrite(d) ==
    LET scanned == desk[d].batch
        new(i) == desk[d].loaded[i] = NoRow
    IN
    /\ desk[d].op = "scan"
    /\ \A i \in ToSet(scanned) :
          new(i) => ledger[i] = NoRow /\ Len(SelectSeq(scanned, LAMBDA j : j = i)) = 1
    /\ \A i \in ToSet(scanned) : ~new(i) => ledger[i].seen + Len(scanned) <= MaxSeen
    /\ ledger' = [i \in Item |->
                    IF i \notin ToSet(scanned) THEN ledger[i]
                    ELSE IF new(i) THEN Inserted(i)
                    ELSE LET old == desk[d].loaded[i] IN
                         Merged(ledger[i], old,
                                Renewed(i, old, Len(SelectSeq(scanned, LAMBDA j : j = i))))]
    /\ desk' = [desk EXCEPT ![d] = NoDesk]

(* update_recommendation_ledger_finance.                                   *)

Statuses == {"open", "verified"}

Updates ==
    [monthly : Realized \cup {Absent}, annual : {12 * r : r \in Realized} \cup {Absent},
     status : Statuses]

PatchRead(d, i, update) ==
    /\ desk[d] = NoDesk
    /\ ledger[i] # NoRow
    /\ desk' = [desk EXCEPT ![d] = [op |-> "patch", item |-> i, update |-> update,
                                    loaded |-> Restrict(ledger, {i})]]
    /\ UNCHANGED ledger

\* A monthly or an annual saving alone decides the other.
MonthlyOf(u, row) ==
    IF u.monthly # Absent THEN u.monthly
    ELSE IF u.annual # Absent THEN u.annual \div 12 ELSE row.monthly

AnnualOf(u, row) ==
    IF u.annual # Absent THEN u.annual
    ELSE IF u.monthly # Absent THEN 12 * u.monthly ELSE row.annual

PatchWrite(d) ==
    LET u == desk[d].update
        i == desk[d].item
        old == desk[d].loaded[i]
        monthly == MonthlyOf(u, old)
    IN
    /\ desk[d].op = "patch"
    /\ ledger' = [ledger EXCEPT ![i] =
                    Merged(@, old, [old EXCEPT !.monthly = monthly,
                                               !.annual = AnnualOf(u, old),
                                               !.variance = Variance(i, monthly),
                                               !.status = u.status])]
    /\ desk' = [desk EXCEPT ![d] = NoDesk]

\* A constraint or the write lock rejects the commit, or the process dies.
DeskFails(d) ==
    /\ desk[d] # NoDesk
    /\ desk' = [desk EXCEPT ![d] = NoDesk]
    /\ UNCHANGED ledger

LedgerNext ==
    \E d \in Desk :
        \/ \E batch \in {<<i>> : i \in Item} \cup (Item \X Item) : ScanRead(d, batch)
        \/ \E i \in Item, u \in Updates : PatchRead(d, i, u)
        \/ ScanWrite(d) \/ PatchWrite(d) \/ DeskFails(d)

LedgerSpec == LedgerInit /\ [][LedgerNext]_ledgerVars

-----------------------------------------------------------------------------
\* The variance of a row is that of its own savings, although every handler
\* computes it from what it had loaded.
VarianceKept ==
    \A i \in Item : ledger[i] # NoRow => ledger[i].variance = ledger[i].monthly - ledger[i].planned

\* A scan leaves alone what finance has reported, except an annual saving where
\* it had loaded a monthly one without it.
ScansKeepFinance ==
    [][\A d \in Desk, i \in Item :
         ScanWrite(d) /\ ledger[i] # NoRow =>
           /\ ledger'[i].monthly = ledger[i].monthly /\ ledger'[i].status = ledger[i].status
           /\ ledger'[i].annual # ledger[i].annual =>
                desk[d].loaded[i].annual = 0 /\ desk[d].loaded[i].monthly > 0]_ledgerVars

\* What finance reports is in the row after the commit, unless the row was
\* changed in between: then a report equal to the loaded value has no effect.
ReportsTakeEffect ==
    [][\A d \in Desk :
         PatchWrite(d) =>
           LET i == desk[d].item
               u == desk[d].update
               settled == ledger[i].monthly = desk[d].loaded[i].monthly
           IN /\ settled /\ u.monthly # Absent => ledger'[i].monthly = u.monthly
              /\ settled /\ u.monthly = Absent /\ u.annual # Absent =>
                   12 * ledger'[i].monthly = u.annual]_ledgerVars

\* What finance reports takes effect, is kept by scans, and the variance fits it.
FinanceKept ==
    /\ []VarianceKept
    /\ ScansKeepFinance
    /\ ReportsTakeEffect
=============================================================================
