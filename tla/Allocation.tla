----------------------------- MODULE Allocation -----------------------------
(***************************************************************************)
(* Business mapping of one organization: its rules, the cost records of    *)
(* the latest CSV upload, the dimension rows that an application of the    *)
(* rules writes, the summaries computed from both, and what chargeback,    *)
(* coverage and trend add up.  Handlers of several processes read, and     *)
(* commit later.  Beside it, virtual tags, which are never stored.         *)
(***************************************************************************)
EXTENDS Integers, Sequences, FiniteSets, FiniteSetsExt

CONSTANTS
    Mapper,     \* worker processes
    RuleForm,   \* rules that are tried: [key, value, dimension, mapped, priority]
    Files,      \* uploads that are tried: sequences of [tags, cost]
    MaxRules,   \* bound: rules ever created
    MaxWork     \* bound: requests

\* What is read of a cost record: its tags, pairs of a key and a value, and its cost.
CostRecord == [tags : SUBSET (STRING \X STRING), cost : Nat]

ASSUME AllocationBounds ==
    /\ Files \subseteq Seq(CostRecord)
    /\ \A f \in RuleForm : f.priority \in Int /\ f.dimension \in {"team", "environment"}
    /\ {MaxRules, MaxWork} \subseteq Nat

VARIABLES
    rules,      \* business_mapping_rules, by id
    records,    \* imported_cost_records, by id: sqlite numbers them from 1 again
    dims,       \* normalized_cost_dimensions
    sums,       \* cost_period_summaries of one period and provider, by bucket
    mapper,     \* the request in flight of each process
    work,       \* bound: requests so far
    fresh,      \* observed: no upload since the rules were first applied
    beside,     \* observed: applications have overlapped
    settled     \* observed: since a summary was computed no record was replaced
                \* or assigned anew

allocationVars == <<rules, records, dims, sums, mapper, work, fresh, beside, settled>>

\* Two of the four VALID_DIMENSIONS, those that summaries are grouped by.
Dimensions == {"team", "environment"}

Unmapped == "none"

NoRule == [set |-> FALSE]
Resting == [pc |-> "idle"]

AllocationInit ==
    /\ rules = <<>>
    /\ records = <<>>
    /\ dims = {}
    /\ sums = {}
    /\ mapper = [w \in Mapper |-> Resting]
    /\ work = 0
    /\ fresh = TRUE /\ beside = FALSE /\ settled = TRUE

Working == work < MaxWork /\ work' = work + 1

-----------------------------------------------------------------------------
(* Rules.                                                                  *)

RuleIds == {i \in DOMAIN rules : rules[i] # NoRule}

Active == {i \in RuleIds : rules[i].active}

SameTarget(r, f) == r.key = f.key /\ r.value = f.value /\ r.dimension = f.dimension

Saved(f, active) ==
    [set |-> TRUE, active |-> active, key |-> f.key, value |-> f.value,
     dimension |-> f.dimension, mapped |-> f.mapped, priority |-> f.priority]

CreateRule(f) ==
    /\ Working
    /\ Len(rules) < MaxRules
    /\ \A i \in RuleIds : ~SameTarget(rules[i], f)
    /\ rules' = Append(rules, Saved(f, TRUE))
    /\ UNCHANGED <<records, dims, sums, mapper, fresh, beside, settled>>

\* An update does not look for another rule of the same target.
UpdateRule(i, f, active) ==
    /\ Working
    /\ i \in RuleIds
    /\ rules' = [rules EXCEPT ![i] = Saved(f, active)]
    /\ UNCHANGED <<records, dims, sums, mapper, fresh, beside, settled>>

\* What was assigned by the rule stays.
DeleteRule(i) ==
    /\ Working
    /\ i \in RuleIds
    /\ rules' = [rules EXCEPT ![i] = NoRule]
    /\ UNCHANGED <<records, dims, sums, mapper, fresh, beside, settled>>

-----------------------------------------------------------------------------
(* upload_cost_csv: the records are replaced, the rows that refer to them  *)
(* are not.                                                                *)

ImportFile(f) ==
    /\ Working
    /\ records' = f
    /\ fresh' = (dims = {} /\ \A w \in Mapper : mapper[w] = Resting)
    /\ settled' = (sums = {} /\ \A w \in Mapper : mapper[w] = Resting)
    /\ UNCHANGED <<rules, dims, sums, mapper, beside>>

-----------------------------------------------------------------------------
(* _apply_mapping_rules: everything is read, then committed.               *)

Fits(i, tags) ==
    \E t \in tags : t[1] = rules[i].key /\ rules[i].value \in {"*", t[2]}

Precedes(i, j) ==
    \/ rules[i].priority < rules[j].priority
    \/ rules[i].priority = rules[j].priority /\ i < j

\* The first rule in order that fits gives the value of its dimension.
Assigned(tags) ==
    [d \in Dimensions |->
        LET fits == {i \in Active : rules[i].dimension = d /\ Fits(i, tags)} IN
        IF fits = {} THEN Unmapped
        ELSE rules[CHOOSE i \in fits : \A j \in fits \ {i} : Precedes(i, j)].mapped]

IsMapped(assigned) == \E d \in Dimensions : assigned[d] # Unmapped

RowsOf(r) == {x \in dims : x.record = r}

\* The row found for a record, the one with the least id.
Found(r) == {x \in RowsOf(r) : \A y \in RowsOf(r) : x.id <= y.id}

ApplyRead(w) ==
    /\ mapper[w] = Resting /\ Working
    /\ mapper' = [mapper EXCEPT ![w] =
                    [pc |-> "apply",
                     assigned |-> [r \in DOMAIN records |-> Assigned(records[r].tags)],
                     cost |-> [r \in DOMAIN records |-> records[r].cost],
                     found |-> [r \in DOMAIN records |-> Found(r)],
                     seen |-> Cardinality(dims)]]
    /\ UNCHANGED <<rules, records, dims, sums, fresh, beside, settled>>

\* get_chargeback and get_allocation_coverage apply the rules if no row is there.
ChargebackApplies(w) == dims = {} /\ Active # {} /\ ApplyRead(w)

\* Only the columns that differ from what was loaded are written; cost, provider
\* and service stay those of the record that the row was first made for.
Renewed(x, old, assigned) ==
    [x EXCEPT !.assigned = [d \in Dimensions |->
                              IF assigned[d] = old.assigned[d] THEN x.assigned[d] ELSE assigned[d]],
              !.mapped = IF IsMapped(assigned) = old.mapped THEN x.mapped ELSE IsMapped(assigned)]

\* Faulty variant of New: records that no rule maps get no row.
NewMapped(m) == {r \in DOMAIN m.assigned : m.found[r] = {} /\ IsMapped(m.assigned[r])}

New(m) == {r \in DOMAIN m.assigned : m.found[r] = {}}

Inserted(m) ==
    {[id |-> Cardinality(dims) + Cardinality({q \in New(m) : q <= r}), record |-> r,
      cost |-> m.cost[r], assigned |-> m.assigned[r], mapped |-> IsMapped(m.assigned[r]),
      seen |-> m.seen] : r \in New(m)}

Updated(m, x) ==
    LET olds == {o \in UNION {m.found[r] : r \in DOMAIN m.found} : o.id = x.id} IN
    IF olds = {} THEN x
    ELSE LET old == CHOOSE o \in olds : TRUE IN Renewed(x, old, m.assigned[old.record])

ApplyWrite(w) ==
    LET m == mapper[w] IN
    /\ m.pc = "apply"
    /\ dims' = {Updated(m, x) : x \in dims} \cup Inserted(m)
    /\ mapper' = [mapper EXCEPT ![w] = Resting]
    /\ beside' = (beside \/ \E v \in Mapper \ {w} : mapper[v].pc = "apply")
    /\ settled' = (settled /\ sums = {} /\ \A v \in Mapper : mapper[v].pc # "compute")
    /\ UNCHANGED <<rules, records, sums, work, fresh>>

-----------------------------------------------------------------------------
(* compute_period_summaries.                                               *)

\* dim_by_record_id keeps the last row of a record.
DimOf(r) == {x \in RowsOf(r) : \A y \in RowsOf(r) : y.id <= x.id}

\* Faulty variant of Bucket: the record's own application of the rules.
BucketOf(r) == Assigned(records[r].tags)

Bucket(r) ==
    IF DimOf(r) = {} THEN [d \in Dimensions |-> Unmapped]
    ELSE (CHOOSE x \in DimOf(r) : TRUE).assigned

CostOf(S) == MapThenSumSet(LAMBDA r : records[r].cost, S)

SummaryOf(b) ==
    LET members == {r \in DOMAIN records : Bucket(r) = b} IN
    [bucket |-> b, request |-> work, total |-> CostOf(members),
     mapped |-> CostOf({r \in members : \E x \in DimOf(r) : x.mapped})]

ComputeSums(w) ==
    /\ mapper[w] = Resting /\ Working
    /\ mapper' = [mapper EXCEPT ![w] =
                    [pc |-> "compute", sums |-> {SummaryOf(Bucket(r)) : r \in DOMAIN records}]]
    /\ UNCHANGED <<rules, records, dims, sums, fresh, beside, settled>>

\* Summaries of buckets in which no record is now are left.
Kept(new) == {s \in sums : \A n \in new : n.bucket # s.bucket}

WriteSums(w) ==
    /\ mapper[w].pc = "compute"
    /\ sums' = Kept(mapper[w].sums) \cup mapper[w].sums
    /\ mapper' = [mapper EXCEPT ![w] = Resting]
    /\ UNCHANGED <<rules, records, dims, work, fresh, beside, settled>>

\* A statement fails on the write lock, or the process dies.
MappingFails(w) ==
    /\ mapper[w] # Resting
    /\ mapper' = [mapper EXCEPT ![w] = Resting]
    /\ UNCHANGED <<rules, records, dims, sums, work, fresh, beside, settled>>

AllocationNext ==
    \/ \E f \in RuleForm :
          \/ CreateRule(f)
          \/ \E i \in 1..MaxRules, active \in BOOLEAN : UpdateRule(i, f, active)
    \/ \E i \in 1..MaxRules : DeleteRule(i)
    \/ \E f \in Files : ImportFile(f)
    \/ \E w \in Mapper :
          \/ ApplyRead(w) \/ ChargebackApplies(w) \/ ApplyWrite(w)
          \/ ComputeSums(w) \/ WriteSums(w) \/ MappingFails(w)

AllocationSpec == AllocationInit /\ [][AllocationNext]_allocationVars

-----------------------------------------------------------------------------
(* What the reports add up.                                                *)

Charge(S) == MapThenSumSet(LAMBDA x : x.cost, S)

\* get_chargeback, by dimension; the executive summary adds the same for teams.
Charged(d) == Charge({x \in dims : x.assigned[d] # Unmapped})

\* get_allocation_coverage and the executive summary.
MappedCost == Charge({x \in dims : x.mapped})

-----------------------------------------------------------------------------
\* A record has a second row only if the application that inserted it had read
\* before the first was committed.
OneRowEach ==
    \A x, y \in dims : x.record = y.record /\ x.id < y.id => y.seen < x.id

\* As long as applications do not overlap, chargeback and coverage fit together:
\* what a dimension charges is mapped, and what is mapped is charged by some
\* dimension.
ViewsAgree ==
    ~beside =>
        /\ \A d \in Dimensions : Charged(d) <= MappedCost
        /\ MappedCost <= MapThenSumSet(Charged, Dimensions)

\* Until the records are replaced, and unless applications overlap, the rows
\* carry the whole cost of the upload, mapped or not.
ChargedAsImported ==
    fresh /\ ~beside /\ dims # {} => Charge(dims) = CostOf(DOMAIN records)

\* Until records are replaced or assigned anew, the trend adds up their cost,
\* however often the summaries are computed.
TrendMatches ==
    settled /\ sums # {} => MapThenSumSet(LAMBDA s : s.total, sums) = CostOf(DOMAIN records)

\* Whatever the order in which rules were made, a rule with a lower priority
\* number than all others of its dimension decides for every record that it fits.
FirstRuleWins ==
    [][\A w \in Mapper, r \in DOMAIN records, i \in Active :
         /\ ApplyRead(w) /\ Fits(i, records[r].tags)
         /\ \A j \in Active \ {i} :
              rules[j].dimension = rules[i].dimension => rules[i].priority < rules[j].priority
         => mapper'[w].assigned[r][rules[i].dimension] = rules[i].mapped]_allocationVars

\* The cost of an upload is allocated once, by the first rule that fits, and rows,
\* chargeback, coverage, summaries and trend agree about it.
CostsAllocated ==
    /\ [](OneRowEach /\ ViewsAgree /\ ChargedAsImported /\ TrendMatches)
    /\ FirstRuleWins
=============================================================================
